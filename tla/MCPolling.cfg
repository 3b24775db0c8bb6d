SPECIFICATION FairSpec
CONSTANTS
  Polled = {0, 5, 14}
  Bit = {b1}
  LogMask <- AllBits
PROPERTIES
  RoundRobin
  FaultLit
  FaultReleased
  BitNoticed
  NoEventTwice
