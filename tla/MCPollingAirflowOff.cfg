SPECIFICATION FairSpec
CONSTANTS
  Polled = {0, 5}
  Bit = {b1}
  LogMask <- AllBits
PROPERTY AirflowFaultReleased
