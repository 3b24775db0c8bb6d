SPECIFICATION Spec
CONSTANTS
  Event = {e1, e2}
  NoEvent = NoEvent
  MaxEventCount = 3
  Erased = 65535
INVARIANTS
  CounterBounded
  Agreement
PROPERTIES
  CountedRecordsStay
  ImplementsStore
