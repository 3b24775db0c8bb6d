SPECIFICATION ViewSpec
CONSTANTS
  NBits = 3
  MaxEventCount = 2
INVARIANTS
  ViewTypeOK
  ShowsInOrder
PROPERTY PressEndsIfVisible
