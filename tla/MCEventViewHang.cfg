SPECIFICATION ViewSpec
CONSTANTS
  NBits = 2
  MaxEventCount = 2
PROPERTY PressEnds
