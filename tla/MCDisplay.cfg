SPECIFICATION DisplaySpec
CONSTANTS
  Digit = 3
  LastPlace = 1
  Code <- MCCode
  TenMinutes = 14
  ValueLength <- MCValueLength
INVARIANTS Gate ShowsPosition UnattendedLocks DigitUnderCursor PageDisplayed
PROPERTIES ImplementsPanel
