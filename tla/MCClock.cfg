SPECIFICATION Spec
CONSTANTS
  Last <- MCLast
  Commanded <- MCCommanded
INVARIANT OneSetting
PROPERTIES EditKept StampsRefreshed
