SPECIFICATION Spec
CONSTANTS
  Sockets = 2
  Calm = {1}
  Ask <- MCAsk
  Tids = 2
INVARIANTS OwnAnswer NothingLost FlagTimed
PROPERTIES Served
