SPECIFICATION Spec
CONSTANTS
  v1 = v1
  v2 = v2
  EthField = {"ip"}
  ServerField = {"port"}
  Val = {v1, v2}
  Default <- DefaultConfig
INVARIANT MenuAlone
PROPERTY RequestReachesChip
