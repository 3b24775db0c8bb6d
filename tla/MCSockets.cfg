SPECIFICATION Spec
CONSTANTS
  s1 = s1  s2 = s2  client = client
  Server = {s1, s2}
  Client = client
  MaxVanished = 1
  AbruptServer = FALSE
INVARIANT FreshConnection
PROPERTIES HealthyKept MainLoopGoesOn ConnectionsComeBack
