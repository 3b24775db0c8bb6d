SPECIFICATION Spec
CONSTANTS
  s1 = s1  s2 = s2  r1 = r1  r2 = r2  m1 = m1
  Sensor = {s1, s2}
  Register = {r1, r2}
  Master = {m1}
  Patient = TRUE
  Timeout = 3
  PollingTime = 3
  FailureTime = 1
  GuardTime = 3
  MaxLatency = 2
  Sample = {1, 4}
INVARIANTS
  AnswerBelongs
  PollFaultReal
  ReceiverAgrees
PROPERTIES
  PollingGoesOn
