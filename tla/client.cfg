CONSTANTS
  Requests = {q1, q2, q3}
  Keys = {k1}
  Bodies = {b1, b2}
  Nobody = nobody
  MaxFailures = 2
  MaxCrashes = 1
  MaxRetries = 2
  None = none
  Events = {e1}
  Tolerance = 1
  MaxClock = 3
  Attempts = 3
  MaxSecret = 1
  MaxRestarts = 1
SPECIFICATION ClientSpec
INVARIANTS OneEffectPerKey KeysAreHonest CallTellsTheTruth
PROPERTIES EverybodyIsAnswered ReceiverKeepsItsWord
CHECK_DEADLOCK FALSE
