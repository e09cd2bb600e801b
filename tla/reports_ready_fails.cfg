CONSTANTS
  Audits = {a1, a2}
  Drafts = {d1}
  References = {n1, n2}
  Instances = {i1, i2}
  Requests = {q1}
  None = none
  RefAttempts = 2
  MaxCrashes = 0
  MaxFailures = 1
SPECIFICATION Spec
PROPERTIES ReadyIsFinal
