CONSTANTS
  Audits = {a1, a2}
  Drafts = {d1}
  References = {n1, n2}
  Instances = {i1, i2}
  Requests = {q1}
  None = none
  RefAttempts = 2
  MaxCrashes = 1
  MaxFailures = 0
SPECIFICATION FairSpec
PROPERTIES EveryReportEnds
