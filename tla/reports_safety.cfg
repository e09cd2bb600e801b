CONSTANTS
  Audits = {a1, a2}
  Drafts = {d1, d2, d3}
  References = {n1, n2, n3}
  Instances = {i1, i2}
  Requests = {q1}
  None = none
  RefAttempts = 2
  MaxCrashes = 1
  MaxFailures = 2
SPECIFICATION Spec
SYMMETRY Interchangeable
INVARIANTS ReadyMatchesFiles VerifyFindsOwner RenderedOnce LogAgrees
