CONSTANTS
  Wallets = {w1, w2}
  Requests = {t1, t2}
  MaxTransfers = 2
  Risky = {{1, 2}, {1}}
  Labels = {listed}
  None = None
  Monitored = {m1, m2, m3}
  Failing = {m3}
  Interval = 3
  Batch = 2
  Workers = {k1, k2}
  Longest = 3
  MaxAge = 19
  Audits = {a1, a2}
  Drafts = {d1}
  References = {n1, n2}
  Instances = {i1, i2}
  Posts = {}
  RefAttempts = 2
  MaxFailures = 2
SPECIFICATION BackgroundSpec
INVARIANTS RowsTellAll
PROPERTIES NoAlertOnceGone MonitorKeepsUp QueuedReportsEnd
CHECK_DEADLOCK FALSE
