CONSTANTS
  account = account
  payments = payments
  toml = toml
  claims = claims
  MaxPages = 2
  DeadlineLength = 4
  RequestTimeout = 3
  RetryDelay = 1
  MinRetryBudget = 2
  MinPageBudget = 1
  Count = 2
  Calls = {c1, c2, c3}
  AttemptTimeout = 1
  Cooldown = 2
  Patience = 2
  MaxClock = 4
  me = me
  peer = peer
  mixer = mixer
  ofac = ofac
  Hour = 1
  Day = 1
  Velocity = 4
  Scan = 2
  MaxNow = 2
  MaxSeen = 4
  Nothing = nothing
  Transfers = {t1, t2}
  References = {r1, r2}
  Workers = {k1, k2}
  Attempts = 2
  MaxTrClock = 1
  MaxHistory = 3
  Alerts = {a1}
  Listed = {t1}
  PeriodStart = 1
  PeriodEnd = 2
  MaxReportClock = 2
  MaxEvents = 3
  MaxMoves = 2
  MaxReports = 2
SPECIFICATION ServicesSpec
INVARIANTS ReportIsTrue
PROPERTIES ScreenIsHonest FailoverIsFair ScoreIsSound HistoryIsSound
CHECK_DEADLOCK FALSE
