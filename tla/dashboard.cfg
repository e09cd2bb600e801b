CONSTANTS
  Endpoints = {e1, e2}
  MaxMinted = 3
  MaxRequests = 2
  AuthOrgs = {o1}
  MaxForms = 2
  Orgs = {o1, o2}
  MaxWrites = 1
  Subjects = {s1, s2, bad}
  Malformed = {bad}
  MaxSteps = 2
  MaxChecks = 3
  a1 = a1
  a2 = a2
  a3 = a3
  MaxNotes = 1
  MaxTurns = 1
  MaxSubmits = 2
  Hashes = {h1}
  Lines = {h2}
  MaxChanges = 2
  Members = {u1, u2, u3}
  Self = u1
  MaxActs = 1
  MaxColleague = 1
  Names = {n1, n2}
  MaxReports = 1
  ListLimit = 2
  MaxFlows = 1
  MaxRuns = 2
  MaxSends = 2
  MaxOthers = 1
  None = none
SPECIFICATION DashboardSpec
INVARIANTS SecretsAreShown SignInHolds CacheIsHonest ScreenShowsWhatWasAsked DecisionsGoWhereMade TransfersAreKept TeamPageAgrees PagesCatchUp
CHECK_DEADLOCK FALSE
