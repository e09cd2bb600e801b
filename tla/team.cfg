CONSTANTS
  Users = {u1, u2, u3}
  Sessions = {s1, s2}
  Requests = {t1, t2}
  Roles = {"admin", "owner"}
  Nobody = Nobody
  Emails = {e1}
  Invites = {i1, i2}
  Links = {l1, l2}
SPECIFICATION TeamSpec
INVARIANTS AlwaysAnOwner OnlyRacesLeaveSessions
PROPERTIES DecisionsHold
SYMMETRY Symmetry
CHECK_DEADLOCK FALSE
