CONSTANTS
  Wallets = {w1, w2}
  Failing = {}
  Interval = 3
  Batch = 3
  Workers = {k1, k2}
  Longest = 1
  MaxAge = 12
  Nothing = nothing
SPECIFICATION AloneSpec
INVARIANT EveryInterval
