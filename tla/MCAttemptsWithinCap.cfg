CONSTANTS
  j1 = j1
  j2 = j2
  u1 = u1
  u2 = u2
  u3 = u3
  w1 = w1
  w2 = w2
  Jobs = {j1}
  Urls = {u1, u2}
  Workers = {w1, w2}
  JobOf <- MCJobOf
  SeedOf <- MCSeedOf
  NoWorker = NoWorker
  NoUrl = NoUrl
  MaxAttempts = 1
  BatchSize = 1
  MaxRequests = 1
  MaxCrashes = 1
  MaxLapses = 0
SPECIFICATION Spec
INVARIANT AttemptsWithinCap
