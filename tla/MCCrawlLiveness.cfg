CONSTANTS
  j1 = j1
  j2 = j2
  u1 = u1
  u2 = u2
  u3 = u3
  w1 = w1
  w2 = w2
  Jobs = {j1}
  Urls = {u1, u2}
  Workers = {w1, w2}
  JobOf <- MCJobOf
  SeedOf <- MCSeedOf
  NoWorker = NoWorker
  NoUrl = NoUrl
  MaxAttempts = 2
  BatchSize = 2
  MaxRequests = 2
  MaxCrashes = 1
  MaxLapses = 1
SPECIFICATION LiveSpec
PROPERTIES
  PauseTakesEffect
  CancelTakesEffect
  CrawlEnds
  ClaimsEnd
