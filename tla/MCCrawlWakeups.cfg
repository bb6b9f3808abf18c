CONSTANTS
  j1 = j1
  u1 = u1
  u2 = u2
  w1 = w1
  Jobs = {j1}
  Urls = {u1, u2}
  Workers = {w1}
  JobOf <- MCJobOf
  SeedOf <- MCSeedOf
  NoWorker = NoWorker
  NoUrl = NoUrl
  MaxAttempts = 2
  BatchSize = 1
  MaxRequests = 1
  MaxCrashes = 1
  MaxLapses = 0
  MaxQueue = 1
  MaxLosses = 1
SPECIFICATION LiveWakeupSpec
INVARIANTS
  OneBatchPerMessage
PROPERTIES
  WakeupsOutliveCrashes
  WorkIsPickedUp
  CrawlEnds
  WakeupsDrain
