CONSTANTS
  j1 = j1
  j2 = j2
  u1 = u1
  u2 = u2
  u3 = u3
  w1 = w1
  w2 = w2
  Jobs = {j1}
  Urls = {u1, u2}
  Workers = {w1, w2}
  JobOf <- MCJobOf
  SeedOf <- MCSeedOf
  MaxAttempts = 2
  BatchSize = 2
  NoWorker = NoWorker
  NoUrl = NoUrl
  MaxRequests = 3
  MaxCrashes = 2
  MaxLapses = 1
SPECIFICATION Spec
SYMMETRY WorkerSymmetry
INVARIANTS
  IInv
  OwnershipMatchesStatus
  LedgerMatchesRow
  OneVerdict
  RetryCountIsFresh
  OnlyAbandonmentPassesCap
  FinishedJobsAreSettled
  PausedJobsFetchNothing
PROPERTIES
  SettledRowsStay
  SuccessOnlyWhileRunning
  AttemptsAreLogged
  KeepsContract
