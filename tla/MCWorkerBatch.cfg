CONSTANTS
  r1 = r1
  r2 = r2
  Rows = {r1, r2}
  NoRow = NoRow
  LeaseDuration = 6
  HeartbeatInterval = 1
  PollInterval = 2
  MaxDelay = 1
  MaxSkew = 1
  MaxTime = 12
  Absent = Absent
  NotANumber = NotANumber
  LastDate = 1000
  Attempts <- MCAttempts
  Intervals <- MCIntervals
  Headers <- MCHeaders
SPECIFICATION Spec
SYMMETRY RowSymmetry
CHECK_DEADLOCK FALSE
INVARIANTS
  IInv
  RecoveredInTime
  HeartbeatsEndWithBatch
  BackoffDoubles
  DelaysAreBounded
PROPERTIES
  HealthyRowsStay
