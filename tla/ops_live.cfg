SPECIFICATION LiveSpec
CONSTANTS
  a1 = a1  a2 = a2  b1 = b1  A = A  B = B
  Endpoints = {a1}
  Cells = {A}
  CellOf <- MCCellOf
  Procs = {p1}
  Ops = {o1}
  NoOp = NoOp
  MaxRecords = 8
  Lifetime = 0
  AbandonMargin = 0
  AbandonAttempts = 2
  RecoveryMaxDelay = 1
  NoReplyMaxDelay = 3
  RecoveryBackoff <- MCRecoveryBackoff
  NoReplyBackoff <- MCNoReplyBackoff
  MaxAttempts = 3
  MaxClock = 1
  ClockSteps = FALSE
  Settles = TRUE
  Deletes = TRUE
PROPERTIES OrphansResolved RetirementCompletes
