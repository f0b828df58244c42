SPECIFICATION Spec
CONSTANTS
  a1 = a1  a2 = a2  b1 = b1  A = A  B = B
  Endpoints = {a1, a2, b1}
  Cells = {A, B}
  CellOf <- MCCellOf
  Procs = {p1}
  Ops = {o1, o2, o3}
  NoOp = NoOp
  MaxRecords = 2
  Lifetime = 0
  AbandonMargin = 1
  AbandonAttempts = 2
  RecoveryMaxDelay = 1
  NoReplyMaxDelay = 3
  RecoveryBackoff <- MCRecoveryBackoff
  NoReplyBackoff <- MCNoReplyBackoff
  MaxAttempts = 2
  MaxClock = 2
  ClockSteps = TRUE
  Settles = FALSE
  Deletes = TRUE
VIEW WithoutPackets
SYMMETRY RollSymmetry
CONSTRAINT Handover
INVARIANTS LiveUndisturbed Custody CellFenced
PROPERTIES ReplacementWaits
