SPECIFICATION Spec
CONSTANTS
  a1 = a1  a2 = a2  b1 = b1  A = A  B = B
  Endpoints = {a1, a2}
  Cells = {A}
  CellOf <- MCCellOf
  Procs = {p1, p2}
  Ops = {o1}
  NoOp = NoOp
  MaxRecords = 8
  Lifetime = 0
  AbandonMargin = 0
  AbandonAttempts = 1
  RecoveryMaxDelay = 1
  NoReplyMaxDelay = 3
  RecoveryBackoff <- MCRecoveryBackoff
  NoReplyBackoff <- MCNoReplyBackoff
  MaxAttempts = 2
  MaxClock = 1
  ClockSteps = FALSE
  Settles = FALSE
  Deletes = FALSE
VIEW WithoutSilences
SYMMETRY RaceSymmetry
CONSTRAINT MovesOnce AdmitsEarly
INVARIANTS TypeOK PacketsCounted ReconcileAcceptsProgress
PROPERTIES BackoffHonoured KeepsCustody
