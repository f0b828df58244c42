SPECIFICATION Spec
CONSTANTS
  Routes = {r1, r2}
  Second = {r2}
  Callers = {c1, c2}
  Run = Run
  MaxCycle = 4
  MaxGen = 1
  Faults = {"cancel", "gone", "flap", "admit", "start", "retire"}
VIEW View
SYMMETRY CallerSymmetry
CONSTRAINT EditsOrCycles
CHECK_DEADLOCK FALSE
INVARIANTS RetiredOnce Converged RemovedWorkEnds DrainsBounded
PROPERTIES RegistersAfresh
