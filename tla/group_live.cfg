SPECIFICATION LiveSpec
CONSTANTS
  Routes = {r1}
  Callers = {}
  Run = Run
  MaxCycle = 2
  MaxGen = 0
  Second = {}
  Faults = {"stop", "timeout", "lost"}
CHECK_DEADLOCK FALSE
PROPERTIES ExpiredIsRetired ShutdownEnds
