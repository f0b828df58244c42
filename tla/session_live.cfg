SPECIFICATION LiveSpec
CONSTANTS
  Routes = {r1, r2, r3}
  Bad = {r1, r2}
  Extra = {r2}
  Window = 1
  MaxGen = 0
  MaxUpdates = 0
  Faults = {"push", "rotate", "outage"}
CONSTRAINT Crowded
CHECK_DEADLOCK FALSE
PROPERTIES SiblingsRegister
