SPECIFICATION Spec
CONSTANTS
  Routes = {r1, r2, r3}
  Bad = {r1, r2}
  Extra = {r2}
  Window = 1
  MaxGen = 1
  MaxUpdates = 2
  Faults = {"push", "gone", "stale", "stop", "resend"}
CONSTRAINT FullTableQuiet
CHECK_DEADLOCK FALSE
INVARIANTS PushedIsHeld QueueBounded
PROPERTIES ImplementsSession
