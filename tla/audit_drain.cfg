SPECIFICATION LiveSpec
CONSTANTS
  Callers = {c1, c2}
  Entries = 2
  BufferSize = 1
  FlushAt = 2
  Faults = {"disk", "open", "disabled"}
CHECK_DEADLOCK FALSE
INVARIANTS Accounted
PROPERTIES AcceptedIsWritten
