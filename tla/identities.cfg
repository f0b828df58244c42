SPECIFICATION Spec
CONSTANTS
  Ids = {a, b}
  Procs = {p1, p2}
  None = None
  MaxEra = 2
  MaxNonce = 2
  Faults = {"crash", "power", "write", "sync", "unanswered", "lose", "readonly"}
SYMMETRY BothSymmetry
CONSTRAINT TwoAdds OneMayReturn LostAlone
INVARIANTS OneResourcePerRoute NothingForgotten RouteFailsClosed
PROPERTIES EnrolsUnbound EditsOneRoute
