SPECIFICATION Spec
CONSTANTS
  Clients = {c1, c2, c3}
  Users = {u1, u2}
  NoUser = NoUser
  Cap = 2
  MaxCost = 1
  MaxCalls = 3
  MaxWindow = 1
SYMMETRY Symmetry
INVARIANTS
  TablesBounded
  WindowsTruthful
  NothingInvented
CHECK_DEADLOCK FALSE
