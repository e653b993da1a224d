SPECIFICATION Spec
CONSTANTS
  Clients = {c1, c2}
  Users = {u1, u2}
  NoUser = NoUser
  Cap = 1
  MaxCost = 1
  MaxCalls = 3
  MaxWindow = 0
INVARIANT UsersAreCounted
CHECK_DEADLOCK FALSE
