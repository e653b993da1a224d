CONSTANTS
  Requests = {r1, r2, r3}
  Bodies = {b1}
SPECIFICATION Spec
INVARIANTS
  OneProceeds
CHECK_DEADLOCK FALSE
