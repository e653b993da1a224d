CONSTANTS
  c1 = c1  c2 = c2  first = first  second = second  only = only
  b1 = b1  b2 = b2
  Calls = {c1, c2}
  Requests = {first, second, only}
  Attempts <- MCAttempts
  Wants <- MCWants
  Bodies = {b1, b2}
SPECIFICATION ClientSpec
INVARIANTS
  ReplayIsSameOperation
  SentinelHasHolder
  AtMostOnce
  ReturnsItsOwn
PROPERTIES
  
  EveryCallEnds
CHECK_DEADLOCK FALSE
