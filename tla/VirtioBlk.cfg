SPECIFICATION Spec
CONSTANTS
  x = x
  a = a
  b = b
  QueueNum = 8
  IdxRange = 16
  Sectors = {x}
  Values = {a, b}
  Heads = {1, 6}
  Requests <- MCRequests
  Sources = {1, 2}
INVARIANTS Notified
PROPERTY Implements
CHECK_DEADLOCK FALSE
