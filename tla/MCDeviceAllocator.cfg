SPECIFICATION Spec
CONSTANTS
  o1 = o1
  o2 = o2
  o3 = o3
  o4 = o4
  Threads = {t1, t2}
  Objs = {o1, o2, o3, o4}
  Size <- MCSize
  Tensors = {o1, o2, o3}
  Capacity = 3
  None = None
INVARIANTS StatsBounded GilKept
PROPERTY CallsEnd
CHECK_DEADLOCK FALSE
