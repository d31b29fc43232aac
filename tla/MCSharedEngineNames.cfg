\* Two workflows with the same task names run at the same time.
CONSTANTS
  v = v  w = w  a = a  b = b  c = c  d = d
  Workflows = {v, w}
  Loads <- EqualNames
SPECIFICATION Spec
INVARIANTS
  DependencyOrder
CHECK_DEADLOCK FALSE
