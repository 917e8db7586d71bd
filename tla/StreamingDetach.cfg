SPECIFICATION Spec
CONSTANTS
  a = a
  b = b
  c = c
  Fields = {a, b}
  Scalars = {}
  Unbound = {}
  Attached = {a}
  Tasks <- Managed
  Policies <- StrictOnly
  WindowSize = 2
  Freq = 0
  MaxCalls = 8
INVARIANT DetachedOnReuse
CHECK_DEADLOCK FALSE
