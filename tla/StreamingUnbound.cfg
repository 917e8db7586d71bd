SPECIFICATION Spec
CONSTANTS
  a = a
  b = b
  c = c
  Fields = {a, b}
  Scalars = {}
  Unbound = {b}
  Attached = {}
  Tasks <- Managed
  Policies <- RelaxedOnly
  WindowSize = 2
  Freq = 0
  MaxCalls = 5
INVARIANT RegionsExist
CHECK_DEADLOCK FALSE
