SPECIFICATION Spec
CONSTANTS
  a = a
  b = b
  c = c
  Fields = {a, b}
  Scalars = {}
  Unbound = {}
  Attached = {}
  Tasks <- Managed
  Policies <- RelaxedOrNot
  WindowSize = 2
  Freq = 0
  MaxCalls = 5
INVARIANT TableHolds
CHECK_DEADLOCK FALSE
