SPECIFICATION Spec
CONSTANTS
  a = a
  b = b
  c = c
  Fields = {a, b}
  Scalars = {}
  Unbound = {}
  Attached = {}
  Tasks <- Copying
  Policies <- RelaxedOnly
  WindowSize = 2
  Freq = 0
  MaxCalls = 8
INVARIANT ReadsSurvive
CHECK_DEADLOCK FALSE
