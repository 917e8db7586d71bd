SPECIFICATION Spec
CONSTANTS
  a = a
  b = b
  c = c
  Fields = {a, c}
  Scalars = {c}
  Unbound = {}
  Attached = {}
  Tasks <- Scalar
  Policies <- RelaxedOnly
  WindowSize = 2
  Freq = 0
  MaxCalls = 8
INVARIANT GenerationComplete
CHECK_DEADLOCK FALSE
