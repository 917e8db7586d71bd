SPECIFICATION Spec
CONSTANTS
  a = a
  b = b
  c = c
  Fields = {a, b}
  Scalars = {}
  Unbound = {}
  Attached = {}
  Tasks <- Managed
  Policies <- RelaxedOrStrict
  WindowSize = 2
  Freq = 1
  MaxCalls = 5
INVARIANT NoSecondException
CHECK_DEADLOCK FALSE
