SPECIFICATION Spec
CONSTANTS
  a = a
  b = b
  c = c
  Fields = {a}
  Scalars = {}
  Unbound = {}
  Attached = {}
  Tasks <- Reusing
  Policies <- TwoOrOne
  WindowSize = 2
  Freq = 0
  MaxCalls = 8
INVARIANT TilesOfPolicy
CHECK_DEADLOCK FALSE
