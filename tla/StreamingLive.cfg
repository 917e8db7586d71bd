SPECIFICATION FairSpec
CONSTANTS
  a = a
  b = b
  c = c
  Fields = {a, b}
  Scalars = {}
  Unbound = {b}
  Attached = {a}
  Tasks <- Writing
  Policies <- RelaxedOrStrict
  WindowSize = 2
  Freq = 1
  MaxCalls = 5
PROPERTY CallsReturn
CHECK_DEADLOCK FALSE
