SPECIFICATION SpecInScope
CONSTANTS
  a = a
  b = b
  p = p
  Fields = {a, b}
  Scalars = {}
  Unbound = {}
  Attached = {}
  Tasks <- Chains
  Policies <- RelaxedOnly
  WindowSize = 2
  Freq = 0
  MaxCalls = 4
  Procs = {p}
  Cols = {1, 2}
  Place <- MCPlace
INVARIANT NothingAwaited
CONSTRAINT FieldsUsedOnce
CHECK_DEADLOCK FALSE
