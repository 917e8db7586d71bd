SPECIFICATION SpecInScope
CONSTANTS
  a = a
  b = b
  p = p
  Fields = {a}
  Scalars = {}
  Unbound = {}
  Attached = {}
  Tasks <- Writers
  Policies <- RelaxedOnly
  WindowSize = 2
  Freq = 0
  MaxCalls = 4
  Procs = {p}
  Cols = {1, 2}
  Place <- MCPlace
INVARIANT NothingAwaited
CHECK_DEADLOCK FALSE
