SPECIFICATION Spec
CONSTANTS
  p = p
  q = q
  g = g
  Procs = {p, q, g}
  Cols = {1, 2, 3}
  Place <- MCPlace
  Programs <- Split
INVARIANT NoStandstill
CHECK_DEADLOCK FALSE
