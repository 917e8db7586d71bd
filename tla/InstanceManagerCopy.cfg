SPECIFICATION Spec
CONSTANTS
  R = R  S = S  T = T  V = V
  Regions = {R, S}
  Box <- MCBox
  Jobs <- JobsCopy
  Calls = {c1}
  MaxJobs = 2
  Addr = {a1, a2, a3}
  Insts = {i1, i2, i3}
  None = None
INVARIANT RedundantNotCached
CHECK_DEADLOCK FALSE
