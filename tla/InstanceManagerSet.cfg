SPECIFICATION Spec
CONSTANTS
  R = R  S = S  T = T  V = V
  Regions = {R, S}
  Box <- MCBox
  Jobs <- JobsShared
  Calls = {c1, c2}
  MaxJobs = 4
  Addr = {a1, a2, a3, a4}
  Insts = {i1, i2, i3}
  None = None
INVARIANT SetOutlivesSearch
CHECK_DEADLOCK FALSE
