SPECIFICATION Spec
CONSTANTS
  R = R  S = S  T = T  V = V
  Regions = {R, S}
  Box <- MCBox
  Jobs <- JobsThrow
  Calls = {c1}
  MaxJobs = 4
  Addr = {a1, a2, a3}
  Insts = {i1, i2, i3}
  None = None
INVARIANT NoThrow
CHECK_DEADLOCK FALSE
