SPECIFICATION FairSpec
CONSTANTS
  R = R  S = S  T = T  V = V
  Regions = {R, S, T, V}
  Box <- MCBox
  Jobs <- MCJobs
  Calls = {c1, c2}
  MaxJobs = 2
  Addr = {a1, a2, a3, a4, a5, a6}
  Insts = {i1, i2}
  None = None
INVARIANTS TypeOK Sane RoomForAll DeadAreForgotten
PROPERTY MappingReturns
CHECK_DEADLOCK FALSE
