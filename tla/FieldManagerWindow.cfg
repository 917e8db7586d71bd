SPECIFICATION Spec
CONSTANTS
  s1 = s1
  s2 = s2
  kIn = kIn
  kOut = kOut
  Shards <- MCShards
  Keys <- MCKeys
  OutKeys <- MCOutKeys
  FieldBytes <- MCBytes
  FieldReuseFreq = 2
  FieldReuseSize = 1
  WindowSize = 2
  MaxStmts = 4
  Menu <- MenuTask
INVARIANTS
  ControlDeterminism
