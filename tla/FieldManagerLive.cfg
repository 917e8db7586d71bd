SPECIFICATION FairSpec
CONSTANTS
  s1 = s1
  s2 = s2
  kIn = kIn
  kOut = kOut
  Shards <- MCShards
  Keys <- MCKeys
  OutKeys <- MCOutKeys
  FieldBytes <- MCBytes
  FieldReuseFreq = 2
  FieldReuseSize = 1
  WindowSize = 1
  MaxStmts = 4
  Menu <- MenuOrder
INVARIANTS ControlDeterminism
PROPERTIES
  MatchesComplete
CHECK_DEADLOCK FALSE
