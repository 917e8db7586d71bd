SPECIFICATION Spec
CONSTANTS
  s1 = s1
  s2 = s2
  kIn = kIn
  kOut = kOut
  Shards <- MCShards
  Keys <- MCKeys
  OutKeys <- MCOutKeys
  FieldBytes <- MCBytes
  FieldReuseFreq = 2
  FieldReuseSize = 1
  WindowSize = 4
  MaxStmts = 5
  Menu <- MenuReuse
SYMMETRY Symmetry
INVARIANTS
  TypeOK
  ReuseAgreement
  NoReuseWhileHeld
  MatchItemsDistinct
  ReusableIsDetached
  OneAttachment
