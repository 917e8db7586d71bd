SPECIFICATION FairSpec
CONSTANTS
  N = 3
  MaxCalls = 4
  Ops <- AllOps
INVARIANTS
  TypeOK
  ReadsCurrentCall
  AliveWhileUsed
  GoneWhenDestroyed
PROPERTY
  KeepsPromise
  EveryCallReturns
