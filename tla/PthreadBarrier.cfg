SPECIFICATION FairSpec
CONSTANTS
  r1 = r1
  r2 = r2
  r3 = r3
  Ranks <- MCRanks
  PhaseMod = 2
  NoOne = NoOne
INVARIANTS
  TypeOK
  NoLostWakeup
  CountIsRound
PROPERTY
  ImplementsBarrier
