SPECIFICATION ScopesSpec
CONSTANTS
  a = a
  b = b
  c = c
  Fields = {a, b, c}
  Scalars = {c}
  Unbound = {}
  Attached = {}
  Tasks <- MixedOrChecked
  Policies <- AllPolicies
  WindowSize = 2
  Freq = 0
  MaxCalls = 7
CONSTRAINT OneProgram
INVARIANTS TypeOK ReadsSurvive CheckedIsLaunched FencedGenerations
  GenerationComplete PointwiseStores ReductionsLast NoSecondException
PROPERTIES KeepsStream StrictIsOneGroup
CHECK_DEADLOCK FALSE
