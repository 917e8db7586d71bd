SPECIFICATION FairSpec
CONSTANTS
  p = p
  q = q
  g = g
  Procs = {p, q, g}
  Cols = {1, 2, 3}
  Place <- MCPlace
  Programs <- Streams
INVARIANTS TypeOK NoGenerationLeftBehind BusyWithOpenColumn
PROPERTY EverythingMapped
CHECK_DEADLOCK FALSE
