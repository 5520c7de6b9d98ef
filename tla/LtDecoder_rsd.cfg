SPECIFICATION Spec
CONSTANTS
  K = 3
  Mode = "rsd"
  MaxSeq = 6
  Repair <- EveryEquation
  Noise = {e}
  ArenaFactor = 4
  EdgeFactor = 64
  MaxDup = 1
  MaxDropped = 0
INVARIANT IInv
INVARIANT OrderIndependent
PROPERTY SolvedIsStable
PROPERTY RefinesPeeling
PROPERTY ResolveEnds
CHECK_DEADLOCK FALSE
