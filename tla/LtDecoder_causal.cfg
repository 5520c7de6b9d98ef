SPECIFICATION Spec
CONSTANTS
  K = 4
  Mode = "causal"
  MaxSeq = 7
  Repair <- Tail4
  Noise = {}
  ArenaFactor = 1
  EdgeFactor = 2
  MaxDup = 1
  MaxDropped = 2
INVARIANT NoEquationLost
INVARIANT FirstPhaseSuffices
INVARIANT MemoryBounded
PROPERTY CallsAgree
CHECK_DEADLOCK FALSE
