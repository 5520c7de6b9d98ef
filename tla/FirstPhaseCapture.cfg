SPECIFICATION CaptureSpec
CONSTANTS
  K = 2
  Mode = "causal"
  MaxSeq = 8
  Repair <- TailOfDegreeTwo
  Noise = {}
  ArenaFactor = 4
  EdgeFactor = 64
  MaxDup = 0
  MaxDropped = 1
INVARIANT FirstPhaseReconstructs
CHECK_DEADLOCK FALSE
