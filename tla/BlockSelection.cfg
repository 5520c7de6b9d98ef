SPECIFICATION Spec
CONSTANTS
  None = None
  K = 4
  Unit = 10
  Quant = 4
  DenseShare = 2
  Cdfs <- AllCdfs
  MaxFrames = 2
  MaxRejected = 1
INVARIANTS DegreeExact BlocksDistinct HistoryForgotten
CHECK_DEADLOCK FALSE
