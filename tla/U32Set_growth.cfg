SPECIFICATION TableSpec
CONSTANTS
  Width = 6
  Multiplier = 49
  InitialCaps = {0, 8}
  Inserts <- SixBitInserts
  Free = Free
INVARIANT ProbesEnd
INVARIANT RemembersExactly
INVARIANT RunsDoNotCollide
CHECK_DEADLOCK FALSE
