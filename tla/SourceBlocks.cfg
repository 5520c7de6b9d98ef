SPECIFICATION Spec
CONSTANTS
  HeaderLen = 2
  MaxU16 = 4
  MaxStreamBytes = 14
  MaxU32 = 15
  WordBytes = 2
  Lengths = {0,1,2,3,4,5,6,7,8,9,10,11,12,13,14,15,17}
  Frames = {0,2,3,4,5,6,7}
INVARIANTS
  SendersAreAdmitted
  Reassembled
  SmallestIsRight
CHECK_DEADLOCK FALSE
