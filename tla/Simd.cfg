SPECIFICATION Spec
CONSTANTS
  Threads = {t1, t2}
  MaxLen = 13
  Lengths = {0, 3, 13}
  MaxCalls = 2
INVARIANTS
  KernelFits
  EachWordOnce
PROPERTIES
  Returns
CHECK_DEADLOCK FALSE
