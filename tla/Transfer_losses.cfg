SPECIFICATION Spec
CONSTANTS
  a = a
  b = b
  big = big
  odd = odd
  None = None
  Stream <- TwoStreams
  Senders = {a}
  MaxSeq = 6
  Limits <- SmallLimits
  Maximum <- MaximumLimits
  ArenaFactor = 4
  EdgeFactor = 64
  Window = 2
  MaxLosses = 1
  MaxCollisions = 1
  Damaged = {a, big, odd}
  MaxResets = 0
PROPERTY Delivery
CHECK_DEADLOCK FALSE
