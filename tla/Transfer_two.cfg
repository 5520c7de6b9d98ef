SPECIFICATION SafeSpec
CONSTANTS
  a = a
  b = b
  big = big
  odd = odd
  None = None
  Stream <- TwoStreams
  Senders = {a, b}
  MaxSeq = 2
  Limits <- SmallLimits
  Maximum <- MaximumLimits
  ArenaFactor = 4
  EdgeFactor = 64
  Window = 3
  MaxLosses = 0
  MaxCollisions = 1
  Damaged = {a, big, odd}
  MaxResets = 1
INVARIANT IInv
INVARIANT HandedOnce
INVARIANT StreamsDoNotMix
INVARIANT NoSequenceReuse
PROPERTY LockIsKept
CHECK_DEADLOCK FALSE
