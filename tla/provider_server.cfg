SPECIFICATION FairSpec
CONSTANTS
  s1 = s1
  s2 = s2
  stop = stop
  other = other
  Call = {s1, s2, stop, other}
  KindOf <- MCKindOf
  MaxAttempts = 2
INVARIANTS OneComputation CacheIsUsable
INVARIANT StopIsAnswered
PROPERTY EveryCallAnswered
CHECK_DEADLOCK FALSE
