SPECIFICATION Spec
CONSTANTS
  Process = {p1, p2}
  NoSentinel = NoSentinel
  MaxCrash = 1
INVARIANT MutualExclusion
