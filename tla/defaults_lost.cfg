SPECIFICATION DfSpec
CONSTANTS
  a = a
  b = b
  p = p
  q = q
  Scalar = {a, b}
  DefaultScalar = {a}
  Label = {p, q}
  MaxLength = 2
  MaxSchemas = 1
  MaxObjects = 18
  MaxNested = 300
INVARIANT DefaultsWinOutright
CHECK_DEADLOCK FALSE
