SPECIFICATION Spec
CONSTANTS
  Client = {c1, c2, c3}
  NoLease = NoLease
  NoClient = NoClient
  Empty = Empty
  Torn = Torn
  Ttl = {0, 2}
  MaxSkew = 1
  MaxClock = 3
  MaxIssued = 2
PROPERTY ImplementsLease
SYMMETRY ClientSymmetry
