SPECIFICATION Spec
CONSTANTS
  Client = {c1, c2, c3}
  StateId = {s1, s2}
  MaxCalls = 3
  MaxFaults = 2
INVARIANTS ReaderSeesWhole AckedSurvives
PROPERTY FailureLeavesNothing
SYMMETRY ClientSymmetry
