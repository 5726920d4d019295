SPECIFICATION Spec
CONSTANTS
  Client = {c1, c2}
  NoClient = NoClient
  Proposal <- MCProposal
  DefaultChunk = 2
  MaxChunk = 3
  MaxSize = 3
  MaxWrites = 2
INVARIANTS ReadsAreWhole NoLostUpdate
PROPERTY StoredAsDeclared
SYMMETRY ClientSymmetry
