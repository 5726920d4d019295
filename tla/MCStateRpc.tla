----------------------------- MODULE MCStateRpc -----------------------------
EXTENDS StateRpc, TLC

\* A negative, a small and an oversized proposal.
MCProposal == {-1, 1, 5}

\* Nothing tells two clients apart.
ClientSymmetry == Permutations(Client)

=============================================================================
