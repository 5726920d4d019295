---------------------------- MODULE MCStateFile ----------------------------
EXTENDS StateFile, TLC

\* Nothing tells two clients apart.
ClientSymmetry == Permutations(Client)

=============================================================================
