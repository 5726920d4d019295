----------------------------- MODULE MCFsLease -----------------------------
EXTENDS FsLease, TLC

\* Clients differ only in their skew, which Init chooses in every way.
ClientSymmetry == Permutations(Client)

=============================================================================
