---------------------------- MODULE MCJobEscrow ----------------------------
EXTENDS JobEscrowMoney, TLC

\* Sound for the safety runs: no definition tells these rows apart.
Symmetry == Permutations(Apps) \cup Permutations(Requests) \cup Permutations(Loops)
SymmetryW == Symmetry \cup Permutations(Workers)
SymmetryA == Symmetry \cup Permutations(Jobs)
=============================================================================
