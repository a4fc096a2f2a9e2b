------------------------------ MODULE MCPhotos ------------------------------
EXTENDS Photos, TLC

\* Sound: no definition tells the members of these sets apart.
Symmetry ==
  Permutations(Users) \cup Permutations(Photos) \cup Permutations(Files)
  \cup Permutations(Descriptions) \cup Permutations(Requests)
=============================================================================
