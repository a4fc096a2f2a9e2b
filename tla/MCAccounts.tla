----------------------------- MODULE MCAccounts -----------------------------
EXTENDS Accounts, TLC

\* Sound for the safety runs: no definition tells these rows and addresses apart.
\* (Users either: Managed is none or all of them in the runs, apart from the staff.)
Symmetry ==
  Permutations(Users \ Staff) \cup Permutations(Staff) \cup Permutations(Emails)
  \cup Permutations(Sessions) \cup Permutations(Requests)
=============================================================================
