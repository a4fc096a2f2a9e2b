----------------------------- MODULE MCPayments -----------------------------
EXTENDS PaymentsMoney, TLC

\* Sound for the safety runs: no definition tells these rows apart.
Symmetry == Permutations(Methods) \cup Permutations(Withdrawals) \cup Permutations(Fundings)
              \cup Permutations(Requests) \cup Permutations(Admins)
=============================================================================
