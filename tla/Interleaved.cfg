\* Three handlers and two loops of the cron, all at the same time, around one job and two workers.
SPECIFICATION Spec
CONSTANTS
  Jobs = {j1}
  Apps = {a1, a2}
  Providers = {p1}
  Workers = {w1, w2}
  None = none
  Requests = {r1, r2, r3}
  Loops = {l1, l2}
  Amounts = {20}
  FeePercent = 5
  Funders = {p1}
  MaxBalance = 40
  MaxFunding = 20
  Suspendable = {}
  MaxInFlight = 5
SYMMETRY SymmetryW
INVARIANTS
  TypeOK
  HiredJobHasEscrow
  ApprovedJobIsPaid
  OneHirePerJob
PROPERTIES
  EscrowMovesForward
  OnlyPayeesArePaid
