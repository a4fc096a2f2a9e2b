\* Handlers and cron loops one after the other: everything the code claims.
SPECIFICATION Spec
CONSTANTS
  Jobs = {j1, j2}
  Apps = {a1, a2, a3}
  Providers = {p1}
  Workers = {w1, w2}
  None = none
  Requests = {r1}
  Loops = {l1}
  Amounts = {10, 20}
  FeePercent = 5
  Funders = {p1}
  MaxBalance = 30
  MaxFunding = 30
  Suspendable = {p1, w1}
  MaxInFlight = 1
SYMMETRY SymmetryA
INVARIANTS
  NoOverdraft
  EscrowIsCompensation
  CancelledJobHasNoWorker
  OneApplicationPerWorker
  HiringClosesApplications
  MoneyIsConserved
  WorkersEarnOnce
PROPERTIES
  JobLifecycle
  BlockedUsersCannotEnter
  KeepsPromise
