\* Two acceptances of one employer, each with a balance check of its own.
SPECIFICATION Spec
CONSTANTS
  Jobs = {j1, j2}
  Apps = {a1, a2}
  Providers = {p1}
  Workers = {w1}
  None = none
  Requests = {r1, r2}
  Loops = {l1}
  Amounts = {20}
  FeePercent = 5
  Funders = {p1}
  MaxBalance = 40
  MaxFunding = 20
  Suspendable = {}
  MaxInFlight = 2
INVARIANTS
  NoOverdraft
