\* Two handlers, or a handler and the cron, around one delivered job.
SPECIFICATION Spec
CONSTANTS
  Jobs = {j1}
  Apps = {a1}
  Providers = {p1}
  Workers = {w1}
  None = none
  Requests = {r1, r2}
  Loops = {l1}
  Amounts = {20}
  FeePercent = 5
  Funders = {p1}
  MaxBalance = 40
  MaxFunding = 20
  Suspendable = {}
  MaxInFlight = 2
INVARIANTS
  WorkersEarnOnce
