\* Two loops of the cron against a handler that touches, settles or revives the jobs
\* they fetched.  The wallet of one worker may fill up.
SPECIFICATION FairSpec
CONSTANTS
  Jobs = {j1, j2}
  Apps = {a1, a2}
  Providers = {p1}
  Workers = {w1, w2}
  None = none
  Requests = {r1}
  Loops = {l1, l2}
  Amounts = {20}
  FeePercent = 5
  Funders = {p1, w1}
  MaxBalance = 20
  MaxFunding = 60
  Suspendable = {}
  MaxInFlight = 3
PROPERTIES
  DeliveredWorkIsSettled
