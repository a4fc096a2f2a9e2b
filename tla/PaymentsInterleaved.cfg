\* Two handlers at a time: two admins, one user, one deposit and two withdrawals.
SPECIFICATION Spec
CONSTANTS
  Users = {u1}
  Admins = {x1, x2}
  Methods = {m1}
  Withdrawals = {w1, w2}
  Fundings = {t1}
  Requests = {r1, r2}
  None = none
  Amounts = {205}
  WithdrawFee = 5
  MethodLimit = 1
  MaxBalance = 41
  MaxInFlight = 2
SYMMETRY Symmetry
INVARIANTS
  PaymentsTypeOK
  AuditTrail
  NobodyLosesMoney
