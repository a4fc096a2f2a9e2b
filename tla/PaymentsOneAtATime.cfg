\* Handlers one after the other: everything the code claims.
SPECIFICATION Spec
CONSTANTS
  Users = {u1, u2}
  Admins = {x1, x2}
  Methods = {m1, m2, m3}
  Withdrawals = {w1, w2}
  Fundings = {t1, t2}
  Requests = {r1}
  None = none
  Amounts = {205, 400}
  WithdrawFee = 5
  MethodLimit = 1
  MaxBalance = 60
  MaxInFlight = 1
SYMMETRY Symmetry
INVARIANTS
  NoDebt
  MoneyAddsUp
  MethodsAreKept
PROPERTIES
  WithdrawalLifecycle
