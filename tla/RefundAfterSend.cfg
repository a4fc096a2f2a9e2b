\* Two admins and one request.
SPECIFICATION Spec
CONSTANTS
  Users = {u1}
  Admins = {x1, x2}
  Methods = {m1}
  Withdrawals = {w1}
  Fundings = {t1}
  Requests = {r1, r2}
  None = none
  Amounts = {200}
  WithdrawFee = 5
  MethodLimit = 1
  MaxBalance = 40
  MaxInFlight = 2
INVARIANTS
  RefundedIsNotSent
