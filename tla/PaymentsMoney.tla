---------------------------- MODULE PaymentsMoney ----------------------------
(***************************************************************************)
(* The money of Payments as a whole.                                       *)
(***************************************************************************)
EXTENDS Payments, Functions

Deposits ==
  [t \in Fundings |-> IF fundings[t].status = "COMPLETED" THEN fundings[t].amount ELSE 0]

\* What a request keeps away from its user's wallet, on its way to the bank.
Outgoing ==
  [w \in Withdrawals |-> IF requests[w].status \in {"unborn", "REJECTED"} THEN 0
                         ELSE requests[w].amount - WithdrawFee]

AllDeposits == SumFunction(Deposits)
AllMoney    == SumFunction(wallets) + platform + SumFunction(Outgoing)

\* Races create money, they never lose any: every deposit that is booked can be found
\* in wallets, fees and withdrawals, but for a cent where an admin's deposit ends in half a
\* cent: a balance that stays negative is rounded down, the booked amount up.
\* (completeTopup, addBalance, createWithdrawRequest, rejectWithdrawRequest.)
NobodyLosesMoney == AllMoney + halves.deposited >= AllDeposits

\* One after the other, nothing is credited or refunded twice either: there is as much money
\* as was deposited, and one cent for each withdrawal that ended in half a cent.  The user
\* keeps that cent, also after a refund: balance and amount are both rounded up.
\* (The status checks of completeTopup and of the admin handlers, the two roundings of
\* createWithdrawRequest.)
MoneyAddsUp == AllMoney = AllDeposits + halves.withdrawn
=============================================================================
