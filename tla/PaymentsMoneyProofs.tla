------------------------ MODULE PaymentsMoneyProofs ------------------------
(***************************************************************************)
(* Proofs about the money of Payments: that no interleaving loses any, and *)
(* what the checks of the code ensure when handlers run one after the      *)
(* other (MaxInFlight = 1).                                                *)
(***************************************************************************)
EXTENDS PaymentsMoney, PaymentsProofs, Sums

OneAtATime == MaxInFlight = 1

\* The fee of a request that was not taken back.
Fees ==
  [w \in Withdrawals |-> IF requests[w].status \in {"unborn", "REJECTED"} THEN 0 ELSE WithdrawFee]

\* What a handler has checked and still holds when nobody else writes.
Current(q) ==
  /\ q.op = "settle" => fundings[q.funding].status # "COMPLETED"
  /\ q.op = "addMethod" => Cardinality(MethodsOf(q.user)) < MethodLimit
  /\ q.op \in {"checkBalance", "withdraw"} =>
       methods[q.method].status = "active" /\ methods[q.method].user = q.user
  /\ q.op = "withdraw" => 10 * wallets[q.user] >= q.amount
  /\ q.op = "lock" => requests[q.withdrawal].status = "PENDING"
  /\ q.op \in {"unlock", "approve", "reject"} => requests[q.withdrawal].status = "PROCESSING"
  /\ q.op \in {"approve", "reject"} => requests[q.withdrawal].lockedBy = q.admin
  /\ q.op = "send" => requests[q.withdrawal].status = "APPROVED"

Quiet          == \A r \in Requests : inflight[r] = Idle
OnlyRequest(r) == \A s \in Requests : s # r => inflight[s] = Idle

\* At most one handler has its turn, and what it checked holds.
Turn == Quiet \/ \E r \in Requests : OnlyRequest(r) /\ Current(inflight[r])

\* The platform's balance is the fees of the requests that were not rejected.
FeesAreEarned == platform = SumFunction(Fees)

Claims == NoDebt /\ FeesAreEarned /\ MoneyAddsUp /\ MethodsAreKept

SInv == IInv /\ Turn /\ Claims

-----------------------------------------------------------------------------
(***************************************************************************)
(* The sums are numbers, and how they change.                              *)
(***************************************************************************)
AllInWallets == SumFunction(wallets)
AllOut       == SumFunction(Outgoing)
AllFees      == SumFunction(Fees)

\* One user's balance is d more, the others' are as they were.
Moves(u, d) ==
  /\ DOMAIN wallets' = Users
  /\ \A v \in Users : wallets'[v] = IF v = u THEN wallets[v] + d ELSE wallets[v]

\* One request at most is written.
OnlyWithdrawal(w) == \A v \in Withdrawals : v # w => requests'[v] = requests[v]

\* The terms of the sums; what a request keeps is worth more than its fee.
LEMMA Terms ==
  ASSUME IInv
  PROVE  /\ wallets \in [Users -> Int] /\ Deposits \in [Fundings -> Int]
         /\ Outgoing \in [Withdrawals -> Int] /\ Fees \in [Withdrawals -> Int]
         /\ Fees \in [Withdrawals -> Nat]
         /\ \A t \in Fundings : fundings[t].amount \in Nat
         /\ \A w \in Withdrawals : requests[w].status # "unborn" =>
              /\ requests[w].user \in Users
              /\ requests[w].amount \in Nat /\ requests[w].amount > WithdrawFee
<1>1. WithdrawFee \in Nat /\ \A x \in Stored : x \in Nat /\ x > WithdrawFee
  BY PaymentsAssumption, Numbers DEF Stored
<1>2. \A t \in Fundings : fundings[t].amount \in Nat
  BY <1>1 DEF IInv, PaymentsTypeOK, FundingRow
<1>3. \A w \in Withdrawals : requests[w].status # "unborn" =>
        /\ requests[w].user \in Users
        /\ requests[w].amount \in Nat /\ requests[w].amount > WithdrawFee
  BY <1>1 DEF IInv, RowsFilled
<1>4. Deposits \in [Fundings -> Int]
  BY <1>2 DEF Deposits
<1>5. Outgoing \in [Withdrawals -> Int]
  <2>1. \A w \in Withdrawals : requests[w].status # "unborn" => requests[w].amount - WithdrawFee \in Int
    BY <1>1, <1>3
  <2>. QED  BY <2>1 DEF Outgoing
<1>6. Fees \in [Withdrawals -> Int] /\ Fees \in [Withdrawals -> Nat]
  BY <1>1 DEF Fees
<1>. QED  BY <1>2, <1>3, <1>4, <1>5, <1>6 DEF IInv, PaymentsTypeOK

\* The sums are numbers.
LEMMA SumsAreNumbers ==
  ASSUME IInv
  PROVE  AllInWallets \in Int /\ AllOut \in Int /\ AllDeposits \in Int /\ AllFees \in Nat
         /\ platform \in Int /\ halves.withdrawn \in Nat /\ halves.deposited \in Nat
BY Terms, PaymentsFiniteness, TotalIsInteger, TotalIsNatural
   DEF AllInWallets, AllOut, AllDeposits, AllFees, IInv, PaymentsTypeOK

\* What a deposit of x adds to the balance b, and what a withdrawal adds to it (its negation).
AddedTo(b, x)   == Rounded(10 * b + x) - b
TakenFrom(b, x) == Rounded(10 * b - x) - b

\* Rounded with the balance, an amount may be half a cent away on the other side than rounded
\* by itself.
LEMMA RoundedSum ==
  ASSUME NEW b \in Int, NEW x \in Nat
  PROVE  /\ AddedTo(b, x) \in Int /\ Rounded(x) \in Nat /\ HalfCent(x) \in Nat
         /\ AddedTo(b, x) >= Rounded(x) - HalfCent(x)
         /\ b >= 0 => AddedTo(b, x) = Rounded(x)
BY DEF AddedTo, Rounded, HalfCent

LEMMA RoundedRest ==
  ASSUME NEW b \in Int, NEW x \in Nat
  PROVE  /\ TakenFrom(b, x) \in Int
         /\ TakenFrom(b, x) >= 0 - Rounded(x)
         /\ 10 * b >= x => TakenFrom(b, x) = HalfCent(x) - Rounded(x) /\ b + TakenFrom(b, x) >= 0
BY DEF TakenFrom, Rounded, HalfCent

\* A wallet is credited or debited.
LEMMA WalletsChange ==
  ASSUME IInv, NEW u \in Users, NEW d \in Int, Moves(u, d)
  PROVE  AllInWallets' = AllInWallets + d
<1>1. PICK b \in [Users -> Int] : b = wallets
  BY Terms
<1>2. PICK c : c = wallets'
  OBVIOUS
<1>3. DOMAIN c = Users /\ c[u] = b[u] + d /\ \A v \in Users : v # u => c[v] = b[v]
  BY <1>1, <1>2 DEF Moves
<1>4. SumFunction(c) = SumFunction(b) + d
  BY <1>3, PaymentsFiniteness, TotalChange
<1>. QED  BY <1>1, <1>2, <1>4 DEF AllInWallets

\* A credit is a move, and so is a balance written anew.
LEMMA WritesAreMoves ==
  ASSUME IInv, NEW u \in Users, NEW x \in Int
  PROVE  /\ Credit(u, x) => Moves(u, x)
         /\ wallets' = [wallets EXCEPT ![u] = x] => Moves(u, x - wallets[u])
<1>1. wallets \in [Users -> Int]
  BY Terms
<1>2. ASSUME Credit(u, x)  PROVE Moves(u, x)
  BY <1>1, <1>2 DEF Credit, Moves
<1>3. ASSUME wallets' = [wallets EXCEPT ![u] = x]  PROVE Moves(u, x - wallets[u])
  <2>1. x = wallets[u] + (x - wallets[u])
    BY <1>1
  <2>. QED  BY <1>1, <1>3, <2>1 DEF Moves
<1>. QED  BY <1>2, <1>3

\* One request is written.
LEMMA RequestsChange ==
  ASSUME IInv, NEW w \in Withdrawals, OnlyWithdrawal(w), NEW d \in Int, NEW e \in Int,
         Outgoing'[w] = Outgoing[w] + d, Fees'[w] = Fees[w] + e
  PROVE  AllOut' = AllOut + d /\ AllFees' = AllFees + e
<1>1. AllOut' = AllOut + d
  <2>1. PICK h \in [Withdrawals -> Int] : h = Outgoing
    BY Terms
  <2>2. PICK k : k = Outgoing'
    OBVIOUS
  <2>3. DOMAIN k = Withdrawals /\ \A v \in Withdrawals : v # w => k[v] = h[v]
    BY <2>1, <2>2 DEF Outgoing, OnlyWithdrawal
  <2>4. k[w] = h[w] + d
    BY <2>1, <2>2
  <2>5. SumFunction(k) = SumFunction(h) + d
    BY <2>3, <2>4, PaymentsFiniteness, TotalChange
  <2>. QED  BY <2>1, <2>2, <2>5 DEF AllOut
<1>2. AllFees' = AllFees + e
  <2>1. PICK h \in [Withdrawals -> Int] : h = Fees
    BY Terms
  <2>2. PICK k : k = Fees'
    OBVIOUS
  <2>3. DOMAIN k = Withdrawals /\ \A v \in Withdrawals : v # w => k[v] = h[v]
    BY <2>1, <2>2 DEF Fees, OnlyWithdrawal
  <2>4. k[w] = h[w] + e
    BY <2>1, <2>2
  <2>5. SumFunction(k) = SumFunction(h) + e
    BY <2>3, <2>4, PaymentsFiniteness, TotalChange
  <2>. QED  BY <2>1, <2>2, <2>5 DEF AllFees
<1>. QED  BY <1>1, <1>2

\* A funding is made or completed.
LEMMA DepositsChange ==
  ASSUME IInv, NEW t \in Fundings, NEW d \in Int,
         \A s \in Fundings : s # t => fundings'[s] = fundings[s],
         Deposits'[t] = Deposits[t] + d
  PROVE  AllDeposits' = AllDeposits + d
<1>1. PICK h \in [Fundings -> Int] : h = Deposits
  BY Terms
<1>2. PICK k : k = Deposits'
  OBVIOUS
<1>3. DOMAIN k = Fundings /\ \A s \in Fundings : s # t => k[s] = h[s]
  BY <1>1, <1>2 DEF Deposits
<1>4. k[t] = h[t] + d
  BY <1>1, <1>2
<1>5. SumFunction(k) = SumFunction(h) + d
  BY <1>3, <1>4, PaymentsFiniteness, TotalChange
<1>. QED  BY <1>1, <1>2, <1>5 DEF AllDeposits

-----------------------------------------------------------------------------
(***************************************************************************)
(* What each commit adds and takes.                                        *)
(***************************************************************************)

\* A delivery of a settlement credits its amount; the funding counts from the first on.
LEMMA SettleBooks ==
  ASSUME IInv, NEW r \in Requests, WebhookCommit(r)
  PROVE  \E t \in Fundings, u \in Users, x \in Nat :
           /\ t = inflight[r].funding /\ Moves(u, x)
           /\ AllInWallets' = AllInWallets + x
           /\ AllDeposits' = AllDeposits + IF fundings[t].status = "COMPLETED" THEN 0 ELSE x
           /\ UNCHANGED <<withdrawing, halves>>
<1>1. /\ inflight[r] \in Request /\ inflight[r].op = "settle" /\ Snapshot(inflight[r])
      /\ UNCHANGED <<withdrawing, halves>>
  BY DEF IInv, PaymentsTypeOK, Snapshots, WebhookCommit
<1>2. PICK t \in Fundings : t = inflight[r].funding
  BY <1>1, RequestFields
<1>3. PICK u \in Users, x \in Nat : u = fundings[t].user /\ x = fundings[t].amount
  BY <1>1, <1>2, Terms DEF Snapshot
<1>4. Credit(u, x) /\ fundings' = [fundings EXCEPT ![t].status = "COMPLETED"]
  BY <1>2, <1>3 DEF WebhookCommit, MarkCompleted
<1>5. Moves(u, x) /\ AllInWallets' = AllInWallets + x
  BY <1>4, WritesAreMoves, WalletsChange
<1>6. PICK d \in Int : d = IF fundings[t].status = "COMPLETED" THEN 0 ELSE x
  OBVIOUS
<1>7. /\ fundings'[t].status = "COMPLETED" /\ fundings'[t].amount = x
      /\ \A s \in Fundings : s # t => fundings'[s] = fundings[s]
  BY <1>3, <1>4 DEF IInv, PaymentsTypeOK, FundingRow
<1>8. Deposits'[t] = Deposits[t] + d
  BY <1>3, <1>6, <1>7 DEF Deposits
<1>9. AllDeposits' = AllDeposits + d
  BY <1>7, <1>8, DepositsChange
<1>. QED  BY <1>1, <1>2, <1>5, <1>6, <1>9

\* An admin's deposit is credited and counts at once.
LEMMA AddBooks ==
  ASSUME IInv, NEW u \in Users, NEW x \in Amounts, AddBalance(u, x)
  PROVE  \E d \in Int, y \in Nat, h \in Nat :
           /\ Moves(u, d) /\ UNCHANGED withdrawing
           /\ d + h >= y /\ (wallets[u] >= 0 => d = y)
           /\ AllInWallets' = AllInWallets + d /\ AllDeposits' = AllDeposits + y
           /\ halves'.deposited = halves.deposited + h /\ halves'.withdrawn = halves.withdrawn
<1>1. x \in Nat /\ wallets[u] \in Int
  BY Numbers, Terms
<1>2. PICK d \in Int, y \in Nat, h \in Nat :
        d = AddedTo(wallets[u], x) /\ y = Rounded(x) /\ h = HalfCent(x)
  BY <1>1, RoundedSum
<1>3. d + h >= y /\ (wallets[u] >= 0 => d = y)
  <2>1. PICK b \in Int : b = wallets[u]
    BY <1>1
  <2>2. AddedTo(b, x) >= Rounded(x) - HalfCent(x) /\ (b >= 0 => AddedTo(b, x) = Rounded(x))
    BY <1>1, RoundedSum
  <2>. QED  BY <1>2, <2>1, <2>2
<1>4. Moves(u, d)
  <2>1. PICK n \in Int : n = Rounded(10 * wallets[u] + x)
    BY <1>1, RoundedIsInt
  <2>2. wallets' = [wallets EXCEPT ![u] = n] /\ d = n - wallets[u]
    BY <1>2, <2>1 DEF AddBalance, AddedTo
  <2>. QED  BY <2>2, WritesAreMoves
<1>5. AllInWallets' = AllInWallets + d
  BY <1>4, WalletsChange
<1>6. PICK t \in Fundings :
        /\ fundings[t].status = "unborn"
        /\ fundings' = [fundings EXCEPT ![t] = [status |-> "COMPLETED", user |-> None, amount |-> y]]
  BY <1>2 DEF AddBalance
<1>7. /\ fundings'[t].status = "COMPLETED" /\ fundings'[t].amount = y
      /\ \A s \in Fundings : s # t => fundings'[s] = fundings[s]
  BY <1>6 DEF IInv, PaymentsTypeOK
<1>8. Deposits'[t] = Deposits[t] + y
  BY <1>6, <1>7 DEF Deposits
<1>9. AllDeposits' = AllDeposits + y
  BY <1>7, <1>8, DepositsChange
<1>10. halves'.deposited = halves.deposited + h /\ halves'.withdrawn = halves.withdrawn
  BY <1>2 DEF AddBalance, IInv, PaymentsTypeOK
<1>. QED  BY <1>3, <1>4, <1>5, <1>9, <1>10 DEF AddBalance

\* A request takes its amount from the wallet: the fee for the platform, the rest to send.
LEMMA WithdrawBooks ==
  ASSUME IInv, NEW r \in Requests, Withdraw(r)
  PROVE  \E u \in Users, d \in Int, y \in Nat, h \in Nat, w \in Withdrawals :
           /\ u = inflight[r].user /\ Moves(u, d) /\ d >= 0 - y
           /\ 10 * wallets[u] >= inflight[r].amount => d = h - y /\ wallets[u] + d >= 0
           /\ requests[w].status = "unborn" /\ requests'[w].status = "PENDING"
           /\ requests'[w].user = u /\ requests'[w].method = inflight[r].method
           /\ OnlyWithdrawal(w)
           /\ AllInWallets' = AllInWallets + d /\ platform' = platform + WithdrawFee
           /\ AllOut' = AllOut + (y - WithdrawFee) /\ AllFees' = AllFees + WithdrawFee
           /\ halves'.withdrawn = halves.withdrawn + h /\ halves'.deposited = halves.deposited
           /\ UNCHANGED topups
<1>1. inflight[r] \in Request /\ inflight[r].op = "withdraw"
  BY DEF IInv, PaymentsTypeOK, Withdraw
<1>2. PICK u \in Users, x \in Nat : u = inflight[r].user /\ x = inflight[r].amount /\ x \in Amounts
  BY <1>1, RequestFields, Numbers
<1>3. wallets[u] \in Int
  BY Terms
<1>4. PICK d \in Int, y \in Nat, h \in Nat :
        d = TakenFrom(wallets[u], x) /\ y = Rounded(x) /\ h = HalfCent(x)
  BY <1>3, RoundedSum, RoundedRest
<1>5. d >= 0 - y /\ (10 * wallets[u] >= x => d = h - y /\ wallets[u] + d >= 0)
  BY <1>3, <1>4, RoundedRest
<1>6. PICK w \in Withdrawals :
        /\ requests[w].status = "unborn"
        /\ requests' = [requests EXCEPT ![w] =
             [NoWithdraw EXCEPT !.status = "PENDING", !.user = u,
                                !.method = inflight[r].method, !.amount = y]]
  BY <1>2, <1>4 DEF Withdraw
<1>7. /\ requests'[w].status = "PENDING" /\ requests'[w].user = u /\ requests'[w].amount = y
      /\ requests'[w].method = inflight[r].method /\ OnlyWithdrawal(w)
  BY <1>6 DEF NoWithdraw, OnlyWithdrawal, IInv, PaymentsTypeOK
<1>8. Moves(u, d)
  <2>1. PICK n \in Int : n = Rounded(10 * wallets[u] - x)
    BY <1>3, RoundedIsInt
  <2>2. wallets' = [wallets EXCEPT ![u] = n] /\ d = n - wallets[u]
    BY <1>2, <1>4, <2>1 DEF Withdraw, TakenFrom
  <2>. QED  BY <2>2, WritesAreMoves
<1>9. AllInWallets' = AllInWallets + d
  BY <1>8, WalletsChange
<1>10. WithdrawFee \in Int /\ y - WithdrawFee \in Int
  BY Numbers
<1>11. Outgoing'[w] = Outgoing[w] + (y - WithdrawFee) /\ Fees'[w] = Fees[w] + WithdrawFee
  BY <1>6, <1>7, <1>10 DEF Outgoing, Fees
<1>12. AllOut' = AllOut + (y - WithdrawFee) /\ AllFees' = AllFees + WithdrawFee
  BY <1>7, <1>10, <1>11, RequestsChange
<1>13. halves'.withdrawn = halves.withdrawn + h /\ halves'.deposited = halves.deposited
  BY <1>2, <1>4 DEF Withdraw, IInv, PaymentsTypeOK
<1>. QED  BY <1>2, <1>5, <1>6, <1>7, <1>8, <1>9, <1>12, <1>13 DEF Withdraw

\* The handlers of the admins that move no money.
Decide(r) == LockCommit(r) \/ UnlockCommit(r) \/ ApproveCommit(r) \/ SendCommit(r)

\* A decision takes a request that was rejected in between back into the balance.
LEMMA DecisionBooks ==
  ASSUME IInv, NEW r \in Requests, Decide(r)
  PROVE  \E w \in Withdrawals, x \in Nat :
           /\ w = inflight[r].withdrawal /\ x > WithdrawFee
           /\ requests[w].status # "unborn" /\ OnlyWithdrawal(w)
           /\ requests'[w].user = requests[w].user /\ requests'[w].method = requests[w].method
           /\ requests'[w].status \notin {"unborn", "REJECTED"}
           /\ AllOut' = AllOut + IF requests[w].status = "REJECTED" THEN x - WithdrawFee ELSE 0
           /\ AllFees' = AllFees + IF requests[w].status = "REJECTED" THEN WithdrawFee ELSE 0
           /\ UNCHANGED <<wallets, platform, methods, topups, halves>>
<1>1. /\ inflight[r] \in Request /\ inflight[r].op \in AboutRequest /\ Snapshot(inflight[r])
      /\ UNCHANGED <<wallets, platform, methods, topups, halves>>
  BY DEF IInv, PaymentsTypeOK, Snapshots, Decide, LockCommit, UnlockCommit, ApproveCommit,
         SendCommit, AboutRequest
<1>2. PICK w \in Withdrawals : w = inflight[r].withdrawal /\ requests[w].status # "unborn"
  BY <1>1, RequestFields DEF Snapshot
<1>3. PICK x \in Nat : x = requests[w].amount /\ x > WithdrawFee
  BY <1>2, Terms
<1>4. requests[w] \in WithdrawRow
  BY DEF IInv, PaymentsTypeOK
<1>5. /\ requests'[w].status \in {"PROCESSING", "PENDING", "APPROVED", "SENT"}
      /\ requests'[w].user = requests[w].user /\ requests'[w].method = requests[w].method
      /\ requests'[w].amount = x /\ OnlyWithdrawal(w)
  <2>1. requests \in [Withdrawals -> WithdrawRow]
    BY DEF IInv, PaymentsTypeOK
  <2>2. CASE LockCommit(r)
    BY <1>2, <1>3, <1>4, <2>1, <2>2 DEF LockCommit, OnlyWithdrawal, WithdrawRow
  <2>3. CASE UnlockCommit(r)
    BY <1>2, <1>3, <1>4, <2>1, <2>3 DEF UnlockCommit, Unlock, OnlyWithdrawal, WithdrawRow
  <2>4. CASE ApproveCommit(r)
    BY <1>2, <1>3, <1>4, <2>1, <2>4 DEF ApproveCommit, OnlyWithdrawal, WithdrawRow
  <2>5. CASE SendCommit(r)
    BY <1>2, <1>3, <1>4, <2>1, <2>5 DEF SendCommit, OnlyWithdrawal, WithdrawRow
  <2>. QED  BY <2>2, <2>3, <2>4, <2>5 DEF Decide
<1>0. x \in Int /\ WithdrawFee \in Int /\ x - WithdrawFee \in Int
  BY Numbers
<1>6. PICK d \in Int, e \in Int :
        /\ d = IF requests[w].status = "REJECTED" THEN x - WithdrawFee ELSE 0
        /\ e = IF requests[w].status = "REJECTED" THEN WithdrawFee ELSE 0
  <2>1. CASE requests[w].status = "REJECTED"
    BY <1>0, <2>1
  <2>2. CASE requests[w].status # "REJECTED"
    BY <2>2
  <2>. QED  BY <2>1, <2>2
<1>7. Outgoing'[w] = Outgoing[w] + d /\ Fees'[w] = Fees[w] + e
  <2>1. Outgoing'[w] = x - WithdrawFee /\ Fees'[w] = WithdrawFee
    BY <1>5 DEF Outgoing, Fees
  <2>2. CASE requests[w].status = "REJECTED"
    <3>1. Outgoing[w] = 0 /\ Fees[w] = 0
      BY <2>2 DEF Outgoing, Fees
    <3>. QED  BY <1>0, <1>6, <2>1, <2>2, <3>1
  <2>3. CASE requests[w].status # "REJECTED"
    <3>1. Outgoing[w] = x - WithdrawFee /\ Fees[w] = WithdrawFee
      BY <1>2, <1>3, <2>3 DEF Outgoing, Fees
    <3>. QED  BY <1>0, <1>6, <2>1, <2>3, <3>1
  <2>. QED  BY <2>2, <2>3
<1>8. AllOut' = AllOut + d /\ AllFees' = AllFees + e
  BY <1>5, <1>7, RequestsChange
<1>. QED  BY <1>1, <1>2, <1>3, <1>5, <1>6, <1>8

\* A rejection gives the amount back, of which the platform returns its fee.
LEMMA RefundBooks ==
  ASSUME IInv, NEW r \in Requests, RejectCommit(r)
  PROVE  \E w \in Withdrawals, u \in Users, x \in Nat :
           /\ w = inflight[r].withdrawal /\ x > WithdrawFee /\ Moves(u, x)
           /\ requests[w].status # "unborn" /\ OnlyWithdrawal(w)
           /\ requests'[w].user = requests[w].user /\ requests'[w].method = requests[w].method
           /\ requests'[w].status = "REJECTED" /\ requests'[w].rejectedBy = inflight[r].admin
           /\ AllInWallets' = AllInWallets + x /\ platform' = platform - WithdrawFee
           /\ AllOut' = AllOut + IF requests[w].status = "REJECTED" THEN 0 ELSE WithdrawFee - x
           /\ AllFees' = AllFees + IF requests[w].status = "REJECTED" THEN 0 ELSE 0 - WithdrawFee
           /\ UNCHANGED <<methods, topups, halves>>
<1>1. /\ inflight[r] \in Request /\ inflight[r].op \in AboutRequest /\ Snapshot(inflight[r])
      /\ UNCHANGED <<methods, topups, halves>>
  BY DEF IInv, PaymentsTypeOK, Snapshots, RejectCommit, AboutRequest
<1>2. PICK w \in Withdrawals : w = inflight[r].withdrawal /\ requests[w].status # "unborn"
  BY <1>1, RequestFields DEF Snapshot
<1>3. PICK u \in Users, x \in Nat :
        u = requests[w].user /\ x = requests[w].amount /\ x > WithdrawFee
  BY <1>2, Terms
<1>4. Credit(u, x) /\ platform' = platform - WithdrawFee
  BY <1>2, <1>3 DEF RejectCommit, Refund
<1>5. Moves(u, x) /\ AllInWallets' = AllInWallets + x
  BY <1>4, WritesAreMoves, WalletsChange
<1>6. /\ requests'[w].status = "REJECTED" /\ requests'[w].rejectedBy = inflight[r].admin
      /\ requests'[w].user = requests[w].user /\ requests'[w].method = requests[w].method
      /\ OnlyWithdrawal(w)
  <2>1. requests \in [Withdrawals -> WithdrawRow] /\ requests[w] \in WithdrawRow
    BY DEF IInv, PaymentsTypeOK
  <2>. QED  BY <1>2, <2>1 DEF RejectCommit, OnlyWithdrawal, WithdrawRow
<1>0. WithdrawFee - x \in Int /\ 0 - WithdrawFee \in Int
  BY Numbers
<1>7. PICK d \in Int, e \in Int :
        /\ d = IF requests[w].status = "REJECTED" THEN 0 ELSE WithdrawFee - x
        /\ e = IF requests[w].status = "REJECTED" THEN 0 ELSE 0 - WithdrawFee
  BY <1>0
<1>8. Outgoing'[w] = Outgoing[w] + d /\ Fees'[w] = Fees[w] + e
  <2>1. Outgoing'[w] = 0 /\ Fees'[w] = 0
    BY <1>6 DEF Outgoing, Fees
  <2>2. CASE requests[w].status = "REJECTED"
    <3>1. Outgoing[w] = 0 /\ Fees[w] = 0
      BY <2>2 DEF Outgoing, Fees
    <3>. QED  BY <1>7, <2>1, <2>2, <3>1
  <2>3. CASE requests[w].status # "REJECTED"
    <3>1. Outgoing[w] = x - WithdrawFee /\ Fees[w] = WithdrawFee
      BY <1>2, <1>3, <2>3 DEF Outgoing, Fees
    <3>2. d = WithdrawFee - x /\ e = 0 - WithdrawFee
      BY <1>7, <2>3
    <3>. QED  BY <2>1, <3>1, <3>2, Numbers
  <2>. QED  BY <2>2, <2>3
<1>9. AllOut' = AllOut + d /\ AllFees' = AllFees + e
  BY <1>6, <1>8, RequestsChange
<1>. QED  BY <1>1, <1>2, <1>3, <1>4, <1>5, <1>6, <1>7, <1>9

\* Every other step moves no money and completes no funding.
LEMMA OthersBook ==
  ASSUME IInv, UNCHANGED <<wallets, platform, requests, halves>>,
         \/ UNCHANGED fundings
         \/ \E r \in Requests, u \in Users, x \in Amounts : CreateTopup(r, u, x)
  PROVE  /\ AllInWallets' = AllInWallets /\ AllOut' = AllOut /\ AllFees' = AllFees
         /\ AllDeposits' = AllDeposits
<1>1. AllInWallets' = AllInWallets /\ AllOut' = AllOut /\ AllFees' = AllFees
  BY DEF AllInWallets, AllOut, AllFees, Outgoing, Fees
<1>2. Deposits' = Deposits
  <2>1. CASE UNCHANGED fundings
    BY <2>1 DEF Deposits
  <2>2. ASSUME NEW r \in Requests, NEW u \in Users, NEW x \in Amounts, CreateTopup(r, u, x)
        PROVE  Deposits' = Deposits
    <3>1. PICK t \in Fundings :
            /\ fundings[t].status = "unborn"
            /\ fundings' = [fundings EXCEPT ![t] = [status |-> "PENDING", user |-> u, amount |-> Rounded(x)]]
      BY <2>2 DEF CreateTopup
    <3>2. /\ fundings'[t].status = "PENDING"
          /\ \A s \in Fundings : s # t => fundings'[s] = fundings[s]
      BY <3>1 DEF IInv, PaymentsTypeOK
    <3>. QED  BY <3>1, <3>2 DEF Deposits
  <2>. QED  BY <2>1, <2>2
<1>. QED  BY <1>1, <1>2 DEF AllDeposits

\* The steps, as far as money is concerned.
LEMMA MoneySteps ==
  ASSUME [Next]_vars
  PROVE  \/ \E r \in Requests : \/ WebhookCommit(r) \/ Withdraw(r) \/ Decide(r) \/ RejectCommit(r)
         \/ \E u \in Users, x \in Amounts : AddBalance(u, x)
         \/ /\ UNCHANGED <<wallets, platform, requests, halves>>
            /\ \/ UNCHANGED fundings
               \/ \E r \in Requests, u \in Users, x \in Amounts : CreateTopup(r, u, x)
<1>. USE DEF Begin, Proceed, db, withdrawing, topups
<1>1. ASSUME NEW r \in Requests, TopupStep(r), ~ WebhookCommit(r)
      PROVE  /\ UNCHANGED <<wallets, platform, requests, halves>>
             /\ UNCHANGED fundings \/ \E u \in Users, x \in Amounts : CreateTopup(r, u, x)
  BY <1>1 DEF TopupStep, CreateTopup, Charge, WebhookRead
<1>2. ASSUME NEW r \in Requests, UserStep(r), ~ Withdraw(r)
      PROVE  UNCHANGED <<wallets, platform, requests, fundings, halves>>
  BY <1>2 DEF UserStep, CountMethods, AddMethod, DeleteMethodRead, DeleteMethodCommit, FindMethod,
              CheckBalance
<1>3. ASSUME NEW r \in Requests, AdminStep(r), ~ Decide(r), ~ RejectCommit(r)
      PROVE  UNCHANGED <<wallets, platform, requests, fundings, halves>>
  BY <1>3 DEF AdminStep, Decide, LockRead, UnlockRead, ApproveRead, RejectRead, SendRead
<1>4. ASSUME NEW r \in Requests, Abort(r)  PROVE UNCHANGED <<wallets, platform, requests, fundings, halves>>
  BY <1>4 DEF Abort
<1>5. ASSUME NEW t \in Fundings, PayAtGateway(t)
      PROVE  UNCHANGED <<wallets, platform, requests, fundings, halves>>
  BY <1>5 DEF PayAtGateway
<1>6. CASE UNCHANGED vars
  BY <1>6 DEF vars
<1>. QED  BY <1>1, <1>2, <1>3, <1>4, <1>5, <1>6 DEF Next

-----------------------------------------------------------------------------
(***************************************************************************)
(* Every interleaving: what is credited or taken back twice only adds.     *)
(***************************************************************************)

\* The total of the system, by its parts.
LEMMA AllMoneyIs == AllMoney = AllInWallets + platform + AllOut
BY DEF AllMoney, AllInWallets, AllOut

\* No step takes money out of the system that was deposited.
LEMMA StepLosesNothing ==
  ASSUME IInv, NobodyLosesMoney, [Next]_vars
  PROVE  NobodyLosesMoney'
<1>1. /\ AllInWallets \in Int /\ AllOut \in Int /\ AllDeposits \in Int /\ platform \in Int
      /\ WithdrawFee \in Int /\ halves.deposited \in Nat
  BY SumsAreNumbers, Numbers
<1>2. AllInWallets + platform + AllOut + halves.deposited >= AllDeposits
  BY AllMoneyIs DEF NobodyLosesMoney
<1>3. ASSUME AllInWallets' + platform' + AllOut' + halves'.deposited >= AllDeposits'
      PROVE  NobodyLosesMoney'
  BY <1>3 DEF NobodyLosesMoney, AllMoney, AllInWallets, AllOut
<1>4. ASSUME NEW r \in Requests, WebhookCommit(r)  PROVE NobodyLosesMoney'
  <2>1. PICK t \in Fundings, x \in Nat :
          /\ AllInWallets' = AllInWallets + x
          /\ AllDeposits' = AllDeposits + IF fundings[t].status = "COMPLETED" THEN 0 ELSE x
          /\ UNCHANGED <<withdrawing, halves>>
    BY <1>4, SettleBooks
  <2>2. platform' = platform /\ AllOut' = AllOut
    BY <2>1 DEF withdrawing, AllOut, Outgoing
  <2>. QED  BY <1>1, <1>2, <1>3, <2>1, <2>2
<1>5. ASSUME NEW u \in Users, NEW x \in Amounts, AddBalance(u, x)  PROVE NobodyLosesMoney'
  <2>1. PICK d \in Int, y \in Nat, h \in Nat :
          /\ UNCHANGED withdrawing /\ d + h >= y
          /\ AllInWallets' = AllInWallets + d /\ AllDeposits' = AllDeposits + y
          /\ halves'.deposited = halves.deposited + h
    BY <1>5, AddBooks
  <2>2. platform' = platform /\ AllOut' = AllOut
    BY <2>1 DEF withdrawing, AllOut, Outgoing
  <2>. QED  BY <1>1, <1>2, <1>3, <2>1, <2>2
<1>6. ASSUME NEW r \in Requests, Withdraw(r)  PROVE NobodyLosesMoney'
  <2>1. PICK d \in Int, y \in Nat :
          /\ d >= 0 - y /\ AllInWallets' = AllInWallets + d /\ platform' = platform + WithdrawFee
          /\ AllOut' = AllOut + (y - WithdrawFee) /\ halves'.deposited = halves.deposited
          /\ UNCHANGED topups
    BY <1>6, WithdrawBooks
  <2>2. AllDeposits' = AllDeposits
    BY <2>1 DEF topups, AllDeposits, Deposits
  <2>. QED  BY <1>1, <1>2, <1>3, <2>1, <2>2
<1>7. ASSUME NEW r \in Requests, Decide(r)  PROVE NobodyLosesMoney'
  <2>1. PICK w \in Withdrawals, x \in Nat :
          /\ x > WithdrawFee
          /\ AllOut' = AllOut + IF requests[w].status = "REJECTED" THEN x - WithdrawFee ELSE 0
          /\ UNCHANGED <<wallets, platform, topups, halves>>
    BY <1>7, DecisionBooks
  <2>2. AllDeposits' = AllDeposits /\ AllInWallets' = AllInWallets /\ platform' = platform
    BY <2>1 DEF topups, AllDeposits, Deposits, AllInWallets
  <2>. QED  BY <1>1, <1>2, <1>3, <2>1, <2>2
<1>8. ASSUME NEW r \in Requests, RejectCommit(r)  PROVE NobodyLosesMoney'
  <2>1. PICK w \in Withdrawals, x \in Nat :
          /\ x > WithdrawFee
          /\ AllInWallets' = AllInWallets + x /\ platform' = platform - WithdrawFee
          /\ AllOut' = AllOut + IF requests[w].status = "REJECTED" THEN 0 ELSE WithdrawFee - x
          /\ UNCHANGED <<topups, halves>>
    BY <1>8, RefundBooks
  <2>2. AllDeposits' = AllDeposits
    BY <2>1 DEF topups, AllDeposits, Deposits
  <2>. QED  BY <1>1, <1>2, <1>3, <2>1, <2>2
<1>9. CASE /\ UNCHANGED <<wallets, platform, requests, halves>>
           /\ \/ UNCHANGED fundings
              \/ \E r \in Requests, u \in Users, x \in Amounts : CreateTopup(r, u, x)
  BY <1>2, <1>3, <1>9, OthersBook
<1>. QED  BY <1>4, <1>5, <1>6, <1>7, <1>8, <1>9, MoneySteps

\* At first every sum is zero.
LEMMA InitMoney ==
  ASSUME Init
  PROVE  AllMoney = 0 /\ AllDeposits = 0 /\ AllFees = 0
         /\ halves.withdrawn = 0 /\ halves.deposited = 0
<1>1. /\ wallets = [u \in Users |-> 0] /\ Outgoing = [w \in Withdrawals |-> 0]
      /\ Fees = [w \in Withdrawals |-> 0] /\ Deposits = [t \in Fundings |-> 0]
  BY DEF Init, Outgoing, Fees, Deposits, NoWithdraw, NoFunding
<1>2. AllInWallets = 0 /\ AllOut = 0 /\ AllFees = 0 /\ AllDeposits = 0
  BY <1>1, PaymentsFiniteness, TotalOfZeros DEF AllInWallets, AllOut, AllFees, AllDeposits
<1>3. platform = 0 /\ halves.withdrawn = 0 /\ halves.deposited = 0
  BY DEF Init
<1>. QED  BY <1>2, <1>3, AllMoneyIs

\* However top-ups, deliveries of the webhook, withdrawals and decisions of admins
\* interleave, every booked deposit is somewhere, but for a cent where an admin's deposit ends
\* in half a cent.
THEOREM NoDepositIsLost == Spec => []NobodyLosesMoney
<1>1. Init => NobodyLosesMoney
  BY InitMoney DEF NobodyLosesMoney
<1>2. IInv /\ NobodyLosesMoney /\ [Next]_vars => NobodyLosesMoney'
  BY StepLosesNothing
<1>. QED  BY <1>1, <1>2, PaymentsInductive, PTL DEF Spec

-----------------------------------------------------------------------------
(***************************************************************************)
(* One handler after the other: turns.                                     *)
(***************************************************************************)

\* Whoever starts starts alone.
LEMMA StartsAlone ==
  ASSUME OneAtATime, Load < MaxInFlight
  PROVE  Quiet
<1>. DEFINE Busy == {r \in Requests : inflight[r] # Idle}
<1>1. Cardinality(Busy) \in Nat /\ IsFiniteSet(Busy)
  BY PaymentsFiniteness, FS_Subset, FS_CardinalityType
<1>2. Cardinality(Busy) = 0
  <2>1. Cardinality(Busy) < 1
    BY DEF OneAtATime, Load
  <2>. HIDE DEF Busy
  <2>. QED  BY <1>1, <2>1
<1>3. Busy = {}
  BY <1>1, <1>2, FS_EmptySet
<1>. QED  BY <1>3 DEF Quiet

\* Whoever is in flight is alone, and what it checked holds.
LEMMA InFlightIsAlone ==
  ASSUME Turn, NEW r \in Requests, inflight[r] # Idle
  PROVE  OnlyRequest(r) /\ Current(inflight[r])
BY DEF Turn, Quiet, OnlyRequest

\* A handler that commits or gives up leaves nobody in flight.
LEMMA LeavesQuiet ==
  ASSUME IInv, Turn, NEW r \in Requests, inflight[r] # Idle, Finish(r)
  PROVE  Turn'
<1>1. OnlyRequest(r)
  BY InFlightIsAlone
<1>2. Quiet'
  BY <1>1 DEF IInv, PaymentsTypeOK, Finish, Proceed, OnlyRequest, Quiet
<1>. QED  BY <1>2 DEF Turn

\* A handler that goes on to q has its turn if what q has checked holds.
LEMMA ReadsInTurn ==
  ASSUME IInv, NEW r \in Requests, OnlyRequest(r), NEW q, Current(q), Proceed(r, q), UNCHANGED db
  PROVE  Turn'
<1>1. inflight'[r] = q /\ \A s \in Requests : s # r => inflight'[s] = inflight[s]
  BY DEF IInv, PaymentsTypeOK, Proceed
<1>2. OnlyRequest(r)'
  BY <1>1 DEF OnlyRequest
<1>3. UNCHANGED <<wallets, methods, requests, fundings>>
  BY DEF db, withdrawing, topups
<1>4. Current(inflight'[r])
  BY <1>1
<1>5. Current(inflight[r])'
  BY <1>3, <1>4 DEF Current, MethodsOf
<1>. QED  BY <1>2, <1>5 DEF Turn

\* A first read: the handler starts alone, and its guard is what it has checked.
LEMMA StartsInTurn ==
  ASSUME OneAtATime, IInv, NEW r \in Requests, NEW q, Begin(r, q), Current(q)
  PROVE  Turn'
<1>1. Quiet
  BY StartsAlone DEF Begin, May
<1>. QED  BY <1>1, ReadsInTurn DEF Begin, Quiet, OnlyRequest

\* Every handler and its environment leave a turn.
LEMMA StepInTurn ==
  ASSUME OneAtATime, IInv, Turn, [Next]_vars
  PROVE  Turn'
<1>1. ASSUME NEW r \in Requests, NEW q, Begin(r, q), Current(q)  PROVE Turn'
  BY <1>1, StartsInTurn
<1>2. ASSUME NEW r \in Requests, inflight[r] # Idle, Finish(r)  PROVE Turn'
  BY <1>2, LeavesQuiet
<1>3. ASSUME NEW r \in Requests, TopupStep(r)  PROVE Turn'
  <2>1. ASSUME NEW u \in Users, NEW x \in Amounts, CreateTopup(r, u, x)  PROVE Turn'
    <3>1. Quiet
      BY <2>1, StartsAlone DEF CreateTopup, May
    <3>2. PICK t \in Fundings : inflight' = [inflight EXCEPT ![r] = [op |-> "charge", funding |-> t]]
      BY <2>1 DEF CreateTopup, Proceed
    <3>3. OnlyRequest(r)' /\ inflight'[r].op = "charge"
      BY <3>1, <3>2 DEF Quiet, OnlyRequest, IInv, PaymentsTypeOK
    <3>4. Current(inflight[r])'
      BY <3>3 DEF Current
    <3>. QED  BY <3>3, <3>4 DEF Turn
  <2>2. CASE Charge(r) \/ WebhookCommit(r)
    BY <1>2, <2>2 DEF Charge, WebhookCommit, Idle
  <2>3. ASSUME NEW t \in Fundings, WebhookRead(r, t)  PROVE Turn'
    BY <1>1, <2>3 DEF WebhookRead, Current
  <2>. QED  BY <1>3, <2>1, <2>2, <2>3 DEF TopupStep
<1>4. ASSUME NEW r \in Requests, UserStep(r)  PROVE Turn'
  <2>1. ASSUME NEW u \in Users, CountMethods(r, u)  PROVE Turn'
    BY <1>1, <2>1 DEF CountMethods, Current
  <2>2. ASSUME NEW m \in Methods, DeleteMethodRead(r, m)  PROVE Turn'
    BY <1>1, <2>2 DEF DeleteMethodRead, Current
  <2>3. ASSUME NEW u \in Users, NEW m \in Methods, NEW x \in Amounts, FindMethod(r, u, m, x)
        PROVE  Turn'
    BY <1>1, <2>3 DEF FindMethod, Current
  <2>4. CASE CheckBalance(r)
    <3>. DEFINE q == [inflight[r] EXCEPT !.op = "withdraw"]
    <3>1. inflight[r] \in Request /\ inflight[r].op = "checkBalance" /\ inflight[r] # Idle
      BY <2>4 DEF IInv, PaymentsTypeOK, CheckBalance, Idle
    <3>2. /\ q.op = "withdraw" /\ q.user = inflight[r].user /\ q.method = inflight[r].method
          /\ q.amount = inflight[r].amount
      BY <3>1 DEF Request, Idle
    <3>3. OnlyRequest(r) /\ Current(inflight[r])
      BY <3>1, InFlightIsAlone
    <3>4. Current(q)
      BY <2>4, <3>1, <3>2, <3>3 DEF CheckBalance, Current
    <3>5. Proceed(r, q) /\ UNCHANGED db
      BY <2>4 DEF CheckBalance
    <3>. HIDE DEF q
    <3>. QED  BY <3>3, <3>4, <3>5, ReadsInTurn
  <2>5. CASE AddMethod(r) \/ DeleteMethodCommit(r) \/ Withdraw(r)
    BY <1>2, <2>5 DEF AddMethod, DeleteMethodCommit, Withdraw, Idle
  <2>. QED  BY <1>4, <2>1, <2>2, <2>3, <2>4, <2>5 DEF UserStep
<1>5. ASSUME NEW r \in Requests, AdminStep(r)  PROVE Turn'
  <2>1. ASSUME NEW w \in Withdrawals, NEW a \in Admins,
               LockRead(r, w, a) \/ UnlockRead(r, w, a) \/ ApproveRead(r, w, a) \/ RejectRead(r, w, a)
        PROVE  Turn'
    BY <1>1, <2>1 DEF LockRead, UnlockRead, ApproveRead, RejectRead, LockedBy, Current
  <2>2. ASSUME NEW w \in Withdrawals, SendRead(r, w)  PROVE Turn'
    BY <1>1, <2>2 DEF SendRead, Current
  <2>3. CASE LockCommit(r) \/ UnlockCommit(r) \/ ApproveCommit(r) \/ RejectCommit(r) \/ SendCommit(r)
    BY <1>2, <2>3 DEF LockCommit, UnlockCommit, ApproveCommit, RejectCommit, SendCommit, Idle
  <2>. QED  BY <1>5, <2>1, <2>2, <2>3 DEF AdminStep
<1>6. ASSUME NEW r \in Requests, Abort(r)  PROVE Turn'
  BY <1>2, <1>6 DEF Abort
<1>7. ASSUME NEW u \in Users, NEW x \in Amounts, AddBalance(u, x)  PROVE Turn'
  BY <1>7, StartsAlone DEF AddBalance, Quiet, Turn
<1>8. ASSUME UNCHANGED <<wallets, methods, requests, fundings, inflight>>  PROVE Turn'
  <2>1. ASSUME Quiet  PROVE Turn'
    BY <1>8, <2>1 DEF Quiet, Turn
  <2>2. ASSUME NEW r \in Requests, OnlyRequest(r), Current(inflight[r])  PROVE Turn'
    <3>1. OnlyRequest(r)'
      BY <1>8, <2>2 DEF OnlyRequest
    <3>2. PICK q : q = inflight[r]
      OBVIOUS
    <3>3. Current(q)'
      BY <1>8, <2>2, <3>2 DEF Current, MethodsOf
    <3>4. Current(inflight[r])'
      BY <1>8, <3>2, <3>3
    <3>. QED  BY <3>1, <3>4 DEF Turn
  <2>. QED  BY <2>1, <2>2 DEF Turn
<1>9. ASSUME NEW t \in Fundings, PayAtGateway(t)  PROVE Turn'
  BY <1>8, <1>9 DEF PayAtGateway, withdrawing
<1>10. CASE UNCHANGED vars
  BY <1>8, <1>10 DEF vars
<1>. QED  BY <1>3, <1>4, <1>5, <1>6, <1>7, <1>9, <1>10 DEF Next

-----------------------------------------------------------------------------
(***************************************************************************)
(* One handler after the other: the claims.                                *)
(***************************************************************************)

\* What a commit has checked holds when it writes.
LEMMA CommitIsCurrent ==
  ASSUME IInv, Turn, NEW r \in Requests, inflight[r].op # "idle"
  PROVE  Current(inflight[r]) /\ inflight[r] \in Request
BY InFlightIsAlone DEF Idle, IInv, PaymentsTypeOK

\* Nobody goes below zero, fees are of requests that stand, and everything adds up.
Balanced == (\A u \in Users : wallets[u] >= 0) /\ FeesAreEarned /\ MoneyAddsUp

\* Every payment step keeps the balances.
LEMMA StepKeepsBalance ==
  ASSUME IInv, IInv', Turn, Balanced, [Next]_vars
  PROVE  Balanced'
<1>1. /\ AllInWallets \in Int /\ AllOut \in Int /\ AllDeposits \in Int /\ platform \in Int
      /\ AllFees \in Int /\ WithdrawFee \in Int /\ halves.withdrawn \in Nat
      /\ \A u \in Users : wallets[u] \in Int
  BY SumsAreNumbers, Numbers, Terms
<1>2. /\ AllInWallets + platform + AllOut = AllDeposits + halves.withdrawn /\ platform = AllFees
      /\ \A u \in Users : wallets[u] >= 0
  BY AllMoneyIs DEF Balanced, MoneyAddsUp, FeesAreEarned, AllFees
<1>3. ASSUME AllInWallets' + platform' + AllOut' = AllDeposits' + halves'.withdrawn,
             platform' = AllFees', \A u \in Users : wallets'[u] >= 0
      PROVE  Balanced'
  BY <1>3 DEF Balanced, MoneyAddsUp, FeesAreEarned, AllMoney, AllInWallets, AllOut, AllFees
<1>4. ASSUME NEW r \in Requests, WebhookCommit(r)  PROVE Balanced'
  <2>1. fundings[inflight[r].funding].status # "COMPLETED"
    BY <1>4, CommitIsCurrent DEF WebhookCommit, Current
  <2>2. PICK u \in Users, x \in Nat :
          /\ Moves(u, x) /\ AllInWallets' = AllInWallets + x /\ AllDeposits' = AllDeposits + x
          /\ UNCHANGED <<withdrawing, halves>>
    BY <1>4, <2>1, SettleBooks
  <2>3. platform' = platform /\ AllOut' = AllOut /\ AllFees' = AllFees
    BY <2>2 DEF withdrawing, AllOut, Outgoing, AllFees, Fees
  <2>4. \A v \in Users : wallets'[v] >= 0
    BY <1>1, <1>2, <2>2 DEF Moves
  <2>. QED  BY <1>1, <1>2, <1>3, <2>2, <2>3, <2>4
<1>5. ASSUME NEW u \in Users, NEW x \in Amounts, AddBalance(u, x)  PROVE Balanced'
  <2>1. PICK y \in Nat :
          /\ Moves(u, y) /\ UNCHANGED withdrawing
          /\ AllInWallets' = AllInWallets + y /\ AllDeposits' = AllDeposits + y
          /\ halves'.withdrawn = halves.withdrawn
    BY <1>2, <1>5, AddBooks
  <2>2. platform' = platform /\ AllOut' = AllOut /\ AllFees' = AllFees
    BY <2>1 DEF withdrawing, AllOut, Outgoing, AllFees, Fees
  <2>3. \A v \in Users : wallets'[v] >= 0
    BY <1>1, <1>2, <2>1 DEF Moves
  <2>. QED  BY <1>1, <1>2, <1>3, <2>1, <2>2, <2>3
<1>6. ASSUME NEW r \in Requests, Withdraw(r)  PROVE Balanced'
  <2>1. 10 * wallets[inflight[r].user] >= inflight[r].amount
    BY <1>6, CommitIsCurrent DEF Withdraw, Current
  <2>2. PICK u \in Users, d \in Int, y \in Nat, h \in Nat :
          /\ u = inflight[r].user /\ Moves(u, d)
          /\ 10 * wallets[u] >= inflight[r].amount => d = h - y /\ wallets[u] + d >= 0
          /\ AllInWallets' = AllInWallets + d /\ platform' = platform + WithdrawFee
          /\ AllOut' = AllOut + (y - WithdrawFee) /\ AllFees' = AllFees + WithdrawFee
          /\ halves'.withdrawn = halves.withdrawn + h /\ UNCHANGED topups
    BY <1>6, WithdrawBooks
  <2>3. AllDeposits' = AllDeposits
    BY <2>2 DEF topups, AllDeposits, Deposits
  <2>4. d = h - y /\ wallets[u] + d >= 0
    BY <2>1, <2>2
  <2>5. \A v \in Users : wallets'[v] >= 0
    BY <1>1, <1>2, <2>2, <2>4 DEF Moves
  <2>6. AllInWallets' + platform' + AllOut' = AllDeposits' + halves'.withdrawn
    <3>1. /\ AllInWallets' = AllInWallets + (h - y) /\ platform' = platform + WithdrawFee
          /\ AllOut' = AllOut + (y - WithdrawFee) /\ AllDeposits' = AllDeposits
          /\ halves'.withdrawn = halves.withdrawn + h
      BY <2>2, <2>3, <2>4
    <3>2. AllInWallets + platform + AllOut = AllDeposits + halves.withdrawn
      BY <1>2
    <3>. QED  BY <1>1, <3>1, <3>2
  <2>7. platform' = AllFees'
    BY <1>1, <1>2, <2>2
  <2>. QED  BY <1>3, <2>5, <2>6, <2>7
<1>7. ASSUME NEW r \in Requests, Decide(r)  PROVE Balanced'
  <2>1. requests[inflight[r].withdrawal].status # "REJECTED"
    BY <1>7, CommitIsCurrent
    DEF Decide, LockCommit, UnlockCommit, ApproveCommit, SendCommit, Current
  <2>2. AllOut' = AllOut + 0 /\ AllFees' = AllFees + 0 /\ UNCHANGED <<wallets, platform, topups, halves>>
    BY <1>7, <2>1, DecisionBooks
  <2>3. AllDeposits' = AllDeposits /\ AllInWallets' = AllInWallets
    BY <2>2 DEF topups, AllDeposits, Deposits, AllInWallets
  <2>. QED  BY <1>1, <1>2, <1>3, <2>2, <2>3
<1>8. ASSUME NEW r \in Requests, RejectCommit(r)  PROVE Balanced'
  <2>1. requests[inflight[r].withdrawal].status # "REJECTED"
    BY <1>8, CommitIsCurrent DEF RejectCommit, Current
  <2>2. PICK u \in Users, x \in Nat :
          /\ Moves(u, x)
          /\ AllInWallets' = AllInWallets + x /\ platform' = platform - WithdrawFee
          /\ AllOut' = AllOut + (WithdrawFee - x) /\ AllFees' = AllFees + (0 - WithdrawFee)
          /\ UNCHANGED <<topups, halves>>
    BY <1>8, <2>1, RefundBooks
  <2>3. AllDeposits' = AllDeposits
    BY <2>2 DEF topups, AllDeposits, Deposits
  <2>4. \A v \in Users : wallets'[v] >= 0
    BY <1>1, <1>2, <2>2 DEF Moves
  <2>. QED  BY <1>1, <1>2, <1>3, <2>2, <2>3, <2>4
<1>9. CASE /\ UNCHANGED <<wallets, platform, requests, halves>>
           /\ \/ UNCHANGED fundings
              \/ \E r \in Requests, u \in Users, x \in Amounts : CreateTopup(r, u, x)
  BY <1>2, <1>3, <1>9, OthersBook
<1>. QED  BY <1>4, <1>5, <1>6, <1>7, <1>8, <1>9, MoneySteps

\* A step that leaves the requests alone, and the methods they name, keeps them.
LEMMA KeptMethods ==
  ASSUME MethodsAreKept, UNCHANGED requests,
         \A u \in Users : Cardinality(MethodsOf(u))' <= MethodLimit,
         \A k \in Methods : methods[k].status = "active" /\ (\E w \in Withdrawals : requests[w].method = k)
                            => methods'[k] = methods[k]
  PROVE  MethodsAreKept'
<1>1. ASSUME NEW w \in Withdrawals, requests[w].status # "unborn"
      PROVE  /\ requests[w].method \in Methods
             /\ methods'[requests[w].method].status = "active"
             /\ methods'[requests[w].method].user = requests[w].user
  BY <1>1 DEF MethodsAreKept, MethodsOf
<1>. QED  BY <1>1 DEF MethodsAreKept, MethodsOf

\* A method is added only below the limit and deleted only if no request names it.
LEMMA StepKeepsMethods ==
  ASSUME IInv, Turn, MethodsAreKept, [Next]_vars
  PROVE  MethodsAreKept'
<1>0. \A u \in Users : IsFiniteSet(MethodsOf(u)) /\ Cardinality(MethodsOf(u)) \in Nat
  BY PaymentsFiniteness, FS_Subset, FS_CardinalityType DEF MethodsOf
<1>1. ASSUME UNCHANGED <<methods, requests>>  PROVE MethodsAreKept'
  BY <1>1 DEF MethodsAreKept, MethodsOf
<1>2. ASSUME NEW r \in Requests, AddMethod(r)  PROVE MethodsAreKept'
  <2>. DEFINE q == inflight[r]
  <2>1. q.op = "addMethod" /\ q \in Request /\ Current(q) /\ UNCHANGED requests
    BY <1>2, CommitIsCurrent DEF AddMethod
  <2>2. q.user \in Users /\ Cardinality(MethodsOf(q.user)) < MethodLimit
    BY <2>1, RequestFields DEF Current
  <2>3. PICK m \in Methods :
          /\ methods[m].status = "unborn"
          /\ methods' = [methods EXCEPT ![m] = [status |-> "active", user |-> q.user]]
    BY <1>2 DEF AddMethod
  <2>4. /\ methods'[m].status = "active" /\ methods'[m].user = q.user
        /\ \A k \in Methods : k # m => methods'[k] = methods[k]
    BY <2>3 DEF IInv, PaymentsTypeOK
  <2>5. ASSUME NEW u \in Users
        PROVE  MethodsOf(u)' = IF u = q.user THEN MethodsOf(u) \cup {m} ELSE MethodsOf(u)
    BY <2>3, <2>4 DEF MethodsOf
  <2>6. ASSUME NEW u \in Users  PROVE Cardinality(MethodsOf(u))' <= MethodLimit
    <3>1. PICK M, N : M = MethodsOf(u) /\ N = MethodsOf(u)'
      OBVIOUS
    <3>2. Cardinality(M) \in Nat /\ IsFiniteSet(M) /\ Cardinality(M) <= MethodLimit
      BY <1>0, <3>1 DEF MethodsAreKept
    <3>3. m \notin M
      BY <2>3, <3>1 DEF MethodsOf
    <3>4. Cardinality(N) <= MethodLimit
      <4>1. CASE u = q.user
        <5>1. N = M \cup {m} /\ Cardinality(M) < MethodLimit
          BY <2>2, <2>5, <3>1, <4>1
        <5>2. Cardinality(N) = Cardinality(M) + 1
          BY <3>2, <3>3, <5>1, FS_AddElement
        <5>. QED  BY <3>2, <5>1, <5>2, PaymentsAssumption
      <4>2. CASE u # q.user
        BY <2>5, <3>1, <3>2, <4>2
      <4>. QED  BY <4>1, <4>2
    <3>. QED  BY <3>1, <3>4
  <2>7. \A k \in Methods : methods[k].status = "active" => methods'[k] = methods[k]
    BY <2>3, <2>4
  <2>. QED  BY <2>1, <2>6, <2>7, KeptMethods
<1>3. ASSUME NEW r \in Requests, DeleteMethodCommit(r)  PROVE MethodsAreKept'
  <2>1. PICK m \in Methods :
          /\ \A w \in Withdrawals : requests[w].method # m
          /\ methods' = [methods EXCEPT ![m] = NoMethod("deleted")]
    BY <1>3, CommitIsCurrent, RequestFields DEF DeleteMethodCommit
  <2>2. /\ methods'[m].status = "deleted"
        /\ \A k \in Methods : k # m => methods'[k] = methods[k]
    BY <2>1 DEF IInv, PaymentsTypeOK, NoMethod
  <2>3. ASSUME NEW u \in Users  PROVE MethodsOf(u)' = MethodsOf(u) \ {m}
    BY <2>2 DEF MethodsOf
  <2>4. ASSUME NEW u \in Users  PROVE Cardinality(MethodsOf(u))' <= MethodLimit
    <3>1. PICK M, N : M = MethodsOf(u) /\ N = MethodsOf(u)'
      OBVIOUS
    <3>2. Cardinality(M) \in Nat /\ IsFiniteSet(M) /\ Cardinality(M) <= MethodLimit
      BY <1>0, <3>1 DEF MethodsAreKept
    <3>3. N \subseteq M
      BY <2>3, <3>1
    <3>4. Cardinality(N) <= Cardinality(M) /\ Cardinality(N) \in Nat
      BY <3>2, <3>3, FS_Subset, FS_CardinalityType
    <3>. QED  BY <3>1, <3>2, <3>4, PaymentsAssumption
  <2>5. UNCHANGED requests
    BY <1>3 DEF DeleteMethodCommit
  <2>6. \A k \in Methods : (\E w \in Withdrawals : requests[w].method = k) =>
                            methods'[k] = methods[k]
    BY <2>1, <2>2
  <2>. QED  BY <2>4, <2>5, <2>6, KeptMethods
<1>4. ASSUME UNCHANGED methods, NEW w \in Withdrawals, OnlyWithdrawal(w),
             requests'[w].method \in MethodsOf(requests'[w].user)
      PROVE  MethodsAreKept'
  <2>1. \A u : MethodsOf(u)' = MethodsOf(u)
    BY <1>4 DEF MethodsOf
  <2>2. \A v \in Withdrawals : requests'[v].status # "unborn" =>
          requests'[v].method \in MethodsOf(requests'[v].user)
    BY <1>4 DEF OnlyWithdrawal, MethodsAreKept
  <2>. QED  BY <1>4, <2>1, <2>2 DEF MethodsAreKept, MethodsOf
<1>5. ASSUME NEW r \in Requests, Withdraw(r)  PROVE MethodsAreKept'
  <2>1. /\ inflight[r] \in Request /\ inflight[r].op = "withdraw" /\ Current(inflight[r])
        /\ UNCHANGED methods
    BY <1>5, CommitIsCurrent DEF Withdraw
  <2>2. inflight[r].method \in MethodsOf(inflight[r].user)
    BY <2>1, RequestFields DEF Current, MethodsOf
  <2>. QED  BY <1>4, <1>5, <2>1, <2>2, WithdrawBooks
<1>6. ASSUME NEW r \in Requests, Decide(r) \/ RejectCommit(r)  PROVE MethodsAreKept'
  <2>1. PICK w \in Withdrawals :
          /\ requests[w].status # "unborn" /\ OnlyWithdrawal(w) /\ UNCHANGED methods
          /\ requests'[w].user = requests[w].user /\ requests'[w].method = requests[w].method
    BY <1>6, DecisionBooks, RefundBooks
  <2>. QED  BY <1>4, <2>1 DEF MethodsAreKept
<1>7. \/ UNCHANGED <<methods, requests>>
      \/ \E r \in Requests : AddMethod(r) \/ DeleteMethodCommit(r) \/ Withdraw(r) \/ Decide(r)
                           \/ RejectCommit(r)
  BY DEF Next, TopupStep, UserStep, AdminStep, CreateTopup, Charge, WebhookRead, WebhookCommit,
         CountMethods, DeleteMethodRead, FindMethod, CheckBalance, LockRead, UnlockRead,
         ApproveRead, RejectRead, SendRead, Decide, Abort, PayAtGateway, AddBalance, vars,
         Begin, db, withdrawing, topups
<1>. QED  BY <1>1, <1>2, <1>3, <1>5, <1>6, <1>7

\* The platform's income is a sum of fees.
LEMMA FeesAreNotNegative ==
  /\ IInv /\ FeesAreEarned => platform >= 0
  /\ IInv' /\ FeesAreEarned' => platform' >= 0
<1>1. IInv /\ FeesAreEarned => platform >= 0
  BY SumsAreNumbers DEF FeesAreEarned, AllFees
<1>2. (IInv /\ FeesAreEarned => platform >= 0)'
  BY <1>1, PTL
<1>. QED  BY <1>1, <1>2

\* SInv is inductive.
LEMMA NextKeepsSInv ==
  ASSUME OneAtATime, SInv, [Next]_vars
  PROVE  SInv'
<1>1. IInv' /\ Turn'
  BY NextKeepsIInv, StepInTurn DEF SInv
<1>2. Balanced' /\ MethodsAreKept'
  BY <1>1, StepKeepsBalance, StepKeepsMethods DEF SInv, Claims, NoDebt, Balanced
<1>3. platform' >= 0
  BY <1>1, <1>2, FeesAreNotNegative DEF Balanced
<1>. QED  BY <1>1, <1>2, <1>3 DEF SInv, Claims, NoDebt, Balanced

\* Nothing is stored, so nothing is owed.
LEMMA InitSInv ==
  ASSUME Init
  PROVE  SInv
<1>1. IInv
  BY InitIInv
<1>2. Turn
  BY DEF Init, Turn, Quiet
<1>3. NoDebt /\ FeesAreEarned /\ MoneyAddsUp
  BY InitMoney DEF Init, NoDebt, FeesAreEarned, AllFees, MoneyAddsUp
<1>4. MethodsAreKept
  <2>1. \A u \in Users : MethodsOf(u) = {}
    BY DEF Init, NoMethod, MethodsOf
  <2>2. \A u \in Users : Cardinality(MethodsOf(u)) = 0
    BY <2>1, FS_EmptySet
  <2>3. \A w \in Withdrawals : requests[w].status = "unborn"
    BY DEF Init, NoWithdraw
  <2>. QED  BY <2>2, <2>3, PaymentsAssumption DEF MethodsAreKept
<1>. QED  BY <1>1, <1>2, <1>3, <1>4 DEF SInv, Claims

\* One after the other, handlers keep SInv.
THEOREM PaymentsSerialInductive ==
  ASSUME OneAtATime
  PROVE  Spec => []SInv
<1>1. Init => SInv
  BY InitSInv
<1>2. SInv /\ [Next]_vars => SInv'
  BY NextKeepsSInv
<1>. QED  BY <1>1, <1>2, PTL DEF Spec

\* Nobody withdraws more than they have, and the platform returns only fees it earned.
THEOREM NobodyOwes ==
  ASSUME OneAtATime
  PROVE  Spec => []NoDebt
BY PaymentsSerialInductive, PTL DEF SInv, Claims

\* No settlement is credited twice, however often the gateway reports it, and no
\* withdrawal is both refunded and sent: only the two roundings of a withdrawal that ends in
\* half a cent leave something over, one cent each.
THEOREM EveryDepositIsOneBalance ==
  ASSUME OneAtATime
  PROVE  Spec => []MoneyAddsUp
BY PaymentsSerialInductive, PTL DEF SInv, Claims

\* The count before the insert keeps the limit, RESTRICT the methods in use.
THEOREM MethodsStay ==
  ASSUME OneAtATime
  PROVE  Spec => []MethodsAreKept
BY PaymentsSerialInductive, PTL DEF SInv, Claims

-----------------------------------------------------------------------------
(***************************************************************************)
(* One handler after the other: what one step may do to a request.         *)
(***************************************************************************)
OnItsWay(w) ==
  LET old == requests[w]  new == requests'[w] IN
    /\ new.status \in {old.status} \cup Successors(old.status)
    /\ new.status = "APPROVED" /\ old.status # "APPROVED" => new.approvedBy = old.lockedBy
    /\ new.status = "REJECTED" /\ old.status # "REJECTED" => new.rejectedBy = old.lockedBy

\* The status and the lock an admin's handler has read are there when it writes.
LEMMA StepIsOnItsWay ==
  ASSUME IInv, Turn, [Next]_vars
  PROVE  \A w \in Withdrawals : OnItsWay(w)
<1>1. ASSUME UNCHANGED requests  PROVE \A w \in Withdrawals : OnItsWay(w)
  BY <1>1 DEF OnItsWay
<1>2. ASSUME NEW w \in Withdrawals, OnlyWithdrawal(w), OnItsWay(w)
      PROVE  \A v \in Withdrawals : OnItsWay(v)
  BY <1>2 DEF OnItsWay, OnlyWithdrawal
<1>3. ASSUME NEW r \in Requests, Withdraw(r)  PROVE \A w \in Withdrawals : OnItsWay(w)
  <2>1. PICK w \in Withdrawals :
          requests[w].status = "unborn" /\ requests'[w].status = "PENDING" /\ OnlyWithdrawal(w)
    BY <1>3, WithdrawBooks
  <2>. QED  BY <1>2, <2>1 DEF OnItsWay, Successors
<1>4. ASSUME NEW r \in Requests, RejectCommit(r)  PROVE \A w \in Withdrawals : OnItsWay(w)
  <2>1. PICK w \in Withdrawals :
          /\ w = inflight[r].withdrawal /\ OnlyWithdrawal(w)
          /\ requests'[w].status = "REJECTED" /\ requests'[w].rejectedBy = inflight[r].admin
    BY <1>4, RefundBooks
  <2>2. requests[w].status = "PROCESSING" /\ requests[w].lockedBy = inflight[r].admin
    BY <1>4, <2>1, CommitIsCurrent DEF RejectCommit, Current
  <2>. QED  BY <1>2, <2>1, <2>2 DEF OnItsWay, Successors
<1>5. ASSUME NEW r \in Requests, Decide(r)  PROVE \A w \in Withdrawals : OnItsWay(w)
  <2>1. PICK w \in Withdrawals : w = inflight[r].withdrawal /\ OnlyWithdrawal(w)
    BY <1>5, DecisionBooks
  <2>2. Current(inflight[r])
    BY <1>5, CommitIsCurrent DEF Decide, LockCommit, UnlockCommit, ApproveCommit, SendCommit
  <2>3. requests \in [Withdrawals -> WithdrawRow] /\ requests[w] \in WithdrawRow
    BY DEF IInv, PaymentsTypeOK
  <2>4. CASE LockCommit(r)
    <3>1. requests[w].status = "PENDING" /\ requests'[w].status = "PROCESSING"
      BY <2>1, <2>2, <2>3, <2>4 DEF LockCommit, Current, WithdrawRow
    <3>. QED  BY <1>2, <2>1, <3>1 DEF OnItsWay, Successors
  <2>5. CASE UnlockCommit(r)
    <3>1. requests[w].status = "PROCESSING" /\ requests'[w].status = "PENDING"
      BY <2>1, <2>2, <2>3, <2>5 DEF UnlockCommit, Unlock, Current, WithdrawRow
    <3>. QED  BY <1>2, <2>1, <3>1 DEF OnItsWay, Successors
  <2>6. CASE ApproveCommit(r)
    <3>1. /\ requests[w].status = "PROCESSING" /\ requests'[w].status = "APPROVED"
          /\ requests'[w].approvedBy = requests[w].lockedBy
      BY <2>1, <2>2, <2>3, <2>6 DEF ApproveCommit, Current, WithdrawRow
    <3>. QED  BY <1>2, <2>1, <3>1 DEF OnItsWay, Successors
  <2>7. CASE SendCommit(r)
    <3>1. requests[w].status = "APPROVED" /\ requests'[w].status = "SENT"
      BY <2>1, <2>2, <2>3, <2>7 DEF SendCommit, Current, WithdrawRow
    <3>. QED  BY <1>2, <2>1, <3>1 DEF OnItsWay, Successors
  <2>. QED  BY <1>5, <2>4, <2>5, <2>6, <2>7 DEF Decide
<1>6. ASSUME NEW r \in Requests, WebhookCommit(r)  PROVE UNCHANGED requests
  BY <1>6 DEF WebhookCommit, withdrawing
<1>7. ASSUME NEW u \in Users, NEW x \in Amounts, AddBalance(u, x)  PROVE UNCHANGED requests
  BY <1>7 DEF AddBalance, withdrawing
<1>. QED  BY <1>1, <1>3, <1>4, <1>5, <1>6, <1>7, MoneySteps

\* Requests move along their life, and only the admin who holds one decides about it.
THEOREM WithdrawalsLiveInOrder ==
  ASSUME OneAtATime
  PROVE  Spec => WithdrawalLifecycle
<1>1. SInv /\ [Next]_vars => \A w \in Withdrawals : OnItsWay(w)
  BY StepIsOnItsWay DEF SInv
<1>2. Spec => [][\A w \in Withdrawals : OnItsWay(w)]_vars
  BY <1>1, PaymentsSerialInductive, PTL DEF Spec
<1>. QED  BY <1>2 DEF WithdrawalLifecycle, OnItsWay
=============================================================================
