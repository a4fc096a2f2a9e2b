--------------------------- MODULE PaymentsProofs ---------------------------
(***************************************************************************)
(* Proofs, for any number of users, admins, rows and handlers, of what     *)
(* Payments states about every interleaving.  Statuses may be overwritten  *)
(* by stale updates; what the updates rely on cannot be taken back: a row  *)
(* stays, a signature stays, a COMPLETED ledger row stays.                 *)
(***************************************************************************)
EXTENDS Payments, TLAPS

AboutRequest == {"lock", "unlock", "approve", "reject", "send"}

\* A request and its ledger row are made together; references point to rows that exist.
RowsFilled ==
  /\ \A w \in Withdrawals :
       /\ requests[w].status = "unborn" <=> booked[w] = "none"
       /\ requests[w].status # "unborn" => requests[w].user \in Users /\ requests[w].amount \in Stored
  /\ \A t \in Fundings :
       /\ fundings[t].status = "PENDING" \/ gateway[t] # "unknown" => fundings[t].user \in Users
       /\ fundings[t].user \in Users => fundings[t].status # "unborn"

\* What a handler has read that no other handler can take back.
Snapshot(q) ==
  /\ q.op \in AboutRequest => requests[q.withdrawal].status # "unborn"
  /\ q.op = "send" => requests[q.withdrawal].approvedBy # None
  /\ q.op \in {"charge", "settle"} => fundings[q.funding].user \in Users

Snapshots == \A r \in Requests : Snapshot(inflight[r])

IInv == PaymentsTypeOK /\ RowsFilled /\ AuditTrail /\ Snapshots

-----------------------------------------------------------------------------
\* The fields a request record has, by the step it waits for.
LEMMA RequestFields ==
  ASSUME NEW q \in Request
  PROVE  /\ q.op \in AboutRequest => q.withdrawal \in Withdrawals
         /\ q.op \in {"lock", "approve", "reject"} => q.admin \in Admins
         /\ q.op \in {"charge", "settle"} => q.funding \in Fundings
         /\ q.op = "addMethod" => q.user \in Users
         /\ q.op = "deleteMethod" => q.method \in Methods
         /\ q.op \in {"checkBalance", "withdraw"} =>
              q.user \in Users /\ q.method \in Methods /\ q.amount \in Amounts
BY DEF Request, Idle, AboutRequest

\* A handler that is not in flight has read nothing.
LEMMA IdleSnapshot == Idle \in Request /\ Snapshot(Idle)
BY DEF Request, Idle, Snapshot, AboutRequest

\* Whatever is rounded is whole.
LEMMA RoundedIsInt ==
  ASSUME NEW x \in Int
  PROVE  Rounded(x) \in Int
BY DEF Rounded

\* Amounts, as sent and as stored, and the fee are numbers.
LEMMA Numbers ==
  /\ WithdrawFee \in Int
  /\ \A x \in Amounts : x \in Nat /\ Rounded(x) \in Stored /\ HalfCent(x) \in Nat
  /\ \A x \in Stored \cup {0} : x \in Nat
<1>1. \A x \in Amounts : x \in Nat /\ HalfCent(x) \in Nat
  BY PaymentsAssumption DEF HalfCent
<1>2. \A x \in Nat : Rounded(x) \in Nat
  BY DEF Rounded
<1>3. \A x \in Stored : x \in Nat
  BY <1>1, <1>2 DEF Stored
<1>. QED  BY <1>1, <1>3, PaymentsAssumption DEF Stored

\* A credit leaves the balances integers.
LEMMA CreditType ==
  ASSUME IInv, NEW u, NEW amount \in Int, Credit(u, amount)
  PROVE  wallets' \in [Users -> Int]
<1>1. wallets \in [Users -> Int] /\ wallets' = [wallets EXCEPT ![u] = wallets[u] + amount]
  BY DEF Credit, IInv, PaymentsTypeOK
<1>2. u \in Users => wallets[u] + amount \in Int
  BY <1>1
<1>. DEFINE b == wallets[u] + amount
<1>. HIDE DEF b
<1>. QED  BY <1>1, <1>2 DEF b

\* What no write takes back.
RowsEvolve ==
  /\ \A w \in Withdrawals : requests[w].status # "unborn" =>
       /\ requests'[w].status # "unborn"
       /\ requests[w].approvedBy # None => requests'[w].approvedBy # None
  /\ \A t \in Fundings : fundings[t].user \in Users => fundings'[t].user \in Users

\* A handler's record is replaced by one whose snapshot holds; the others stay true.
LEMMA SnapshotsSurvive ==
  ASSUME IInv, RowsEvolve,
         \/ UNCHANGED inflight
         \/ \E r \in Requests, q \in Request :
              Snapshot(q)' /\ inflight' = [inflight EXCEPT ![r] = q]
  PROVE  Snapshots' /\ inflight' \in [Requests -> Request]
<1>1. ASSUME NEW q \in Request, Snapshot(q)
      PROVE  /\ q.op \in AboutRequest => requests'[q.withdrawal].status # "unborn"
             /\ q.op = "send" => requests'[q.withdrawal].approvedBy # None
             /\ q.op \in {"charge", "settle"} => fundings'[q.funding].user \in Users
  <2>1. q.op \in AboutRequest => q.withdrawal \in Withdrawals
    BY RequestFields
  <2>2. q.op \in {"charge", "settle"} => q.funding \in Fundings
    BY RequestFields
  <2>3. q.op = "send" => q.op \in AboutRequest
    BY DEF AboutRequest
  <2>. QED  BY <1>1, <2>1, <2>2, <2>3 DEF RowsEvolve, Snapshot
<1>2. ASSUME NEW s \in Requests PROVE inflight[s] \in Request /\ Snapshot(inflight[s])
  BY DEF IInv, PaymentsTypeOK, Snapshots
<1>3. CASE UNCHANGED inflight
  BY <1>1, <1>2, <1>3 DEF IInv, PaymentsTypeOK, Snapshots, Snapshot
<1>4. ASSUME NEW r \in Requests, NEW q \in Request, Snapshot(q)',
             inflight' = [inflight EXCEPT ![r] = q]
      PROVE  Snapshots' /\ inflight' \in [Requests -> Request]
  <2>1. \A s \in Requests : inflight'[s] = IF s = r THEN q ELSE inflight[s]
    BY <1>4 DEF IInv, PaymentsTypeOK
  <2>2. ASSUME NEW s \in Requests PROVE Snapshot(inflight[s])'
    BY <1>1, <1>2, <1>4, <2>1 DEF Snapshot
  <2>. QED  BY <1>4, <2>2 DEF IInv, PaymentsTypeOK, Snapshots
<1>. QED  BY <1>3, <1>4

\* Every step that writes neither requests nor their ledger rows and starts, moves
\* on or ends one handler.
LEMMA OtherStep ==
  ASSUME IInv, NEW r \in Requests, NEW q \in Request,
         Snapshot(q)', inflight' = [inflight EXCEPT ![r] = q],
         wallets' \in [Users -> Int], UNCHANGED <<platform, requests, booked, halves>>,
         methods' \in [Methods -> MethodRow], fundings' \in [Fundings -> FundingRow],
         gateway' \in [Fundings -> {"unknown", "charged", "settled"}],
         \A t \in Fundings : /\ fundings[t].user \in Users => fundings'[t].user \in Users
                             /\ fundings'[t].status = "PENDING" \/ gateway'[t] # "unknown" =>
                                  fundings'[t].user \in Users
                             /\ fundings'[t].user \in Users => fundings'[t].status # "unborn"
  PROVE  IInv'
<1>1. RowsEvolve
  BY DEF RowsEvolve
<1>2. Snapshots' /\ inflight' \in [Requests -> Request]
  BY <1>1, SnapshotsSurvive
<1>3. PaymentsTypeOK'
  BY <1>2 DEF IInv, PaymentsTypeOK
<1>4. RowsFilled' /\ AuditTrail'
  BY DEF IInv, RowsFilled, AuditTrail
<1>. QED  BY <1>2, <1>3, <1>4 DEF IInv

\* Steps that only read.
LEMMA ReadersKeepIInv ==
  ASSUME IInv, NEW r \in Requests, NEW q \in Request, Snapshot(q), Proceed(r, q), UNCHANGED db
  PROVE  IInv'
<1>1. Snapshot(q)'
  BY DEF Snapshot, db, withdrawing, topups
<1>. QED  BY <1>1, OtherStep DEF IInv, PaymentsTypeOK, RowsFilled, Proceed, db, withdrawing, topups

\* Top-ups: order, charge, webhook.
LEMMA TopupsKeepIInv ==
  ASSUME IInv, NEW r \in Requests, TopupStep(r)
  PROVE  IInv'
<1>. USE DEF Proceed, Finish, withdrawing, topups
<1>0. \A s \in Requests : inflight[s] \in Request /\ Snapshot(inflight[s])
  BY DEF IInv, PaymentsTypeOK, Snapshots
<1>1. ASSUME NEW u \in Users, NEW amount \in Amounts, CreateTopup(r, u, amount)  PROVE IInv'
  <2>. DEFINE row == [status |-> "PENDING", user |-> u, amount |-> Rounded(amount)]
  <2>1. PICK t \in Fundings :
          /\ fundings' = [fundings EXCEPT ![t] = row]
          /\ inflight' = [inflight EXCEPT ![r] = [op |-> "charge", funding |-> t]]
    BY <1>1 DEF CreateTopup
  <2>2. row \in FundingRow
    BY Numbers DEF FundingRow
  <2>3. \A x \in Fundings : fundings'[x] = IF x = t THEN row ELSE fundings[x]
    BY <2>1 DEF IInv, PaymentsTypeOK
  <2>4. fundings' \in [Fundings -> FundingRow]
    BY <2>1, <2>2 DEF IInv, PaymentsTypeOK
  <2>5. [op |-> "charge", funding |-> t] \in Request
        /\ (Snapshot([op |-> "charge", funding |-> t]))'
    BY <2>3 DEF Request, Snapshot, AboutRequest
  <2>. QED  BY <1>1, <2>1, <2>3, <2>4, <2>5, OtherStep
            DEF CreateTopup, IInv, PaymentsTypeOK, RowsFilled
<1>2. CASE Charge(r)
  <2>1. inflight[r].funding \in Fundings /\ fundings[inflight[r].funding].user \in Users
    BY <1>0, <1>2, RequestFields DEF Charge, Snapshot
  <2>2. Snapshot(Idle)'
    BY DEF Snapshot, Idle, AboutRequest
  <2>3. /\ gateway' = [gateway EXCEPT ![inflight[r].funding] = "charged"]
        /\ UNCHANGED <<wallets, platform, methods, requests, booked, fundings, halves>>
        /\ inflight' = [inflight EXCEPT ![r] = Idle]
    BY <1>2 DEF Charge
  <2>4. gateway' \in [Fundings -> {"unknown", "charged", "settled"}]
    BY <2>3 DEF IInv, PaymentsTypeOK
  <2>5. \A t \in Fundings : fundings[t].status = "PENDING" \/ gateway'[t] # "unknown" =>
          fundings[t].user \in Users
    BY <2>1, <2>3 DEF IInv, PaymentsTypeOK, RowsFilled
  <2>6. \A t \in Fundings : fundings[t].user \in Users => fundings[t].status # "unborn"
    BY DEF IInv, RowsFilled
  <2>7. wallets \in [Users -> Int] /\ methods \in [Methods -> MethodRow]
        /\ fundings \in [Fundings -> FundingRow]
    BY DEF IInv, PaymentsTypeOK
  <2>. QED  BY <2>2, <2>3, <2>4, <2>5, <2>6, <2>7, IdleSnapshot, OtherStep
<1>3. ASSUME NEW t \in Fundings, WebhookRead(r, t)  PROVE IInv'
  <2>. DEFINE q == [op |-> "settle", funding |-> t]
  <2>1. q \in Request /\ Snapshot(q)
    BY <1>3 DEF Request, Snapshot, AboutRequest, WebhookRead, IInv, RowsFilled
  <2>. QED  BY <1>3, <2>1, ReadersKeepIInv DEF WebhookRead, Begin
<1>4. CASE WebhookCommit(r)
  <2>. DEFINE t == inflight[r].funding
  <2>1. t \in Fundings
    BY <1>0, <1>4, RequestFields DEF WebhookCommit
  <2>2. fundings[t].amount \in Int
    BY <2>1, Numbers DEF IInv, PaymentsTypeOK, FundingRow
  <2>. DEFINE u == fundings[t].user
              a == fundings[t].amount
  <2>3. wallets' \in [Users -> Int]
    <3>1. Credit(u, a)
      BY <1>4 DEF WebhookCommit
    <3>. QED  BY <3>1, <2>2, CreditType
  <2>4. fundings' \in [Fundings -> FundingRow]
        /\ \A x \in Fundings : fundings'[x].user = fundings[x].user
                               /\ fundings'[x].status \in {fundings[x].status, "COMPLETED"}
    BY <1>4, <2>1 DEF WebhookCommit, MarkCompleted, IInv, PaymentsTypeOK, FundingRow
  <2>5. Snapshot(Idle)'
    BY DEF Snapshot, Idle, AboutRequest
  <2>. QED  BY <1>4, <2>3, <2>4, <2>5, IdleSnapshot, OtherStep
            DEF WebhookCommit, IInv, PaymentsTypeOK, RowsFilled
<1>. QED  BY <1>1, <1>2, <1>3, <1>4 DEF TopupStep

\* Methods, and a withdrawal up to its commit.
LEMMA MethodsKeepIInv ==
  ASSUME IInv, NEW r \in Requests, AddMethod(r) \/ DeleteMethodCommit(r)
  PROVE  IInv'
<1>. USE DEF Finish, Proceed, topups
<1>1. inflight[r] \in Request
  BY DEF IInv, PaymentsTypeOK
<1>2. methods' \in [Methods -> MethodRow]
  <2>1. CASE AddMethod(r)
    BY <1>1, <2>1, RequestFields DEF AddMethod, IInv, PaymentsTypeOK, MethodRow
  <2>2. CASE DeleteMethodCommit(r)
    BY <1>1, <2>2, RequestFields DEF DeleteMethodCommit, IInv, PaymentsTypeOK, MethodRow, NoMethod
  <2>. QED  BY <2>1, <2>2
<1>3. Snapshot(Idle)'
  BY DEF Snapshot, Idle, AboutRequest
<1>4. /\ inflight' = [inflight EXCEPT ![r] = Idle]
      /\ UNCHANGED <<wallets, platform, requests, booked, fundings, gateway, halves>>
  BY DEF AddMethod, DeleteMethodCommit
<1>. QED  BY <1>2, <1>3, <1>4, IdleSnapshot, OtherStep DEF IInv, PaymentsTypeOK, RowsFilled

\* A request and its ledger row come to life together.
LEMMA WithdrawKeepsIInv ==
  ASSUME IInv, NEW r \in Requests, Withdraw(r)
  PROVE  IInv'
<1>. DEFINE q == inflight[r]
            row == [NoWithdraw EXCEPT !.status = "PENDING", !.user = q.user,
                                      !.method = q.method, !.amount = Rounded(q.amount)]
<1>1. q.user \in Users /\ q.method \in Methods /\ q.amount \in Amounts
  BY RequestFields DEF Withdraw, IInv, PaymentsTypeOK
<1>2. PICK w \in Withdrawals : /\ requests[w].status = "unborn"
                               /\ requests' = [requests EXCEPT ![w] = row]
                               /\ booked' = [booked EXCEPT ![w] = "PENDING"]
  BY DEF Withdraw
<1>3. /\ row \in WithdrawRow /\ row.status = "PENDING" /\ row.lockedBy = None
      /\ row.user \in Users /\ row.amount \in Stored
  BY <1>1, Numbers DEF WithdrawRow, NoWithdraw, WithdrawStatus
<1>4. /\ requests'[w].status = "PENDING" /\ requests'[w].lockedBy = None
      /\ requests'[w].user \in Users /\ requests'[w].amount \in Stored /\ booked'[w] = "PENDING"
      /\ \A v \in Withdrawals : v # w => requests'[v] = requests[v] /\ booked'[v] = booked[v]
  <2>1. requests'[w] = row /\ booked'[w] = "PENDING"
    BY <1>2 DEF IInv, PaymentsTypeOK
  <2>2. \A v \in Withdrawals : v # w => requests'[v] = requests[v] /\ booked'[v] = booked[v]
    BY <1>2 DEF IInv, PaymentsTypeOK
  <2>. QED  BY <1>3, <2>1, <2>2
<1>5. /\ wallets' \in [Users -> Int] /\ platform' \in Int
      /\ halves' \in [withdrawn : Nat, deposited : Nat]
  <2>1. wallets[q.user] \in Int /\ q.amount \in Int /\ HalfCent(q.amount) \in Nat
    BY <1>1, Numbers DEF IInv, PaymentsTypeOK
  <2>2. Rounded(10 * wallets[q.user] - q.amount) \in Int
    BY <2>1, RoundedIsInt
  <2>3. wallets' \in [Users -> Int]
    BY <2>2 DEF Withdraw, IInv, PaymentsTypeOK
  <2>4. platform' \in Int /\ halves' \in [withdrawn : Nat, deposited : Nat]
    BY <2>1, Numbers DEF Withdraw, IInv, PaymentsTypeOK
  <2>. QED  BY <2>3, <2>4
<1>6. UNCHANGED <<methods, fundings, gateway>> /\ inflight' = [inflight EXCEPT ![r] = Idle]
  BY DEF Withdraw, Finish, Proceed, topups
<1>7. RowsEvolve
  BY <1>2, <1>4, <1>6 DEF RowsEvolve
<1>8. Snapshot(Idle)'
  BY DEF Snapshot, Idle, AboutRequest
<1>9. Snapshots' /\ inflight' \in [Requests -> Request]
  BY <1>6, <1>7, <1>8, IdleSnapshot, SnapshotsSurvive
<1>10. PaymentsTypeOK'
  BY <1>2, <1>3, <1>5, <1>6, <1>9 DEF IInv, PaymentsTypeOK
<1>11. RowsFilled'
  BY <1>4, <1>6 DEF IInv, RowsFilled
<1>12. AuditTrail'
  BY <1>4 DEF IInv, AuditTrail
<1>. QED  BY <1>9, <1>10, <1>11, <1>12 DEF IInv

-----------------------------------------------------------------------------
(***************************************************************************)
(* What admins write.                                                      *)
(***************************************************************************)

\* One request row is rewritten by an admin's handler and ledger rows may be completed.
LEMMA DecisionKeepsIInv ==
  ASSUME IInv, NEW r \in Requests, NEW w \in Withdrawals, NEW row \in WithdrawRow,
         requests[w].status # "unborn", requests' = [requests EXCEPT ![w] = row],
         row.status # "unborn", row.user = requests[w].user, row.amount = requests[w].amount,
         requests[w].approvedBy # None => row.approvedBy # None,
         row.status = "PENDING" => row.lockedBy = None,
         row.status = "PROCESSING" => row.lockedBy # None,
         row.status \in {"APPROVED", "SENT"} => row.approvedBy # None,
         row.status = "REJECTED" => row.rejectedBy # None,
         row.status = "SENT" => booked'[w] = "COMPLETED",
         booked' \in [Withdrawals -> {"none", "PENDING", "COMPLETED"}],
         \A v \in Withdrawals : \/ booked'[v] = booked[v]
                                \/ booked[v] = "PENDING" /\ booked'[v] = "COMPLETED",
         wallets' \in [Users -> Int], platform' \in Int, UNCHANGED <<methods, fundings, gateway, halves>>,
         inflight' = [inflight EXCEPT ![r] = Idle]
  PROVE  IInv'
<1>1. /\ requests'[w] = row
      /\ \A v \in Withdrawals : v # w => requests'[v] = requests[v]
  BY DEF IInv, PaymentsTypeOK
<1>2. RowsEvolve
  BY <1>1 DEF RowsEvolve
<1>3. Snapshot(Idle)'
  BY DEF Snapshot, Idle, AboutRequest
<1>4. Snapshots' /\ inflight' \in [Requests -> Request]
  BY <1>2, <1>3, IdleSnapshot, SnapshotsSurvive
<1>5. PaymentsTypeOK'
  BY <1>4 DEF IInv, PaymentsTypeOK
<1>6. RowsFilled'
  BY <1>1 DEF IInv, RowsFilled
<1>7. AuditTrail'
  BY <1>1 DEF IInv, AuditTrail
<1>. QED  BY <1>4, <1>5, <1>6, <1>7 DEF IInv

\* An admin's commits: lock, unlock, approve, reject, send.
LEMMA DecisionsKeepIInv ==
  ASSUME IInv, NEW r \in Requests,
         LockCommit(r) \/ UnlockCommit(r) \/ ApproveCommit(r) \/ RejectCommit(r) \/ SendCommit(r)
  PROVE  IInv'
<1>. DEFINE q == inflight[r]
            w == q.withdrawal
            old == requests[w]
<1>. USE DEF Finish, Proceed, topups
<1>0. /\ q \in Request /\ Snapshot(q) /\ q.op \in AboutRequest
  BY DEF IInv, PaymentsTypeOK, Snapshots, AboutRequest, LockCommit, UnlockCommit, ApproveCommit,
         RejectCommit, SendCommit
<1>1. w \in Withdrawals /\ old.status # "unborn" /\ old \in WithdrawRow
  BY <1>0, RequestFields DEF Snapshot, IInv, PaymentsTypeOK
<1>2. None \notin Admins
  BY PaymentsAssumption
<1>3. /\ wallets \in [Users -> Int] /\ platform \in Int
      /\ requests \in [Withdrawals -> WithdrawRow]
      /\ booked \in [Withdrawals -> {"none", "PENDING", "COMPLETED"}]
  BY DEF IInv, PaymentsTypeOK
<1>4. UNCHANGED <<methods, fundings, gateway, halves>> /\ inflight' = [inflight EXCEPT ![r] = Idle]
  BY DEF LockCommit, UnlockCommit, ApproveCommit, RejectCommit, SendCommit
<1>5. CASE LockCommit(r)
  <2>. DEFINE row == [old EXCEPT !.status = "PROCESSING", !.lockedBy = q.admin]
  <2>1. q.admin \in Admins
    BY <1>0, <1>5, RequestFields DEF LockCommit
  <2>2. /\ row \in WithdrawRow /\ row.status = "PROCESSING" /\ row.lockedBy = q.admin
        /\ row.user = old.user /\ row.amount = old.amount /\ row.approvedBy = old.approvedBy
    BY <1>1, <2>1 DEF WithdrawRow, WithdrawStatus
  <2>3. requests' = [requests EXCEPT ![w] = row] /\ UNCHANGED <<wallets, platform, booked>>
    BY <1>5, <1>3 DEF LockCommit
  <2>. HIDE DEF row
  <2>. QED  BY <1>1, <1>2, <1>3, <1>4, <2>1, <2>2, <2>3, DecisionKeepsIInv
<1>6. CASE UnlockCommit(r)
  <2>. DEFINE row == [old EXCEPT !.status = "PENDING", !.lockedBy = None]
  <2>1. /\ row \in WithdrawRow /\ row.status = "PENDING" /\ row.lockedBy = None
        /\ row.user = old.user /\ row.amount = old.amount /\ row.approvedBy = old.approvedBy
    BY <1>1 DEF WithdrawRow, WithdrawStatus
  <2>2. requests' = [requests EXCEPT ![w] = row] /\ UNCHANGED <<wallets, platform, booked>>
    BY <1>6, <1>3 DEF UnlockCommit, Unlock
  <2>. HIDE DEF row
  <2>. QED  BY <1>1, <1>3, <1>4, <2>1, <2>2, DecisionKeepsIInv
<1>7. CASE ApproveCommit(r)
  <2>. DEFINE row == [old EXCEPT !.status = "APPROVED", !.approvedBy = q.admin]
  <2>1. q.admin \in Admins
    BY <1>0, <1>7, RequestFields DEF ApproveCommit
  <2>2. /\ row \in WithdrawRow /\ row.status = "APPROVED" /\ row.approvedBy = q.admin
        /\ row.user = old.user /\ row.amount = old.amount
    BY <1>1, <2>1 DEF WithdrawRow, WithdrawStatus
  <2>3. requests' = [requests EXCEPT ![w] = row] /\ UNCHANGED <<wallets, platform, booked>>
    BY <1>7, <1>3 DEF ApproveCommit
  <2>. HIDE DEF row
  <2>. QED  BY <1>1, <1>2, <1>3, <1>4, <2>1, <2>2, <2>3, DecisionKeepsIInv
<1>8. CASE RejectCommit(r)
  <2>. DEFINE row == [old EXCEPT !.status = "REJECTED", !.rejectedBy = q.admin]
  <2>1. q.admin \in Admins
    BY <1>0, <1>8, RequestFields DEF RejectCommit
  <2>2. /\ row \in WithdrawRow /\ row.status = "REJECTED" /\ row.rejectedBy = q.admin
        /\ row.user = old.user /\ row.amount = old.amount /\ row.approvedBy = old.approvedBy
    BY <1>1, <2>1 DEF WithdrawRow, WithdrawStatus
  <2>3. requests' = [requests EXCEPT ![w] = row] /\ UNCHANGED booked
    BY <1>8, <1>3 DEF RejectCommit
  <2>4. old.amount \in Int
    BY <1>1, Numbers DEF WithdrawRow
  <2>5. wallets' \in [Users -> Int] /\ platform' \in Int
    <3>1. Credit(old.user, old.amount) /\ platform' = platform - WithdrawFee
      BY <1>8 DEF RejectCommit, Refund
    <3>. QED  BY <1>3, <2>4, <3>1, CreditType, Numbers
  <2>. HIDE DEF row
  <2>. QED  BY <1>1, <1>2, <1>3, <1>4, <2>1, <2>2, <2>3, <2>5, DecisionKeepsIInv
<1>9. CASE SendCommit(r)
  <2>. DEFINE row == [old EXCEPT !.status = "SENT"]
  <2>1. old.approvedBy # None
    BY <1>0, <1>9 DEF SendCommit, Snapshot
  <2>2. /\ row \in WithdrawRow /\ row.status = "SENT" /\ row.approvedBy = old.approvedBy
        /\ row.user = old.user /\ row.amount = old.amount
    BY <1>1 DEF WithdrawRow, WithdrawStatus
  <2>3. requests' = [requests EXCEPT ![w] = row] /\ UNCHANGED <<wallets, platform>>
    BY <1>9, <1>3 DEF SendCommit
  <2>4. \A v \in Withdrawals : \/ booked'[v] = booked[v]
                               \/ booked[v] = "PENDING" /\ booked'[v] = "COMPLETED"
    BY <1>9 DEF SendCommit, Book
  <2>5. booked' \in [Withdrawals -> {"none", "PENDING", "COMPLETED"}]
    BY <1>3, <1>9 DEF SendCommit, Book
  <2>6. booked[w] \in {"PENDING", "COMPLETED"}
    BY <1>1, <1>3 DEF IInv, RowsFilled
  <2>7. booked'[w] = "COMPLETED"
    BY <1>1, <1>9, <2>6 DEF SendCommit, Book
  <2>. HIDE DEF row
  <2>. QED  BY <1>1, <1>3, <1>4, <2>1, <2>2, <2>3, <2>4, <2>5, <2>7, DecisionKeepsIInv
<1>. QED  BY <1>5, <1>6, <1>7, <1>8, <1>9

-----------------------------------------------------------------------------
(***************************************************************************)
(* The invariant, from the first state through every step.                 *)
(***************************************************************************)
LEMMA UserStepsKeepIInv ==
  ASSUME IInv, NEW r \in Requests, UserStep(r)
  PROVE  IInv'
<1>. USE DEF Begin
<1>0. inflight[r] \in Request /\ Snapshot(inflight[r])
  BY DEF IInv, PaymentsTypeOK, Snapshots
<1>1. ASSUME NEW u \in Users, CountMethods(r, u)  PROVE IInv'
  <2>1. [op |-> "addMethod", user |-> u] \in Request /\ Snapshot([op |-> "addMethod", user |-> u])
    BY DEF Request, Snapshot, AboutRequest
  <2>. QED  BY <1>1, <2>1, ReadersKeepIInv DEF CountMethods
<1>2. ASSUME NEW m \in Methods, DeleteMethodRead(r, m)  PROVE IInv'
  <2>1. /\ [op |-> "deleteMethod", method |-> m] \in Request
        /\ Snapshot([op |-> "deleteMethod", method |-> m])
    BY DEF Request, Snapshot, AboutRequest
  <2>. QED  BY <1>2, <2>1, ReadersKeepIInv DEF DeleteMethodRead
<1>3. ASSUME NEW u \in Users, NEW m \in Methods, NEW amount \in Amounts, FindMethod(r, u, m, amount)
      PROVE IInv'
  <2>. DEFINE q == [op |-> "checkBalance", user |-> u, method |-> m, amount |-> amount]
  <2>1. q \in Request /\ Snapshot(q)
    BY DEF Request, Snapshot, AboutRequest
  <2>. QED  BY <1>3, <2>1, ReadersKeepIInv DEF FindMethod
<1>4. CASE CheckBalance(r)
  <2>. DEFINE q == [inflight[r] EXCEPT !.op = "withdraw"]
  <2>1. q \in Request /\ Snapshot(q)
    BY <1>0, <1>4 DEF CheckBalance, Request, Idle, Snapshot, AboutRequest
  <2>. QED  BY <1>4, <2>1, ReadersKeepIInv DEF CheckBalance
<1>. QED  BY <1>1, <1>2, <1>3, <1>4, MethodsKeepIInv, WithdrawKeepsIInv DEF UserStep

\* An admin's reads, decisions and rejections.
LEMMA AdminStepsKeepIInv ==
  ASSUME IInv, NEW r \in Requests, AdminStep(r)
  PROVE  IInv'
<1>. USE DEF Begin
<1>1. ASSUME NEW w \in Withdrawals, NEW a \in Admins,
             LockRead(r, w, a) \/ UnlockRead(r, w, a) \/ ApproveRead(r, w, a) \/ RejectRead(r, w, a)
      PROVE IInv'
  <2>1. PICK q \in [op : {"lock", "approve", "reject"}, withdrawal : {w}, admin : Admins]
                     \cup [op : {"unlock"}, withdrawal : {w}] : Proceed(r, q) /\ UNCHANGED db
    BY <1>1 DEF LockRead, UnlockRead, ApproveRead, RejectRead
  <2>2. requests[w].status # "unborn"
    BY <1>1 DEF LockRead, UnlockRead, ApproveRead, RejectRead, LockedBy
  <2>3. q \in Request /\ Snapshot(q)
    BY <2>2 DEF Request, Snapshot, AboutRequest
  <2>. QED  BY <2>1, <2>3, ReadersKeepIInv
<1>2. ASSUME NEW w \in Withdrawals, SendRead(r, w)  PROVE IInv'
  <2>. DEFINE q == [op |-> "send", withdrawal |-> w]
  <2>1. requests[w].status = "APPROVED" /\ requests[w].approvedBy # None
    BY <1>2 DEF SendRead, IInv, AuditTrail
  <2>2. q \in Request /\ Snapshot(q)
    BY <2>1 DEF Request, Snapshot, AboutRequest
  <2>. QED  BY <1>2, <2>2, ReadersKeepIInv DEF SendRead
<1>. QED  BY <1>1, <1>2, DecisionsKeepIInv DEF AdminStep

\* What happens at the gateway, and an admin's deposit.
LEMMA OutsideKeepsIInv ==
  ASSUME IInv,
         \/ \E t \in Fundings : PayAtGateway(t)
         \/ \E u \in Users, amount \in Amounts : AddBalance(u, amount)
  PROVE  IInv'
<1>1. UNCHANGED <<platform, methods, requests, booked, inflight>>
  BY DEF PayAtGateway, AddBalance, withdrawing
<1>2. /\ wallets' \in [Users -> Int] /\ fundings' \in [Fundings -> FundingRow]
      /\ halves' \in [withdrawn : Nat, deposited : Nat]
      /\ gateway' \in [Fundings -> {"unknown", "charged", "settled"}]
      /\ \A t \in Fundings : /\ fundings[t].user \in Users => fundings'[t].user \in Users
                             /\ fundings'[t].status = "PENDING" \/ gateway'[t] # "unknown" =>
                                  fundings'[t].user \in Users
                             /\ fundings'[t].user \in Users => fundings'[t].status # "unborn"
  <2>1. CASE \E t \in Fundings : PayAtGateway(t)
    BY <2>1 DEF PayAtGateway, withdrawing, IInv, PaymentsTypeOK, RowsFilled
  <2>2. CASE \E u \in Users, amount \in Amounts : AddBalance(u, amount)
    <3>1. PICK u \in Users, amount \in Amounts : AddBalance(u, amount)
      BY <2>2
    <3>. DEFINE row == [status |-> "COMPLETED", user |-> None, amount |-> Rounded(amount)]
    <3>2. PICK t \in Fundings : /\ fundings[t].status = "unborn"
                                /\ fundings' = [fundings EXCEPT ![t] = row]
      BY <3>1 DEF AddBalance
    <3>3. /\ wallets' \in [Users -> Int] /\ UNCHANGED gateway
          /\ halves' \in [withdrawn : Nat, deposited : Nat]
      <4>1. wallets[u] \in Int /\ amount \in Int /\ HalfCent(amount) \in Nat
        BY Numbers DEF IInv, PaymentsTypeOK
      <4>2. Rounded(10 * wallets[u] + amount) \in Int
        BY <4>1, RoundedIsInt
      <4>3. wallets' \in [Users -> Int]
        BY <3>1, <4>2 DEF AddBalance, IInv, PaymentsTypeOK
      <4>4. UNCHANGED gateway /\ halves' \in [withdrawn : Nat, deposited : Nat]
        BY <3>1, <4>1 DEF AddBalance, IInv, PaymentsTypeOK
      <4>. QED  BY <4>3, <4>4
    <3>4. row \in FundingRow
      BY Numbers DEF FundingRow
    <3>5. fundings' \in [Fundings -> FundingRow]
      BY <3>2, <3>4 DEF IInv, PaymentsTypeOK
    <3>6. fundings[t].user \notin Users /\ gateway[t] = "unknown"
      BY <3>2 DEF IInv, RowsFilled
    <3>7. \A x \in Fundings : fundings'[x] = IF x = t THEN row ELSE fundings[x]
      BY <3>2 DEF IInv, PaymentsTypeOK
    <3>8. row.status = "COMPLETED"
      OBVIOUS
    <3>. HIDE DEF row
    <3>. QED  BY <3>3, <3>5, <3>6, <3>7, <3>8 DEF IInv, PaymentsTypeOK, RowsFilled
  <2>. QED  BY <2>1, <2>2
<1>3. RowsEvolve
  BY <1>1, <1>2 DEF RowsEvolve
<1>4. Snapshots' /\ inflight' \in [Requests -> Request]
  BY <1>1, <1>3, SnapshotsSurvive
<1>. QED  BY <1>1, <1>2, <1>4 DEF IInv, PaymentsTypeOK, RowsFilled, AuditTrail

\* Nothing is stored.
LEMMA InitIInv ==
  ASSUME Init
  PROVE  IInv
<1>. USE DEF Init, NoMethod, NoWithdraw, NoFunding
<1>1. PaymentsTypeOK
  BY IdleSnapshot DEF PaymentsTypeOK, MethodRow, WithdrawRow, FundingRow
<1>2. RowsFilled /\ AuditTrail
  BY PaymentsAssumption DEF RowsFilled, AuditTrail
<1>3. Snapshots
  BY IdleSnapshot DEF Snapshots
<1>. QED  BY <1>1, <1>2, <1>3 DEF IInv

\* IInv is inductive.
LEMMA NextKeepsIInv ==
  ASSUME IInv, [Next]_vars
  PROVE  IInv'
<1>1. ASSUME NEW r \in Requests, Abort(r)  PROVE IInv'
  BY <1>1, IdleSnapshot, ReadersKeepIInv DEF Abort, Finish
<1>2. CASE UNCHANGED vars
  <2>. USE <1>2 DEF vars
  <2>1. RowsEvolve
    BY DEF RowsEvolve
  <2>2. Snapshots'
    BY <2>1, SnapshotsSurvive
  <2>. QED  BY <2>2 DEF IInv, PaymentsTypeOK, RowsFilled, AuditTrail
<1>. QED  BY <1>1, <1>2, TopupsKeepIInv, UserStepsKeepIInv, AdminStepsKeepIInv, OutsideKeepsIInv
          DEF Next

\* IInv is an inductive invariant of every interleaving.
THEOREM PaymentsInductive == Spec => []IInv
<1>1. Init => IInv
  BY InitIInv
<1>2. IInv /\ [Next]_vars => IInv'
  BY NextKeepsIInv
<1>. QED  BY <1>1, <1>2, PTL DEF Spec

\* The tables and the handlers' locals keep their shape.
THEOREM PaymentsTypeCorrect == Spec => []PaymentsTypeOK
BY PaymentsInductive, PTL DEF IInv

\* Whatever overwrites a status, the row names who is responsible, and a sent
\* request is booked.
THEOREM RowsAreSigned == Spec => []AuditTrail
BY PaymentsInductive, PTL DEF IInv
=============================================================================
