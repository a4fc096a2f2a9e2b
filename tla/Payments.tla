------------------------------ MODULE Payments ------------------------------
(***************************************************************************)
(* Money entering and leaving the API: top-ups through the payment gateway *)
(* and its webhook, and withdrawals, which an admin locks, approves or     *)
(* rejects, pays by hand and marks as sent.                                *)
(*                                                                         *)
(* As in JobEscrow a handler is a request of its own: what it reads before *)
(* its writes may be stale when it writes, and its writes are one step     *)
(* (one statement or one `$transaction').                                  *)
(***************************************************************************)
EXTENDS Integers, FiniteSets

CONSTANTS
  Users,         \* owners of wallets
  Admins,        \* users with role admin
  Methods,       \* rows of table withdraw_methods that may ever be created
  Withdrawals,   \* rows of table withdraw_requests that may ever be created
  Fundings,      \* rows of type FUNDING that top-ups may ever create in table transactions
  Requests,      \* handlers the server may be executing
  None,          \* SQL NULL for a reference
  Amounts,       \* amounts of top-ups and withdrawals as callers send them, in tenths of a cent
  WithdrawFee,   \* value of the fee `withdraw_fee', in cents
  MethodLimit,   \* withdraw methods a user may have (5 in the code)
  MaxBalance,    \* the largest number the column wallets.balance can hold, in cents
  MaxInFlight    \* bound: handlers between their first read and their commit

\* Callers may send any number of decimals, the columns have two: PostgreSQL rounds what
\* an INSERT or an UPDATE stores to whole cents, half a cent away from zero.  A tenth of a
\* cent tells less than a half, a half and more than a half apart.
Rounded(tenths) ==
  IF tenths >= 0 THEN (tenths + 5) \div 10 ELSE -((5 - tenths) \div 10)

\* An amount as a row stores it.
Stored == {Rounded(amount) : amount \in Amounts}

\* 1 if the amount ends in exactly half a cent.
HalfCent(amount) == IF amount % 10 = 5 THEN 1 ELSE 0

ASSUME PaymentsAssumption ==
  /\ None \notin Users \cup Admins \cup Methods
  /\ WithdrawFee \in Nat
  /\ \A amount \in Amounts : amount \in Nat /\ Rounded(amount) > WithdrawFee
  /\ MethodLimit \in Nat
  /\ MaxBalance \in Nat
  /\ MaxInFlight \in Nat \ {0}

\* Tables, the users among them, are finite, and so are the handlers of a server.
ASSUME PaymentsFiniteness ==
  /\ IsFiniteSet(Users) /\ IsFiniteSet(Methods) /\ IsFiniteSet(Withdrawals)
  /\ IsFiniteSet(Fundings) /\ IsFiniteSet(Requests)

VARIABLES
  wallets,    \* balance of each user
  platform,   \* balance of the platform wallet
  methods,    \* table withdraw_methods
  requests,   \* table withdraw_requests
  booked,     \* status of the WITHDRAWAL row of table transactions made with each request
  fundings,   \* the FUNDING rows of table transactions that top-ups make
  gateway,    \* what the payment gateway knows of each funding
  inflight,   \* what each handler holds in its local variables
  halves      \* history: withdrawals, and deposits of admins, that ended in half a cent

vars == <<wallets, platform, methods, requests, booked, fundings, gateway, inflight, halves>>

WithdrawStatus == {"PENDING", "PROCESSING", "APPROVED", "REJECTED", "SENT"}

MethodRow == [status : {"unborn", "active", "deleted"}, user : Users \cup {None}]
WithdrawRow == [status : WithdrawStatus \cup {"unborn"}, user : Users \cup {None},
                method : Methods \cup {None}, amount : Stored \cup {0},
                lockedBy : Admins \cup {None}, approvedBy : Admins \cup {None},
                rejectedBy : Admins \cup {None}]
FundingRow == [status : {"unborn", "PENDING", "COMPLETED"}, user : Users \cup {None},
               amount : Stored \cup {0}]

NoMethod(s) == [status |-> s, user |-> None]
NoWithdraw  == [status |-> "unborn", user |-> None, method |-> None, amount |-> 0,
                lockedBy |-> None, approvedBy |-> None, rejectedBy |-> None]
NoFunding   == [status |-> "unborn", user |-> None, amount |-> 0]

Idle == [op |-> "idle"]

\* A handler in flight: its next step, its parameters and what it has read.
Request ==
  {Idle}
  \cup [op : {"charge", "settle"}, funding : Fundings]
  \cup [op : {"addMethod"}, user : Users]
  \cup [op : {"deleteMethod"}, method : Methods]
  \cup [op : {"checkBalance", "withdraw"}, user : Users, method : Methods, amount : Amounts]
  \cup [op : {"lock", "approve", "reject"}, withdrawal : Withdrawals, admin : Admins]
  \cup [op : {"unlock", "send"}, withdrawal : Withdrawals]

\* Shape of the tables and of the handlers' locals.
PaymentsTypeOK ==
  /\ wallets \in [Users -> Int]
  /\ platform \in Int
  /\ methods \in [Methods -> MethodRow]
  /\ requests \in [Withdrawals -> WithdrawRow]
  /\ booked \in [Withdrawals -> {"none", "PENDING", "COMPLETED"}]
  /\ fundings \in [Fundings -> FundingRow]
  /\ gateway \in [Fundings -> {"unknown", "charged", "settled"}]
  /\ inflight \in [Requests -> Request]
  /\ halves \in [withdrawn : Nat, deposited : Nat]

Init ==
  /\ wallets = [u \in Users |-> 0]
  /\ platform = 0
  /\ methods = [m \in Methods |-> NoMethod("unborn")]
  /\ requests = [w \in Withdrawals |-> NoWithdraw]
  /\ booked = [w \in Withdrawals |-> "none"]
  /\ fundings = [t \in Fundings |-> NoFunding]
  /\ gateway = [t \in Fundings |-> "unknown"]
  /\ inflight = [r \in Requests |-> Idle]
  /\ halves = [withdrawn |-> 0, deposited |-> 0]

-----------------------------------------------------------------------------
(***************************************************************************)
(* Frames, and the steps every handler shares.                             *)
(***************************************************************************)
withdrawing == <<platform, methods, requests, booked>>
topups      == <<fundings, gateway>>
db          == <<wallets, withdrawing, topups, halves>>

Load == Cardinality({r \in Requests : inflight[r] # Idle})

May(r) == inflight[r] = Idle /\ Load < MaxInFlight

Proceed(r, q) == inflight' = [inflight EXCEPT ![r] = q]

\* The first read of a handler: it goes in flight with what it read.
Begin(r, q) == May(r) /\ Proceed(r, q) /\ UNCHANGED db

\* The handler's commit: it answers and leaves.
Finish(r) == Proceed(r, Idle)

\* A failed guard or constraint, a lost connection, a timeout, a crash.
Abort(r) == inflight[r] # Idle /\ Finish(r) /\ UNCHANGED db

\* DECIMAL(12,2): a credit that does not fit raises an error.
Credit(u, amount) ==
  /\ wallets[u] + amount <= MaxBalance
  /\ wallets' = [wallets EXCEPT ![u] = @ + amount]

-----------------------------------------------------------------------------
(***************************************************************************)
(* Top-ups: a PENDING row, a call to the gateway, the user pays there, and *)
(* the gateway reports the settlement, once or several times.              *)
(***************************************************************************)

\* The row is there before the gateway is called; if the call fails it stays PENDING.
CreateTopup(r, u, amount) ==
  /\ May(r)
  /\ \E t \in Fundings :
       /\ fundings[t].status = "unborn"
       /\ fundings' = [fundings EXCEPT ![t] =
                         [status |-> "PENDING", user |-> u, amount |-> Rounded(amount)]]
       /\ Proceed(r, [op |-> "charge", funding |-> t])
  /\ UNCHANGED <<wallets, withdrawing, gateway, halves>>

Charge(r) ==
  /\ inflight[r].op = "charge"
  /\ gateway' = [gateway EXCEPT ![inflight[r].funding] = "charged"]
  /\ Finish(r)
  /\ UNCHANGED <<wallets, withdrawing, fundings, halves>>

\* The user pays at the gateway.
PayAtGateway(t) ==
  /\ gateway[t] = "charged"
  /\ gateway' = [gateway EXCEPT ![t] = "settled"]
  /\ UNCHANGED <<wallets, withdrawing, fundings, inflight, halves>>

\* A delivery of the settlement; for a row that is COMPLETED it changes nothing.
WebhookRead(r, t) ==
  /\ gateway[t] = "settled"
  /\ fundings[t].status # "COMPLETED"
  /\ Begin(r, [op |-> "settle", funding |-> t])

\* Slip: the gateway's word for it is stored as the status.
MarkSettled(t) == fundings' = [fundings EXCEPT ![t].status = "settlement"]

MarkCompleted(t) == fundings' = [fundings EXCEPT ![t].status = "COMPLETED"]

WebhookCommit(r) ==
  /\ inflight[r].op = "settle"
  /\ LET t == inflight[r].funding IN
       /\ Credit(fundings[t].user, fundings[t].amount)
       /\ MarkCompleted(t)
  /\ Finish(r)
  /\ UNCHANGED <<withdrawing, gateway, halves>>

\* An admin's deposit: credit and COMPLETED row in one transaction.  The balance and the
\* amount of the row are rounded each by its column.
AddBalance(u, amount) ==
  /\ Load < MaxInFlight
  /\ Rounded(10 * wallets[u] + amount) <= MaxBalance
  /\ wallets' = [wallets EXCEPT ![u] = Rounded(10 * @ + amount)]
  /\ \E t \in Fundings :
       /\ fundings[t].status = "unborn"
       /\ fundings' = [fundings EXCEPT ![t] =
                         [status |-> "COMPLETED", user |-> None, amount |-> Rounded(amount)]]
  /\ halves' = [halves EXCEPT !.deposited = @ + HalfCent(amount)]
  /\ UNCHANGED <<withdrawing, gateway, inflight>>

-----------------------------------------------------------------------------
(***************************************************************************)
(* Withdraw methods.                                                       *)
(***************************************************************************)
MethodsOf(u) == {m \in Methods : methods[m].status = "active" /\ methods[m].user = u}

\* Slip: one method too many.
CountMethodsOffByOne(r, u) ==
  /\ Cardinality(MethodsOf(u)) <= MethodLimit
  /\ Begin(r, [op |-> "addMethod", user |-> u])

CountMethods(r, u) ==
  /\ Cardinality(MethodsOf(u)) < MethodLimit
  /\ Begin(r, [op |-> "addMethod", user |-> u])

AddMethod(r) ==
  /\ inflight[r].op = "addMethod"
  /\ \E m \in Methods :
       /\ methods[m].status = "unborn"
       /\ methods' = [methods EXCEPT ![m] = [status |-> "active", user |-> inflight[r].user]]
  /\ Finish(r)
  /\ UNCHANGED <<wallets, platform, requests, booked, topups, halves>>

DeleteMethodRead(r, m) ==
  /\ methods[m].status = "active"
  /\ Begin(r, [op |-> "deleteMethod", method |-> m])

\* withdraw_requests.method_id RESTRICTs the deletion.
DeleteMethodCommit(r) ==
  /\ inflight[r].op = "deleteMethod"
  /\ LET m == inflight[r].method IN
       /\ methods[m].status = "active"
       /\ \A w \in Withdrawals : requests[w].method # m
       /\ methods' = [methods EXCEPT ![m] = NoMethod("deleted")]
  /\ Finish(r)
  /\ UNCHANGED <<wallets, platform, requests, booked, topups, halves>>

-----------------------------------------------------------------------------
(***************************************************************************)
(* A user asks for a withdrawal: the amount leaves the wallet at once, the *)
(* fee is earned at once.                                                  *)
(***************************************************************************)
FindMethod(r, u, m, amount) ==
  /\ methods[m].status = "active" /\ methods[m].user = u
  /\ Begin(r, [op |-> "checkBalance", user |-> u, method |-> m, amount |-> amount])

\* Slip: the balance is compared with nothing.
CheckNoBalance(r) ==
  /\ inflight[r].op = "checkBalance"
  /\ Proceed(r, [inflight[r] EXCEPT !.op = "withdraw"])
  /\ UNCHANGED db

CheckBalance(r) ==
  /\ inflight[r].op = "checkBalance"
  /\ 10 * wallets[inflight[r].user] >= inflight[r].amount
  /\ Proceed(r, [inflight[r] EXCEPT !.op = "withdraw"])
  /\ UNCHANGED db

\* The decremented balance is rounded, and so, by themselves, are the amounts of the rows.
Withdraw(r) ==
  /\ inflight[r].op = "withdraw"
  /\ LET q == inflight[r] IN
       /\ methods[q.method].status = "active"
       /\ \E w \in Withdrawals :
            /\ requests[w].status = "unborn"
            /\ requests' = [requests EXCEPT ![w] =
                 [NoWithdraw EXCEPT !.status = "PENDING", !.user = q.user,
                                    !.method = q.method, !.amount = Rounded(q.amount)]]
            /\ booked' = [booked EXCEPT ![w] = "PENDING"]
       /\ wallets' = [wallets EXCEPT ![q.user] = Rounded(10 * @ - q.amount)]
       /\ platform' = platform + WithdrawFee
       /\ halves' = [halves EXCEPT !.withdrawn = @ + HalfCent(q.amount)]
  /\ Finish(r)
  /\ UNCHANGED <<methods, topups>>

-----------------------------------------------------------------------------
(***************************************************************************)
(* Admins: lock, unlock, approve, reject, send.  Every update is by id     *)
(* alone, whatever the row holds by then.                                  *)
(***************************************************************************)
LockRead(r, w, a) ==
  /\ requests[w].status = "PENDING"
  /\ requests[w].lockedBy \in {None, a}
  /\ Begin(r, [op |-> "lock", withdrawal |-> w, admin |-> a])

LockCommit(r) ==
  /\ inflight[r].op = "lock"
  /\ requests' = [requests EXCEPT ![inflight[r].withdrawal].status = "PROCESSING",
                                  ![inflight[r].withdrawal].lockedBy = inflight[r].admin]
  /\ Finish(r)
  /\ UNCHANGED <<wallets, platform, methods, booked, topups, halves>>

\* The request is being worked on, by this admin.
LockedBy(w, a) == requests[w].status = "PROCESSING" /\ requests[w].lockedBy = a

UnlockRead(r, w, a) ==
  /\ LockedBy(w, a)
  /\ Begin(r, [op |-> "unlock", withdrawal |-> w])

\* Slip: the admin's name stays in the row.
UnlockKeepingAdmin(w) == requests' = [requests EXCEPT ![w].status = "PENDING"]

Unlock(w) == requests' = [requests EXCEPT ![w].status = "PENDING", ![w].lockedBy = None]

UnlockCommit(r) ==
  /\ inflight[r].op = "unlock"
  /\ Unlock(inflight[r].withdrawal)
  /\ Finish(r)
  /\ UNCHANGED <<wallets, platform, methods, booked, topups, halves>>

\* Slip: an admin approves what another one has locked.
ApproveReadByAnybody(r, w, a) ==
  /\ requests[w].status = "PROCESSING"
  /\ Begin(r, [op |-> "approve", withdrawal |-> w, admin |-> a])

ApproveRead(r, w, a) ==
  /\ LockedBy(w, a)
  /\ Begin(r, [op |-> "approve", withdrawal |-> w, admin |-> a])

ApproveCommit(r) ==
  /\ inflight[r].op = "approve"
  /\ requests' = [requests EXCEPT ![inflight[r].withdrawal].status = "APPROVED",
                                  ![inflight[r].withdrawal].approvedBy = inflight[r].admin]
  /\ Finish(r)
  /\ UNCHANGED <<wallets, platform, methods, booked, topups, halves>>

RejectRead(r, w, a) ==
  /\ LockedBy(w, a)
  /\ Begin(r, [op |-> "reject", withdrawal |-> w, admin |-> a])

\* Slips: the user, or the platform, keeps what is the other's.
RefundNothing(w)    == wallets' = wallets /\ platform' = platform - WithdrawFee
RefundKeepingFee(w) == Credit(requests[w].user, requests[w].amount) /\ platform' = platform

\* The whole amount goes back to the user, the fee is taken from the platform.
Refund(w) ==
  /\ Credit(requests[w].user, requests[w].amount)
  /\ platform' = platform - WithdrawFee

RejectCommit(r) ==
  /\ inflight[r].op = "reject"
  /\ Refund(inflight[r].withdrawal)
  /\ requests' = [requests EXCEPT ![inflight[r].withdrawal].status = "REJECTED",
                                  ![inflight[r].withdrawal].rejectedBy = inflight[r].admin]
  /\ Finish(r)
  /\ UNCHANGED <<methods, booked, topups, halves>>

SendRead(r, w) ==
  /\ requests[w].status = "APPROVED"
  /\ Begin(r, [op |-> "send", withdrawal |-> w])

\* Every PENDING row of that wallet and amount is completed: the rows have no
\* reference to the request they were made for.
Book(w) ==
  booked' = [v \in Withdrawals |->
    IF booked[v] = "PENDING" /\ requests[v].user = requests[w].user
                             /\ requests[v].amount = requests[w].amount
    THEN "COMPLETED" ELSE booked[v]]

SendCommit(r) ==
  /\ inflight[r].op = "send"
  /\ LET w == inflight[r].withdrawal IN
       /\ requests' = [requests EXCEPT ![w].status = "SENT"]
       /\ Book(w)
  /\ Finish(r)
  /\ UNCHANGED <<wallets, platform, methods, topups, halves>>

-----------------------------------------------------------------------------
TopupStep(r) ==
  \/ \E u \in Users, amount \in Amounts : CreateTopup(r, u, amount)
  \/ Charge(r)
  \/ \E t \in Fundings : WebhookRead(r, t)
  \/ WebhookCommit(r)

UserStep(r) ==
  \/ \E u \in Users : CountMethods(r, u)
  \/ AddMethod(r)
  \/ \E m \in Methods : DeleteMethodRead(r, m)
  \/ DeleteMethodCommit(r)
  \/ \E u \in Users, m \in Methods, amount \in Amounts : FindMethod(r, u, m, amount)
  \/ CheckBalance(r)
  \/ Withdraw(r)

AdminStep(r) ==
  \/ \E w \in Withdrawals, a \in Admins :
       LockRead(r, w, a) \/ UnlockRead(r, w, a) \/ ApproveRead(r, w, a) \/ RejectRead(r, w, a)
  \/ LockCommit(r)
  \/ UnlockCommit(r)
  \/ ApproveCommit(r)
  \/ RejectCommit(r)
  \/ \E w \in Withdrawals : SendRead(r, w)
  \/ SendCommit(r)

Next ==
  \/ \E r \in Requests : TopupStep(r) \/ UserStep(r) \/ AdminStep(r) \/ Abort(r)
  \/ \E t \in Fundings : PayAtGateway(t)
  \/ \E u \in Users, amount \in Amounts : AddBalance(u, amount)

Spec == Init /\ [][Next]_vars

-----------------------------------------------------------------------------
(***************************************************************************)
(* What holds however the handlers interleave.                             *)
(***************************************************************************)

\* The row says who is responsible: nobody holds a waiting request, somebody holds
\* one in progress, and an approval or a rejection is signed; a sent request's
\* ledger row is COMPLETED.  (Stale updates overwrite the status, never these.)
AuditTrail ==
  \A w \in Withdrawals : LET row == requests[w] IN
    /\ row.status = "PENDING"    => row.lockedBy = None
    /\ row.status = "PROCESSING" => row.lockedBy # None
    /\ row.status = "APPROVED"   => row.approvedBy # None
    /\ row.status = "REJECTED"   => row.rejectedBy # None
    /\ row.status = "SENT"       => row.approvedBy # None /\ booked[w] = "COMPLETED"

-----------------------------------------------------------------------------
(***************************************************************************)
(* What holds when handlers run one after the other (MaxInFlight = 1), or  *)
(* what the checks and messages of the code claim.                         *)
(***************************************************************************)

\* Nobody owes the system, and neither does the platform.
\* (The balance check of createWithdrawRequest; a refund takes back a fee that was earned.)
NoDebt == platform >= 0 /\ \A u \in Users : wallets[u] >= 0

\* The legal life of a withdrawal.
Successors(s) ==
  CASE s = "unborn"     -> {"PENDING"}
    [] s = "PENDING"    -> {"PROCESSING"}
    [] s = "PROCESSING" -> {"PENDING", "APPROVED", "REJECTED"}
    [] s = "APPROVED"   -> {"SENT"}
    [] OTHER            -> {}

\* A request only moves along its life, and while it is in progress only the admin
\* who locked it decides.  (The status and lock checks of the five admin handlers.)
WithdrawalLifecycle ==
  [][\A w \in Withdrawals : LET old == requests[w]  new == requests'[w] IN
       /\ new.status \in {old.status} \cup Successors(old.status)
       /\ new.status = "APPROVED" /\ old.status # "APPROVED" => new.approvedBy = old.lockedBy
       /\ new.status = "REJECTED" /\ old.status # "REJECTED" => new.rejectedBy = old.lockedBy]_vars

\* A user has at most MethodLimit methods, and the method of a request is never
\* deleted.  (The count in addWithdrawMethod, RESTRICT in the schema.)
MethodsAreKept ==
  /\ \A u \in Users : Cardinality(MethodsOf(u)) <= MethodLimit
  /\ \A w \in Withdrawals : requests[w].status # "unborn" =>
       requests[w].method \in MethodsOf(requests[w].user)

\* What went back to the user's wallet was not sent to their bank: the ledger row of
\* a rejected request is not COMPLETED.  (The status checks of reject and send.)
RefundedIsNotSent ==
  \A w \in Withdrawals : requests[w].status = "REJECTED" => booked[w] # "COMPLETED"
=============================================================================
