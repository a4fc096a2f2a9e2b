----------------------------- MODULE JobEscrow -----------------------------
(***************************************************************************)
(* The job marketplace core of the API: job postings, applications, the    *)
(* escrow that holds an employer's money while a worker works, and the     *)
(* cron that pays for work nobody reviewed.                                *)
(*                                                                         *)
(* Every HTTP handler runs as a request of its own.  Each `await' that     *)
(* reads rows somebody else may change is a step; what the handler read    *)
(* travels in `inflight[r]' and may be stale by the time it is used.  The  *)
(* writes of a handler are one statement or one `$transaction', hence one  *)
(* step: PostgreSQL keeps the row locks until the commit, every write is   *)
(* absolute or an increment, and a failing statement undoes the others.    *)
(***************************************************************************)
EXTENDS Integers, FiniteSets

CONSTANTS
  Jobs,          \* rows of table jobs that may ever be created
  Apps,          \* rows of table job_applications that may ever be created
  Providers,     \* users with role PEMBERI_KERJA
  Workers,       \* users with role PEKERJA
  None,          \* SQL NULL for a reference
  Requests,      \* handlers the server may be executing
  Loops,         \* loops of the cron that may run at the same time
  Amounts,       \* compensations and deposits, in cents
  FeePercent,    \* value of the active `escrow_fee'
  Funders,       \* users that top up their wallet
  MaxBalance,    \* the largest number the column wallets.balance can hold
  MaxFunding,    \* bound: total of all deposits
  Suspendable,   \* users an admin may suspend, close or re-activate
  MaxInFlight    \* bound: handlers and cron loops between their first read and their commit

ASSUME PartiesAssumption ==
  /\ Providers \cap Workers = {}
  /\ None \notin Jobs \cup Apps \cup Providers \cup Workers
  /\ Funders \cup Suspendable \subseteq Providers \cup Workers

\* Tables, the users among them, are finite, and so are the handlers and loops of a server.
ASSUME FinitenessAssumption ==
  /\ IsFiniteSet(Jobs) /\ IsFiniteSet(Providers \cup Workers)
  /\ IsFiniteSet(Requests) /\ IsFiniteSet(Loops)

ASSUME AmountAssumption ==
  /\ Amounts \subseteq Nat \ {0}
  /\ FeePercent \in 0..100
  /\ MaxBalance \in Nat
  /\ MaxFunding \in Nat
  /\ MaxInFlight \in Nat \ {0}

VARIABLES
  jobs,          \* table jobs
  applications,  \* table job_applications
  escrows,       \* table escrows, keyed by its UNIQUE job_id
  ledger,        \* status of the row of table transactions with this job_id (UNIQUE)
  wallets,       \* table wallets, keyed by its UNIQUE user_id
  platform,      \* balance of the platform wallet
  inflight,      \* what each handler holds in its local variables
  cron,          \* what each loop of handleAutoApproveJobs holds in its local variables
  funded         \* history: all money that entered the system

vars == <<jobs, applications, escrows, ledger, wallets, platform, inflight, cron, funded>>

Users == Providers \cup Workers

Undecided == {"PENDING", "UNDER_REVIEW"}
Blocked   == {"SUSPENDED", "CLOSED"}
JobStatus == {"OPEN", "ASSIGNED", "IN_PROGRESS", "COMPLETED", "REJECTED",
              "APPROVED", "CANCELLED"}

JobRow == [status : JobStatus \cup {"unborn", "deleted"}, provider : Providers \cup {None},
           worker : Workers \cup {None}, compensation : Amounts \cup {0}, aged : BOOLEAN]
ApplicationRow == [status : Undecided \cup {"ACCEPTED", "REJECTED", "unborn", "deleted"},
                   job : Jobs \cup {None}, worker : Workers \cup {None}]
EscrowRow == [status : {"none", "HELD", "RELEASED"}, amount : Amounts \cup {0},
              worker : Workers \cup {None}]
WalletRow == [balance : Int, status : {"ACTIVE"} \cup Blocked]

NoJob(s)         == [status |-> s, provider |-> None, worker |-> None,
                     compensation |-> 0, aged |-> FALSE]
NoApplication(s) == [status |-> s, job |-> None, worker |-> None]
NoEscrow         == [status |-> "none", amount |-> 0, worker |-> None]

JobExists(j)         == jobs[j].status \in JobStatus
ApplicationExists(a) == applications[a].status \notin {"unborn", "deleted"}

(***************************************************************************)
(* A handler in flight: `op' names the step it will take next, the other   *)
(* fields are the request's parameters and the rows it has read.           *)
(***************************************************************************)
Idle == [op |-> "idle"]

Request ==
  {Idle}
  \cup [op : {"createJob"}, provider : Providers, compensation : Amounts]
  \cup [op : {"updateJob"}, job : Jobs, compensation : Amounts \cup {0}]
  \cup [op : {"deleteJob", "cancelJob", "rejectJob"}, job : Jobs]
  \cup [op : {"workerStatus"}, job : Jobs, status : {"IN_PROGRESS", "COMPLETED"}]
  \cup [op : {"approveJob"}, job : Jobs, worker : Workers]
  \cup [op : {"applyDuplicate", "applyWallet", "applyCreate"}, job : Jobs, worker : Workers]
  \cup [op : {"review"}, app : Apps, status : {"REJECTED", "UNDER_REVIEW"}]
  \cup [op : {"cancelApplication"}, app : Apps]
  \cup [op : {"acceptJob"}, app : Apps, job : Jobs, worker : Workers]
  \cup [op : {"acceptBalance", "acceptCommit"}, app : Apps, job : Jobs, worker : Workers,
        amount : Amounts]

\* A row the cron has fetched, and a loop over such rows: `at' is the row whose
\* transaction runs, `queue' it and the ones behind it.
Fetched == [job : Jobs, worker : Workers \cup {None}]
NoLoop  == [queue |-> {}, at |-> None]

TypeOK ==
  /\ jobs \in [Jobs -> JobRow]
  /\ applications \in [Apps -> ApplicationRow]
  /\ escrows \in [Jobs -> EscrowRow]
  /\ ledger \in [Jobs -> {"none", "PENDING", "COMPLETED"}]
  /\ wallets \in [Users -> WalletRow]
  /\ platform \in Int
  /\ inflight \in [Requests -> Request]
  /\ cron \in [Loops -> [queue : SUBSET Fetched, at : Fetched \cup {None}]]
  /\ funded \in Nat

Init ==
  /\ jobs = [j \in Jobs |-> NoJob("unborn")]
  /\ applications = [a \in Apps |-> NoApplication("unborn")]
  /\ escrows = [j \in Jobs |-> NoEscrow]
  /\ ledger = [j \in Jobs |-> "none"]
  /\ wallets = [u \in Users |-> [balance |-> 0, status |-> "ACTIVE"]]
  /\ platform = 0
  /\ inflight = [r \in Requests |-> Idle]
  /\ cron = [l \in Loops |-> NoLoop]
  /\ funded = 0

(***************************************************************************)
(* Frames, and the steps every handler shares.                             *)
(***************************************************************************)
money == <<escrows, ledger, wallets, platform, funded>>
db    == <<jobs, applications, money>>

Load == Cardinality({r \in Requests : inflight[r] # Idle})
          + Cardinality({l \in Loops : cron[l] # NoLoop})

\* The first read of a handler: it goes in flight with what it read.
Begin(r, q) ==
  /\ inflight[r] = Idle
  /\ Load < MaxInFlight
  /\ inflight' = [inflight EXCEPT ![r] = q]
  /\ UNCHANGED <<db, cron>>

\* A later read: same handler, next step.
Continue(r, q) ==
  /\ inflight' = [inflight EXCEPT ![r] = q]
  /\ UNCHANGED <<db, cron>>

\* The handler's commit: it answers and leaves.
Finish(r) ==
  /\ inflight' = [inflight EXCEPT ![r] = Idle]
  /\ UNCHANGED cron

\* A guard that fails after the first read, a violated constraint, a lost
\* connection, a timeout of the transaction, a crash: nothing is written.
Abort(r) ==
  /\ inflight[r] # Idle
  /\ inflight' = [inflight EXCEPT ![r] = Idle]
  /\ UNCHANGED <<db, cron>>

\* jobs.updated_at is @updatedAt: every write of the row makes it young again.
WriteJob(j, row) == jobs' = [jobs EXCEPT ![j] = [row EXCEPT !.aged = FALSE]]
SetStatus(j, s)  == WriteJob(j, [jobs[j] EXCEPT !.status = s])

\* balance is DECIMAL(12,2): a credit that does not fit raises an error.
Fits(u, amount) == wallets[u].balance + amount <= MaxBalance

Credit(u, amount) ==
  /\ Fits(u, amount)
  /\ wallets' = [wallets EXCEPT ![u].balance = @ + amount]

Debit(u, amount) == wallets' = [wallets EXCEPT ![u].balance = @ - amount]

-----------------------------------------------------------------------------
(***************************************************************************)
(* Jobs: create, update, delete.                                           *)
(***************************************************************************)
\* Slip: only suspended wallets are refused.
CreateJobCheckSuspended(r, p, c) ==
  /\ wallets[p].status # "SUSPENDED"
  /\ Begin(r, [op |-> "createJob", provider |-> p, compensation |-> c])

CreateJobCheck(r, p, c) ==
  /\ wallets[p].status \notin Blocked
  /\ Begin(r, [op |-> "createJob", provider |-> p, compensation |-> c])

CreateJobCommit(r) ==
  /\ inflight[r].op = "createJob"
  /\ \E j \in Jobs :
       /\ jobs[j].status = "unborn"
       /\ WriteJob(j, [NoJob("OPEN") EXCEPT !.provider = inflight[r].provider,
                                            !.compensation = inflight[r].compensation])
  /\ Finish(r)
  /\ UNCHANGED <<applications, money>>

\* Slip: a job that has a worker can still be edited.
UpdateJobReadOfHired(r, j, c) ==
  /\ JobExists(j)
  /\ jobs[j].status # "CANCELLED"
  /\ Begin(r, [op |-> "updateJob", job |-> j, compensation |-> c])

\* compensation 0: the optional field is left out of the request.
UpdateJobRead(r, j, c) ==
  /\ JobExists(j)
  /\ jobs[j].status # "CANCELLED"
  /\ jobs[j].worker = None
  /\ Begin(r, [op |-> "updateJob", job |-> j, compensation |-> c])

UpdateJobCommit(r) ==
  /\ inflight[r].op = "updateJob"
  /\ LET q == inflight[r] IN
       /\ JobExists(q.job)
       /\ WriteJob(q.job, [jobs[q.job] EXCEPT !.compensation =
                             IF q.compensation = 0 THEN @ ELSE q.compensation])
  /\ Finish(r)
  /\ UNCHANGED <<applications, money>>

DeleteJobRead(r, j) ==
  /\ JobExists(j)
  /\ jobs[j].worker = None
  /\ Begin(r, [op |-> "deleteJob", job |-> j])

\* Foreign keys: job_applications RESTRICT, escrows CASCADE, transactions SET NULL.
DeleteJobCommit(r) ==
  /\ inflight[r].op = "deleteJob"
  /\ LET j == inflight[r].job IN
       /\ JobExists(j)
       /\ \A a \in Apps : applications[a].job # j
       /\ jobs' = [jobs EXCEPT ![j] = NoJob("deleted")]
       /\ escrows' = [escrows EXCEPT ![j] = NoEscrow]
       /\ ledger' = [ledger EXCEPT ![j] = "none"]
  /\ Finish(r)
  /\ UNCHANGED <<applications, wallets, platform, funded>>

-----------------------------------------------------------------------------
(***************************************************************************)
(* Progress of a job: the worker's and the employer's status updates.      *)
(***************************************************************************)
\* Slip: the job's worker is not compared with the caller.
WorkerStatusReadOfAnybody(r, j, s) ==
  /\ JobExists(j)
  /\ jobs[j].status # "APPROVED"
  /\ Begin(r, [op |-> "workerStatus", job |-> j, status |-> s])

\* Slip: a paid job can be reopened.
WorkerStatusReadAfterApproval(r, j, s) ==
  /\ JobExists(j)
  /\ jobs[j].worker # None
  /\ Begin(r, [op |-> "workerStatus", job |-> j, status |-> s])

WorkerStatusRead(r, j, s) ==
  /\ JobExists(j)
  /\ jobs[j].worker # None
  /\ jobs[j].status # "APPROVED"
  /\ Begin(r, [op |-> "workerStatus", job |-> j, status |-> s])

WorkerStatusCommit(r) ==
  /\ inflight[r].op = "workerStatus"
  /\ JobExists(inflight[r].job)
  /\ SetStatus(inflight[r].job, inflight[r].status)
  /\ Finish(r)
  /\ UNCHANGED <<applications, money>>

\* Slip: a job that has a worker can be cancelled.
CancelJobReadOfHired(r, j) ==
  /\ JobExists(j)
  /\ Begin(r, [op |-> "cancelJob", job |-> j])

CancelJobRead(r, j) ==
  /\ JobExists(j)
  /\ jobs[j].worker = None
  /\ Begin(r, [op |-> "cancelJob", job |-> j])

CancelJobCommit(r) ==
  /\ inflight[r].op = "cancelJob"
  /\ JobExists(inflight[r].job)
  /\ SetStatus(inflight[r].job, "CANCELLED")
  /\ Finish(r)
  /\ UNCHANGED <<applications, money>>

\* Slip: work that was not delivered can be rejected.
RejectJobReadOfAny(r, j) ==
  /\ JobExists(j)
  /\ Begin(r, [op |-> "rejectJob", job |-> j])

RejectJobRead(r, j) ==
  /\ jobs[j].status = "COMPLETED"
  /\ Begin(r, [op |-> "rejectJob", job |-> j])

RejectJobCommit(r) ==
  /\ inflight[r].op = "rejectJob"
  /\ JobExists(inflight[r].job)
  /\ SetStatus(inflight[r].job, "REJECTED")
  /\ Finish(r)
  /\ UNCHANGED <<applications, money>>

\* Slip: neither the status nor the worker of the job is checked.
ApproveJobReadOfAny(r, j) ==
  /\ JobExists(j)
  /\ Begin(r, [op |-> "approveJob", job |-> j, worker |-> jobs[j].worker])

ApproveJobRead(r, j) ==
  /\ jobs[j].status = "COMPLETED"
  /\ jobs[j].worker # None
  /\ Begin(r, [op |-> "approveJob", job |-> j, worker |-> jobs[j].worker])

\* Slips: one of the two rows of a payment is forgotten.
ReleaseEscrowOnly(j) ==
  /\ escrows' = [escrows EXCEPT ![j].status = IF @ = "none" THEN @ ELSE "RELEASED"]
  /\ ledger' = ledger

ReleaseLedgerOnly(j) ==
  /\ escrows' = escrows
  /\ ledger' = [ledger EXCEPT ![j] = "COMPLETED"]

\* The escrow is released (updateMany: if there is one), the ledger row completed.
Release(j) ==
  /\ escrows' = [escrows EXCEPT ![j].status = IF @ = "none" THEN @ ELSE "RELEASED"]
  /\ ledger' = [ledger EXCEPT ![j] = "COMPLETED"]

\* The columns have two decimals: PostgreSQL rounds what is added to a balance, half a
\* cent up.  Fee and net amount are rounded separately.
Rounded(hundredths) == (hundredths + 50) \div 100

EscrowFee(amount) == Rounded(amount * FeePercent)
NetAmount(amount) == Rounded(amount * 100 - amount * FeePercent)

\* The escrow and ledger rows must exist, or the transaction throws.
ApproveJobCommit(r) ==
  /\ inflight[r].op = "approveJob"
  /\ LET j == inflight[r].job IN
       /\ JobExists(j)
       /\ escrows[j].status # "none"
       /\ ledger[j] # "none"
       /\ SetStatus(j, "APPROVED")
       /\ Release(j)
       /\ Credit(inflight[r].worker, NetAmount(escrows[j].amount))
       /\ platform' = platform + EscrowFee(escrows[j].amount)
  /\ Finish(r)
  /\ UNCHANGED <<applications, funded>>

-----------------------------------------------------------------------------
(***************************************************************************)
(* Applications: apply, review, accept, withdraw the application.          *)
(* The table has no UNIQUE (job_id, worker_id).                            *)
(***************************************************************************)
ApplyFindJob(r, j, w) ==
  /\ jobs[j].status = "OPEN"
  /\ Begin(r, [op |-> "applyDuplicate", job |-> j, worker |-> w])

\* Slip: earlier applications are not looked up.
ApplyFindNoDuplicate(r) ==
  /\ inflight[r].op = "applyDuplicate"
  /\ Continue(r, [inflight[r] EXCEPT !.op = "applyWallet"])

ApplyFindDuplicate(r) ==
  /\ inflight[r].op = "applyDuplicate"
  /\ ~ \E a \in Apps : /\ applications[a].job = inflight[r].job
                       /\ applications[a].worker = inflight[r].worker
  /\ Continue(r, [inflight[r] EXCEPT !.op = "applyWallet"])

ApplyFindWallet(r) ==
  /\ inflight[r].op = "applyWallet"
  /\ wallets[inflight[r].worker].status \notin Blocked
  /\ Continue(r, [inflight[r] EXCEPT !.op = "applyCreate"])

\* The foreign key wants the job to exist still; nothing wants it OPEN.
ApplyCreate(r) ==
  /\ inflight[r].op = "applyCreate"
  /\ JobExists(inflight[r].job)
  /\ \E a \in Apps :
       /\ applications[a].status = "unborn"
       /\ applications' = [applications EXCEPT ![a] =
            [status |-> "PENDING", job |-> inflight[r].job, worker |-> inflight[r].worker]]
  /\ Finish(r)
  /\ UNCHANGED <<jobs, money>>

\* What updateApplicationStatus checks before it looks at the new status.
Reviewable(a) ==
  /\ applications[a].status \in Undecided
  /\ jobs[applications[a].job].status = "OPEN"

ReviewRead(r, a, s) ==
  /\ Reviewable(a)
  /\ Begin(r, [op |-> "review", app |-> a, status |-> s])

ReviewCommit(r) ==
  /\ inflight[r].op = "review"
  /\ LET q == inflight[r] IN
       /\ ApplicationExists(q.app)
       /\ applications' = [applications EXCEPT ![q.app].status = q.status]
  /\ Finish(r)
  /\ UNCHANGED <<jobs, money>>

AcceptRead(r, a) ==
  /\ Reviewable(a)
  /\ Begin(r, [op |-> "acceptJob", app |-> a, job |-> applications[a].job,
               worker |-> applications[a].worker])

\* Inside the transaction, under Read Committed: each read sees the latest commit.
AcceptReadJob(r) ==
  /\ inflight[r].op = "acceptJob"
  /\ LET q == inflight[r] IN
       /\ jobs[q.job].status = "OPEN"
       /\ Continue(r, [op |-> "acceptBalance", app |-> q.app, job |-> q.job,
                       worker |-> q.worker, amount |-> jobs[q.job].compensation])

\* Slip: the balance is compared with nothing.
AcceptWithoutBalance(r) ==
  /\ inflight[r].op = "acceptBalance"
  /\ JobExists(inflight[r].job)
  /\ Continue(r, [inflight[r] EXCEPT !.op = "acceptCommit"])

AcceptCheckBalance(r) ==
  /\ inflight[r].op = "acceptBalance"
  /\ LET q == inflight[r] IN
       /\ JobExists(q.job)
       /\ wallets[jobs[q.job].provider].balance >= q.amount
       /\ Continue(r, [q EXCEPT !.op = "acceptCommit"])

\* Slip: the tables have no UNIQUE job_id.
UnhiredOrNot(j) == j \in Jobs

\* UNIQUE escrows.job_id and transactions.job_id: a second hire of a job fails.
Unhired(j) == escrows[j].status = "none" /\ ledger[j] = "none"

\* Slip: the PENDING row of the ledger is not written.
HoldWithoutLedger(q) ==
  /\ Debit(jobs[q.job].provider, q.amount)
  /\ escrows' = [escrows EXCEPT ![q.job] =
       [status |-> "HELD", amount |-> q.amount, worker |-> q.worker]]
  /\ ledger' = ledger

\* The money leaves the employer's wallet for the escrow.
Hold(q) ==
  /\ Debit(jobs[q.job].provider, q.amount)
  /\ escrows' = [escrows EXCEPT ![q.job] =
       [status |-> "HELD", amount |-> q.amount, worker |-> q.worker]]
  /\ ledger' = [ledger EXCEPT ![q.job] = "PENDING"]

\* Slip: the other applicants are not told.
AcceptOnly(q) ==
  applications' = [applications EXCEPT ![q.app].status = "ACCEPTED"]

\* One application is accepted, the undecided others of the job are rejected.
AcceptOneRejectOthers(q) ==
  applications' = [a \in Apps |->
    CASE a = q.app -> [applications[a] EXCEPT !.status = "ACCEPTED"]
      [] a # q.app /\ applications[a].job = q.job /\ applications[a].status \in Undecided
           -> [applications[a] EXCEPT !.status = "REJECTED"]
      [] OTHER -> applications[a]]

AcceptCommit(r) ==
  /\ inflight[r].op = "acceptCommit"
  /\ LET q == inflight[r] IN
       /\ JobExists(q.job)
       /\ ApplicationExists(q.app)
       /\ Unhired(q.job)
       /\ Hold(q)
       /\ WriteJob(q.job, [jobs[q.job] EXCEPT !.status = "ASSIGNED", !.worker = q.worker])
       /\ AcceptOneRejectOthers(q)
  /\ Finish(r)
  /\ UNCHANGED <<platform, funded>>

CancelApplicationRead(r, a) ==
  /\ applications[a].status \in Undecided
  /\ Begin(r, [op |-> "cancelApplication", app |-> a])

CancelApplicationCommit(r) ==
  /\ inflight[r].op = "cancelApplication"
  /\ ApplicationExists(inflight[r].app)
  /\ applications' = [applications EXCEPT ![inflight[r].app] = NoApplication("deleted")]
  /\ Finish(r)
  /\ UNCHANGED <<jobs, money>>

-----------------------------------------------------------------------------
(***************************************************************************)
(* The cron: one findMany, then a transaction per job that does not look   *)
(* at the job's status again, and pays the worker of the row it fetched.   *)
(* The order of the result is unspecified, but an exception ends the whole *)
(* loop, so what comes first matters.  The timer starts a loop every ten   *)
(* minutes, also while earlier ones still run.                             *)
(***************************************************************************)
Due(j) == jobs[j].status = "COMPLETED" /\ jobs[j].aged

\* 24 hours pass without a write of the job's row.
Age(j) ==
  /\ jobs[j].status = "COMPLETED" /\ ~ jobs[j].aged
  /\ jobs' = [jobs EXCEPT ![j].aged = TRUE]
  /\ UNCHANGED <<applications, money, inflight, cron>>

DueRows == {[job |-> j, worker |-> jobs[j].worker] : j \in {i \in Jobs : Due(i)}}

CronFetch(l) ==
  /\ cron[l] = NoLoop
  /\ Load < MaxInFlight
  /\ \E f \in DueRows : cron' = [cron EXCEPT ![l] = [queue |-> DueRows, at |-> f]]
  /\ UNCHANGED <<db, inflight>>

\* The job, the wallet of the fetched worker and the ledger row must exist.
Payable(f) == JobExists(f.job) /\ f.worker # None /\ ledger[f.job] # "none"

CronPay(l, f) ==
  /\ cron[l].at = f
  /\ Payable(f)
  /\ SetStatus(f.job, "APPROVED")
  /\ Release(f.job)
  /\ Credit(f.worker, escrows[f.job].amount)
  /\ LET rest == cron[l].queue \ {f} IN
       \/ rest = {} /\ cron' = [cron EXCEPT ![l] = NoLoop]
       \/ \E g \in rest : cron' = [cron EXCEPT ![l] = [queue |-> rest, at |-> g]]
  /\ UNCHANGED <<applications, platform, inflight, funded>>

\* An exception in any transaction, or the death of the process.
CronStop(l) ==
  /\ cron[l] # NoLoop
  /\ cron' = [cron EXCEPT ![l] = NoLoop]
  /\ UNCHANGED <<db, inflight>>

-----------------------------------------------------------------------------
(***************************************************************************)
(* What other services do to the wallets while all this happens.           *)
(***************************************************************************)
Topup(u, amount) ==
  /\ Load < MaxInFlight
  /\ funded + amount <= MaxFunding
  /\ Credit(u, amount)
  /\ funded' = funded + amount
  /\ UNCHANGED <<jobs, applications, escrows, ledger, platform, inflight, cron>>

SetWalletStatus(u, s) ==
  /\ Load < MaxInFlight
  /\ wallets' = [wallets EXCEPT ![u].status = s]
  /\ UNCHANGED <<jobs, applications, escrows, ledger, platform, inflight, cron, funded>>

SuspendWallet(u)  == SetWalletStatus(u, "SUSPENDED")
ActivateWallet(u) == SetWalletStatus(u, "ACTIVE")
CloseWallet(u)    == SetWalletStatus(u, "CLOSED")

-----------------------------------------------------------------------------
JobStep(r) ==
  \/ \E p \in Providers, c \in Amounts : CreateJobCheck(r, p, c)
  \/ CreateJobCommit(r)
  \/ \E j \in Jobs, c \in Amounts \cup {0} : UpdateJobRead(r, j, c)
  \/ UpdateJobCommit(r)
  \/ \E j \in Jobs : DeleteJobRead(r, j)
  \/ DeleteJobCommit(r)

StatusStep(r) ==
  \/ \E j \in Jobs, s \in {"IN_PROGRESS", "COMPLETED"} : WorkerStatusRead(r, j, s)
  \/ WorkerStatusCommit(r)
  \/ \E j \in Jobs : CancelJobRead(r, j)
  \/ CancelJobCommit(r)
  \/ \E j \in Jobs : RejectJobRead(r, j)
  \/ RejectJobCommit(r)
  \/ \E j \in Jobs : ApproveJobRead(r, j)
  \/ ApproveJobCommit(r)

ApplicationStep(r) ==
  \/ \E j \in Jobs, w \in Workers : ApplyFindJob(r, j, w)
  \/ ApplyFindDuplicate(r)
  \/ ApplyFindWallet(r)
  \/ ApplyCreate(r)
  \/ \E a \in Apps, s \in {"REJECTED", "UNDER_REVIEW"} : ReviewRead(r, a, s)
  \/ ReviewCommit(r)
  \/ \E a \in Apps : AcceptRead(r, a)
  \/ AcceptReadJob(r)
  \/ AcceptCheckBalance(r)
  \/ AcceptCommit(r)
  \/ \E a \in Apps : CancelApplicationRead(r, a)
  \/ CancelApplicationCommit(r)

CronStep(l) == CronFetch(l) \/ (\E f \in cron[l].queue : CronPay(l, f)) \/ CronStop(l)

Environment ==
  \/ \E j \in Jobs : Age(j)
  \/ \E u \in Funders, amount \in Amounts : Topup(u, amount)
  \/ \E u \in Suspendable : SuspendWallet(u) \/ ActivateWallet(u) \/ CloseWallet(u)

Next ==
  \/ \E r \in Requests : JobStep(r) \/ StatusStep(r) \/ ApplicationStep(r) \/ Abort(r)
  \/ \E l \in Loops : CronStep(l)
  \/ Environment

Spec == Init /\ [][Next]_vars

(***************************************************************************)
(* @Cron fires for ever, so each loop goes on or ends, and another begins; *)
(* a payment that is tried again and again is not stopped by a lost        *)
(* connection every time.  Nobody makes a user or an admin call anything.  *)
(***************************************************************************)
Pays(j) == \E l \in Loops, w \in Workers : CronPay(l, [job |-> j, worker |-> w])

Fairness == /\ \A l \in Loops : WF_vars(CronStep(l))
            /\ \A j \in Jobs : SF_vars(Pays(j))

FairSpec == Spec /\ Fairness

-----------------------------------------------------------------------------
(***************************************************************************)
(* What holds however the handlers and the cron interleave.                *)
(***************************************************************************)
Working == {"ASSIGNED", "IN_PROGRESS", "COMPLETED", "REJECTED", "APPROVED"}

\* Work is paid for in advance: a job has a worker exactly when it has an escrow
\* row, the row names that worker, and a job anybody works on, has delivered or
\* was paid for has a worker.  (updateApplicationStatus writes both in one
\* transaction; deleteJob, cancelJob and the status updates act on stale reads.)
HiredJobHasEscrow ==
  \A j \in Jobs :
    /\ jobs[j].worker # None <=> escrows[j].status # "none"
    /\ escrows[j].worker = jobs[j].worker
    /\ jobs[j].status \in Working => jobs[j].worker # None

\* The job, its escrow and its ledger row tell one story: an APPROVED job was
\* paid, and the transactions row is COMPLETED exactly when the escrow is RELEASED.
\* (The employer's approval and the cron both write all three.)
ApprovedJobIsPaid ==
  \A j \in Jobs :
    /\ jobs[j].status = "APPROVED" => escrows[j].status = "RELEASED"
    /\ ledger[j] = "none"      <=> escrows[j].status = "none"
    /\ ledger[j] = "COMPLETED" <=> escrows[j].status = "RELEASED"

\* Two acceptances never both succeed on one job, and the accepted applicant is
\* the one who was hired.  (The re-read of the job inside the transaction does
\* not ensure this; the UNIQUE job_id of the escrow does.)
OneHirePerJob ==
  \A a, b \in Apps :
    applications[a].status = "ACCEPTED" =>
      /\ jobs[applications[a].job].worker = applications[a].worker
      /\ applications[b].status = "ACCEPTED" /\ applications[b].job = applications[a].job
           => a = b

\* An escrow only moves forward: the amount and the payee it was created with
\* never change, released money is never held again, and the row goes away only
\* with its job.  (escrow.create, escrow.updateMany, ON DELETE CASCADE.)
EscrowMovesForward ==
  [][\A j \in Jobs :
       \/ escrows[j].status = "none"
       \/ /\ escrows'[j].status \in {escrows[j].status, "RELEASED"}
          /\ escrows'[j].amount = escrows[j].amount
          /\ escrows'[j].worker = escrows[j].worker
       \/ jobs'[j].status = "deleted"]_vars

\* Money that reaches a worker other than by a deposit comes from an escrow that was made
\* for this worker, and is no more than it holds.  (The employer's approval and the cron
\* both pay whom they read before their transaction, however long ago that was.)
OnlyPayeesArePaid ==
  [][\A w \in Workers :
       wallets'[w].balance > wallets[w].balance /\ funded' = funded =>
         \E j \in Jobs :
           /\ jobs'[j].status = "APPROVED" /\ escrows'[j].status = "RELEASED"
           /\ escrows[j].worker = w
           /\ wallets'[w].balance <= wallets[w].balance + escrows[j].amount]_vars

\* A wallet that cannot take the payment for delivered work ends every loop that meets it.
Unpayable(j) == Due(j) /\ ~ Fits(jobs[j].worker, escrows[j].amount)

\* Work that was delivered 24 hours ago does not wait for ever: the cron pays for it unless
\* somebody touches the job, or the wallet of some worker, this or another one, is too
\* full for the pay that is due.  (handleAutoApproveJobs.)
DeliveredWorkIsSettled ==
  \A j \in Jobs : Due(j) ~> ~ Due(j) \/ \E i \in Jobs : Unpayable(i)

-----------------------------------------------------------------------------
(***************************************************************************)
(* What holds when handlers and cron loops run one after the other         *)
(* (MaxInFlight = 1), and what the checks and messages of the code claim;  *)
(* the reads these checks use are not protected against another handler.   *)
(***************************************************************************)

\* Nobody owes the system: no wallet goes below zero.
\* (The balance check before the hold in updateApplicationStatus.)
NoOverdraft == \A u \in Users : wallets[u].balance >= 0

\* The money held for a job is what the posting promises.
\* (updateJob refuses jobs that have a worker.)
EscrowIsCompensation ==
  \A j \in Jobs : jobs[j].worker # None => escrows[j].amount = jobs[j].compensation

\* A cancelled job has nobody working on it and no money held for it.
\* (Cancelling refuses jobs that have a worker, accepting refuses jobs not OPEN.)
CancelledJobHasNoWorker ==
  \A j \in Jobs : jobs[j].status = "CANCELLED" => jobs[j].worker = None

\* One worker has at most one application to a job.  (The lookup in applyJob.)
OneApplicationPerWorker ==
  \A a, b \in Apps :
    /\ ApplicationExists(a) /\ ApplicationExists(b)
    /\ applications[a].job = applications[b].job
    /\ applications[a].worker = applications[b].worker
    => a = b

\* Whoever was hired holds the accepted application, and when somebody was hired
\* nobody else is left waiting for a decision.  (The last writes of an acceptance.)
HiringClosesApplications ==
  \A j \in Jobs : jobs[j].worker # None =>
    /\ \E a \in Apps : /\ applications[a].status = "ACCEPTED"
                       /\ applications[a].job = j
                       /\ applications[a].worker = jobs[j].worker
    /\ \A a \in Apps : applications[a].job = j => applications[a].status \notin Undecided

\* The legal life of a job.
Successors(s) ==
  CASE s = "unborn"      -> {"OPEN"}
    [] s = "OPEN"        -> {"ASSIGNED", "CANCELLED", "deleted"}
    [] s = "ASSIGNED"    -> {"IN_PROGRESS", "COMPLETED"}
    [] s = "IN_PROGRESS" -> {"COMPLETED"}
    [] s = "COMPLETED"   -> {"IN_PROGRESS", "REJECTED", "APPROVED"}
    [] s = "REJECTED"    -> {"IN_PROGRESS", "COMPLETED"}
    [] s = "CANCELLED"   -> {"deleted"}
    [] OTHER             -> {}

\* A job moves only along its life cycle: a paid job stays paid, a cancelled one is
\* at most deleted, only an open one gets a worker, only a delivered one is paid.
\* (The status checks of every handler that writes jobs.status.)
JobLifecycle ==
  [][\A j \in Jobs : jobs'[j].status \in {jobs[j].status} \cup Successors(jobs[j].status)]_vars

\* While an admin keeps a wallet suspended or closed its owner posts no job and
\* sends no application.  (The wallet checks of createJob and applyJob.)
BlockedUsersCannotEnter ==
  [][/\ \A j \in Jobs : jobs[j].status = "unborn" /\ jobs'[j].status # "unborn"
            => wallets[jobs'[j].provider].status \notin Blocked
     /\ \A a \in Apps : applications[a].status = "unborn" /\ applications'[a].status # "unborn"
            => wallets[applications'[a].worker].status \notin Blocked]_vars
=============================================================================
