-------------------------- MODULE JobEscrowSerial --------------------------
(***************************************************************************)
(* Proofs of what JobEscrow states about handlers and cron loops that run  *)
(* one after the other (MaxInFlight = 1), for any tables and amounts.      *)
(*                                                                         *)
(* The argument: while a handler has its turn nobody else writes, so that  *)
(* what it checked still holds when it writes (Turn); each commit is then  *)
(* one operation on the tables that checks and writes at once (Operation); *)
(* and every claim is kept by every operation.  The money follows, as sums *)
(* that one or two rows change, and the refinement of EscrowPromise.       *)
(***************************************************************************)
EXTENDS JobEscrowMoney, JobEscrowProofs, Sums, FiniteSetTheorems

OneAtATime == MaxInFlight = 1

Applying == {"applyDuplicate", "applyWallet", "applyCreate"}

\* What a handler has checked and still holds when it has its turn.
Current(q) ==
  /\ q.op = "createJob" => wallets[q.provider].status \notin Blocked
  /\ q.op \in {"updateJob", "deleteJob", "cancelJob"} => jobs[q.job].worker = None
  /\ q.op = "workerStatus" => jobs[q.job].worker # None /\ jobs[q.job].status # "APPROVED"
  /\ q.op \in {"rejectJob", "approveJob"} => jobs[q.job].status = "COMPLETED"
  /\ q.op \in Applying => jobs[q.job].status = "OPEN"
  /\ q.op \in Applying \ {"applyDuplicate"} =>
       ~ \E a \in Apps : applications[a].job = q.job /\ applications[a].worker = q.worker
  /\ q.op = "applyCreate" => wallets[q.worker].status \notin Blocked
  /\ q.op \in AboutApplication => applications[q.app].status \in Undecided
  /\ q.op \in AboutAcceptance \cup {"review"} => jobs[applications[q.app].job].status = "OPEN"
  /\ q.op \in {"acceptBalance", "acceptCommit"} => q.amount = jobs[q.job].compensation
  /\ q.op = "acceptCommit" => wallets[jobs[q.job].provider].balance >= q.amount

\* The same for a loop of the cron: what it fetched is COMPLETED still.
CronCurrent(l) == \A f \in cron[l].queue : jobs[f.job].status = "COMPLETED"

NoHandler      == \A r \in Requests : inflight[r] = Idle
NoCron         == \A l \in Loops : cron[l] = NoLoop
Quiet          == NoCron /\ NoHandler
OnlyRequest(r) == NoCron /\ \A s \in Requests : s # r => inflight[s] = Idle
OnlyCron(l)    == NoHandler /\ \A k \in Loops : k # l => cron[k] = NoLoop

\* At most one handler or cron loop has its turn, and what it checked holds.
Turn ==
  \/ Quiet
  \/ \E r \in Requests : OnlyRequest(r) /\ Current(inflight[r])
  \/ \E l \in Loops : OnlyCron(l) /\ CronCurrent(l)

\* Who works on a job is paid for it or will be: the converses of what holds in
\* every interleaving.  A missing escrow is NoEscrow.
HiredIsWorking == \A j \in Jobs : jobs[j].worker # None => jobs[j].status \in Working
PaidIsApproved == \A j \in Jobs : escrows[j].status = "RELEASED" => jobs[j].status = "APPROVED"
NoneIsEmpty == \A j \in Jobs : escrows[j].status = "none" => escrows[j] = NoEscrow

Claims ==
  /\ HiredIsWorking /\ PaidIsApproved /\ NoneIsEmpty
  /\ NoOverdraft
  /\ EscrowIsCompensation
  /\ OneApplicationPerWorker
  /\ HiringClosesApplications

SInv == IInv /\ Turn /\ Claims

-----------------------------------------------------------------------------
(***************************************************************************)
(* Turns.                                                                  *)
(***************************************************************************)

\* Whoever starts starts alone.
LEMMA StartsAlone ==
  ASSUME OneAtATime, Load < MaxInFlight
  PROVE  Quiet
<1>. DEFINE Busy    == {r \in Requests : inflight[r] # Idle}
            Running == {l \in Loops : cron[l] # NoLoop}
<1>1. /\ Cardinality(Busy) \in Nat /\ IsFiniteSet(Busy)
      /\ Cardinality(Running) \in Nat /\ IsFiniteSet(Running)
  BY FinitenessAssumption, FS_Subset, FS_CardinalityType
<1>2. Cardinality(Busy) = 0 /\ Cardinality(Running) = 0
  <2>1. Cardinality(Busy) + Cardinality(Running) < 1
    BY DEF OneAtATime, Load
  <2>. HIDE DEF Busy, Running
  <2>. QED  BY <1>1, <2>1
<1>3. Busy = {} /\ Running = {}
  BY <1>1, <1>2, FS_EmptySet
<1>. QED  BY <1>3 DEF Quiet, NoCron, NoHandler

\* Whoever is in flight is alone, and what it checked holds.
LEMMA InFlightIsAlone ==
  ASSUME Turn, NEW r \in Requests, inflight[r] # Idle
  PROVE  OnlyRequest(r) /\ Current(inflight[r])
BY DEF Turn, Quiet, NoHandler, OnlyRequest, OnlyCron

\* A handler that commits or gives up leaves nobody in flight.
LEMMA LeavesQuiet ==
  ASSUME TypeOK, Turn, NEW r \in Requests, inflight[r] # Idle, Finish(r)
  PROVE  Quiet'
<1>1. OnlyRequest(r)
  BY InFlightIsAlone
<1>. QED  BY <1>1 DEF TypeOK, Finish, OnlyRequest, Quiet, NoCron, NoHandler

\* Nobody in flight is a turn too.
LEMMA QuietIsATurn ==
  ASSUME Quiet'
  PROVE  Turn'
BY DEF Turn

\* A handler that goes on to q has its turn if what q has checked holds.
LEMMA ReadsInTurn ==
  ASSUME TypeOK, NEW r \in Requests, OnlyRequest(r), NEW q, Current(q),
         inflight' = [inflight EXCEPT ![r] = q], UNCHANGED <<db, cron>>
  PROVE  Turn'
<1>1. inflight'[r] = q /\ \A s \in Requests : s # r => inflight'[s] = inflight[s]
  BY DEF TypeOK
<1>2. OnlyRequest(r)'
  BY <1>1 DEF OnlyRequest, NoCron
<1>3. UNCHANGED <<jobs, applications, wallets>>
  BY DEF db, money
<1>4. Current(inflight'[r])
  BY <1>1
<1>5. Current(inflight[r])'
  BY <1>3, <1>4 DEF Current
<1>. QED  BY <1>2, <1>5 DEF Turn

\* A first read: the handler starts alone, and its guard is what it has checked.
LEMMA StartsInTurn ==
  ASSUME OneAtATime, TypeOK, NEW r \in Requests, NEW q, Begin(r, q), Current(q)
  PROVE  Turn'
<1>1. Quiet
  BY StartsAlone DEF Begin
<1>. QED  BY <1>1, ReadsInTurn DEF Begin, Quiet, NoHandler, OnlyRequest

\* Every step that only reads leaves a turn.
LEMMA ReadersKeepTurn ==
  ASSUME OneAtATime, IInv, Turn, NEW r \in Requests,
         \/ \E p \in Providers, c \in Amounts : CreateJobCheck(r, p, c)
         \/ \E j \in Jobs, c \in Amounts \cup {0} : UpdateJobRead(r, j, c)
         \/ \E j \in Jobs : DeleteJobRead(r, j)
         \/ \E j \in Jobs, s \in {"IN_PROGRESS", "COMPLETED"} : WorkerStatusRead(r, j, s)
         \/ \E j \in Jobs : CancelJobRead(r, j) \/ RejectJobRead(r, j) \/ ApproveJobRead(r, j)
         \/ \E j \in Jobs, w \in Workers : ApplyFindJob(r, j, w)
         \/ ApplyFindDuplicate(r) \/ ApplyFindWallet(r)
         \/ \E a \in Apps, s \in {"REJECTED", "UNDER_REVIEW"} : ReviewRead(r, a, s)
         \/ \E a \in Apps : AcceptRead(r, a) \/ CancelApplicationRead(r, a)
         \/ AcceptReadJob(r) \/ AcceptCheckBalance(r)
  PROVE  Turn'
<1>. USE DEF Current, Applying, AboutApplication, AboutAcceptance
<1>0. TypeOK
  BY DEF IInv
<1>1. ASSUME NEW p \in Providers, NEW c \in Amounts, CreateJobCheck(r, p, c)  PROVE Turn'
  BY <1>0, <1>1, StartsInTurn DEF CreateJobCheck
<1>2. ASSUME NEW j \in Jobs, NEW c \in Amounts \cup {0}, UpdateJobRead(r, j, c)  PROVE Turn'
  BY <1>0, <1>2, StartsInTurn DEF UpdateJobRead
<1>3. ASSUME NEW j \in Jobs, DeleteJobRead(r, j) \/ CancelJobRead(r, j)  PROVE Turn'
  BY <1>0, <1>3, StartsInTurn DEF DeleteJobRead, CancelJobRead
<1>4. ASSUME NEW j \in Jobs, NEW s \in {"IN_PROGRESS", "COMPLETED"}, WorkerStatusRead(r, j, s)
      PROVE  Turn'
  BY <1>0, <1>4, StartsInTurn DEF WorkerStatusRead
<1>5. ASSUME NEW j \in Jobs, RejectJobRead(r, j) \/ ApproveJobRead(r, j)  PROVE Turn'
  BY <1>0, <1>5, StartsInTurn DEF RejectJobRead, ApproveJobRead
<1>6. ASSUME NEW j \in Jobs, NEW w \in Workers, ApplyFindJob(r, j, w)  PROVE Turn'
  BY <1>0, <1>6, StartsInTurn DEF ApplyFindJob
<1>7. ASSUME NEW a \in Apps, NEW s \in {"REJECTED", "UNDER_REVIEW"}, ReviewRead(r, a, s)
      PROVE  Turn'
  BY <1>0, <1>7, StartsInTurn DEF ReviewRead, Reviewable
<1>8. ASSUME NEW a \in Apps, AcceptRead(r, a) \/ CancelApplicationRead(r, a)  PROVE Turn'
  BY <1>0, <1>8, StartsInTurn DEF AcceptRead, CancelApplicationRead, Reviewable
<1>9. ASSUME inflight[r] # Idle, NEW q, Current(q), Continue(r, q)  PROVE Turn'
  BY <1>0, <1>9, InFlightIsAlone, ReadsInTurn DEF Continue
<1>10. /\ inflight[r] \in Request /\ Snapshot(inflight[r])
       /\ inflight[r] # Idle => Current(inflight[r])
  BY InFlightIsAlone DEF IInv, TypeOK, Snapshots
<1>11. CASE ApplyFindDuplicate(r)
  <2>. DEFINE q == [inflight[r] EXCEPT !.op = "applyWallet"]
  <2>1. q.op = "applyWallet" /\ q.job = inflight[r].job /\ q.worker = inflight[r].worker
    BY <1>10, <1>11 DEF ApplyFindDuplicate, Request, Idle
  <2>2. Current(q) /\ inflight[r] # Idle
    BY <1>10, <1>11, <2>1 DEF ApplyFindDuplicate, Idle
  <2>. QED  BY <1>9, <1>11, <2>2 DEF ApplyFindDuplicate
<1>12. CASE ApplyFindWallet(r)
  <2>. DEFINE q == [inflight[r] EXCEPT !.op = "applyCreate"]
  <2>1. q.op = "applyCreate" /\ q.job = inflight[r].job /\ q.worker = inflight[r].worker
    BY <1>10, <1>12 DEF ApplyFindWallet, Request, Idle
  <2>2. Current(q) /\ inflight[r] # Idle
    BY <1>10, <1>12, <2>1 DEF ApplyFindWallet, Idle
  <2>. QED  BY <1>9, <1>12, <2>2 DEF ApplyFindWallet
<1>13. CASE AcceptReadJob(r)
  <2>1. Current([op |-> "acceptBalance", app |-> inflight[r].app, job |-> inflight[r].job,
                 worker |-> inflight[r].worker, amount |-> jobs[inflight[r].job].compensation])
        /\ inflight[r] # Idle
    BY <1>10, <1>13 DEF AcceptReadJob, Idle
  <2>. QED  BY <1>9, <1>13, <2>1 DEF AcceptReadJob
<1>14. CASE AcceptCheckBalance(r)
  <2>. DEFINE q == [inflight[r] EXCEPT !.op = "acceptCommit"]
  <2>1. /\ q.op = "acceptCommit" /\ q.job = inflight[r].job /\ q.app = inflight[r].app
        /\ q.amount = inflight[r].amount
    BY <1>10, <1>14 DEF AcceptCheckBalance, Request, Idle
  <2>2. Current(q) /\ inflight[r] # Idle
    BY <1>10, <1>14, <2>1 DEF AcceptCheckBalance, Idle
  <2>. QED  BY <1>9, <1>14, <2>2 DEF AcceptCheckBalance
<1>. QED  BY <1>1, <1>2, <1>3, <1>4, <1>5, <1>6, <1>7, <1>8, <1>11, <1>12, <1>13, <1>14

-----------------------------------------------------------------------------
(***************************************************************************)
(* Operations: what a handler whose turn it is does to the tables, with    *)
(* what it checked.                                                        *)
(***************************************************************************)
OnlyJob(j)         == \A i \in Jobs : i # j => jobs'[i] = jobs[i]
OnlyApplication(a) == \A b \in Apps : b # a => applications'[b] = applications[b]
OnItsWay(j)        == jobs'[j].status \in {jobs[j].status} \cup Successors(jobs[j].status)

\* A posting nobody was hired for is created, edited, cancelled or deleted.
Draft(j) ==
  /\ jobs[j].worker = None /\ jobs'[j].worker = None
  /\ OnItsWay(j)
  /\ jobs[j].status = "unborn" => wallets[jobs'[j].provider].status \notin Blocked
  /\ OnlyJob(j)
  /\ UNCHANGED <<applications, escrows, wallets, platform, funded>>

\* Work goes on, is delivered or is rejected.
Progress(j) ==
  /\ jobs[j].worker # None
  /\ jobs'[j].worker = jobs[j].worker /\ jobs'[j].compensation = jobs[j].compensation
  /\ OnItsWay(j) /\ jobs[j].status # "unborn"
  /\ jobs[j].status # "APPROVED" /\ jobs'[j].status \in Working
  /\ OnlyJob(j)
  /\ UNCHANGED <<applications, escrows, wallets, platform, funded>>

\* Delivered work is paid for, by its employer or by the cron.
Pay(j, net, fee) ==
  /\ jobs[j].status = "COMPLETED" /\ jobs'[j].status = "APPROVED"
  /\ jobs'[j].worker = jobs[j].worker /\ jobs'[j].compensation = jobs[j].compensation
  /\ escrows[j].status = "HELD"
  /\ escrows' = [escrows EXCEPT ![j].status = "RELEASED"]
  /\ Credit(jobs[j].worker, net) /\ platform' = platform + fee
  /\ \/ net = NetAmount(escrows[j].amount) /\ fee = EscrowFee(escrows[j].amount)
     \/ net = escrows[j].amount /\ fee = 0
  /\ OnlyJob(j)
  /\ UNCHANGED <<applications, funded>>

\* A worker applies for the first time.
Propose(a) ==
  /\ applications[a].status = "unborn" /\ applications'[a].status = "PENDING"
  /\ jobs[applications'[a].job].status = "OPEN"
  /\ applications'[a].job \in Jobs /\ applications'[a].worker \in Workers
  /\ wallets[applications'[a].worker].status \notin Blocked
  /\ \A b \in Apps : ~ (applications[b].job = applications'[a].job
                        /\ applications[b].worker = applications'[a].worker)
  /\ OnlyApplication(a)
  /\ UNCHANGED <<jobs, escrows, wallets, platform, funded>>

\* An application to an open job is reviewed, or any that is undecided withdrawn.
Settle(a) ==
  /\ applications[a].status \in Undecided
  /\ \/ applications'[a] = NoApplication("deleted")
     \/ /\ jobs[applications[a].job].status = "OPEN"
        /\ applications'[a].status \in {"REJECTED", "UNDER_REVIEW"}
        /\ applications'[a].job = applications[a].job
        /\ applications'[a].worker = applications[a].worker
  /\ OnlyApplication(a)
  /\ UNCHANGED <<jobs, escrows, wallets, platform, funded>>

\* An applicant is hired, and the price held in advance.
Hire(a, j) ==
  /\ jobs[j].status = "OPEN" /\ jobs'[j].status = "ASSIGNED"
  /\ jobs'[j].worker = applications[a].worker
  /\ jobs'[j].compensation = jobs[j].compensation
  /\ applications[a].job = j /\ applications[a].status \in Undecided
  /\ \E q : q.app = a /\ q.job = j /\ AcceptOneRejectOthers(q)
  /\ wallets[jobs[j].provider].balance >= jobs[j].compensation
  /\ Debit(jobs[j].provider, jobs[j].compensation)
  /\ escrows[j] = NoEscrow
  /\ escrows' = [escrows EXCEPT ![j] = [status |-> "HELD", amount |-> jobs[j].compensation,
                                        worker |-> applications[a].worker]]
  /\ OnlyJob(j)
  /\ UNCHANGED <<platform, funded>>

Deposit(u, amount) ==
  /\ Credit(u, amount) /\ funded' = funded + amount
  /\ UNCHANGED <<jobs, applications, escrows, platform>>

\* Time passes, an admin changes the status of a wallet, or somebody only reads.
Nothing ==
  /\ \A j \in Jobs : /\ jobs'[j].status = jobs[j].status /\ jobs'[j].worker = jobs[j].worker
                     /\ jobs'[j].provider = jobs[j].provider
                     /\ jobs'[j].compensation = jobs[j].compensation
  /\ \A u \in Users : wallets'[u].balance = wallets[u].balance
  /\ UNCHANGED <<applications, escrows, platform, funded>>

Operation ==
  \/ \E j \in Jobs : Draft(j) \/ Progress(j) \/ (\E net, fee \in Nat : Pay(j, net, fee))
  \/ \E a \in Apps : Propose(a) \/ Settle(a) \/ (\E j \in Jobs : Hire(a, j))
  \/ \E u \in Funders, amount \in Amounts : Deposit(u, amount)
  \/ Nothing

-----------------------------------------------------------------------------
(***************************************************************************)
(* Each commit is an operation.                                            *)
(***************************************************************************)

\* createJob, updateJob, deleteJob and the employer's CANCELLED edit a posting nobody was
\* hired for: what they read about its worker is still true when they write.
LEMMA JobCommitsAreOperations ==
  ASSUME SInv, NEW r \in Requests,
         CreateJobCommit(r) \/ UpdateJobCommit(r) \/ DeleteJobCommit(r) \/ CancelJobCommit(r)
  PROVE  (\E j \in Jobs : Draft(j)) /\ inflight[r] # Idle /\ Finish(r)
<1>. DEFINE q == inflight[r]
<1>1. /\ q \in Request /\ q # Idle
      /\ q.op \in {"createJob", "updateJob", "deleteJob", "cancelJob"}
      /\ Finish(r)
      /\ UNCHANGED <<applications, wallets, platform, funded>>
  BY DEF SInv, IInv, TypeOK, Idle, CreateJobCommit, UpdateJobCommit, DeleteJobCommit,
         CancelJobCommit, money
<1>2. Current(q) /\ Snapshot(q) /\ TypeOK
  BY <1>1, InFlightIsAlone DEF SInv, IInv, Snapshots
<1>3. CASE CreateJobCommit(r)
  <2>. DEFINE row == [NoJob("OPEN") EXCEPT !.provider = q.provider, !.compensation = q.compensation]
  <2>1. q.provider \in Providers /\ q.compensation \in Amounts /\ q.op = "createJob"
    BY <1>1, <1>3, RequestFields DEF CreateJobCommit
  <2>2. PICK j \in Jobs : jobs[j].status = "unborn" /\ WriteJob(j, row)
    BY <1>3 DEF CreateJobCommit
  <2>3. row \in JobRow /\ row.status = "OPEN" /\ row.worker = None /\ row.provider = q.provider
    BY <2>1 DEF NoJob, JobRow, JobStatus
  <2>4. /\ jobs'[j].status = "OPEN" /\ jobs'[j].worker = None /\ jobs'[j].provider = q.provider
        /\ OnlyJob(j)
    BY <1>2, <2>2, <2>3, JobWritten DEF OnlyJob
  <2>5. jobs[j].worker = None
    BY <2>2 DEF SInv, IInv, RowsFilled, JobExists, JobStatus
  <2>6. escrows' = escrows
    BY <1>3 DEF CreateJobCommit, money
  <2>. QED  BY <1>1, <1>2, <2>1, <2>2, <2>4, <2>5, <2>6 DEF Draft, OnItsWay, Successors, Current
<1>4. ASSUME q.op \in {"updateJob", "deleteJob", "cancelJob"}, JobExists(q.job)
      PROVE  /\ q.job \in Jobs /\ jobs[q.job].worker = None
             /\ jobs[q.job] \in JobRow /\ jobs[q.job].compensation \in Amounts
             /\ jobs[q.job].status \in {"OPEN", "CANCELLED"}
             /\ escrows[q.job] = NoEscrow
  <2>1. q.job \in Jobs
    BY <1>1, <1>4, RequestFields DEF AboutJob
  <2>2. jobs[q.job].worker = None
    BY <1>2, <1>4 DEF Current
  <2>3. jobs[q.job].status \notin Working /\ escrows[q.job].status = "none"
    BY <2>1, <2>2 DEF SInv, IInv, HiredJobHasEscrow, TypeOK, EscrowRow
  <2>. QED  BY <1>2, <1>4, <2>1, <2>2, <2>3
            DEF SInv, IInv, TypeOK, RowsFilled, JobExists, JobStatus, Working, Claims, NoneIsEmpty
<1>5. CASE UpdateJobCommit(r)
  <2>. DEFINE j == q.job
              row == [jobs[j] EXCEPT !.compensation = IF q.compensation = 0 THEN @ ELSE q.compensation]
  <2>1. /\ q.op = "updateJob" /\ JobExists(j) /\ WriteJob(j, row)
        /\ q.compensation \in Amounts \cup {0} /\ escrows' = escrows
    BY <1>1, <1>5, RequestFields DEF UpdateJobCommit, money
  <2>2. row \in JobRow /\ row.status = jobs[j].status /\ row.worker = jobs[j].worker
    BY <1>4, <2>1 DEF JobRow
  <2>3. /\ jobs'[j].status = jobs[j].status /\ jobs'[j].worker = jobs[j].worker /\ OnlyJob(j)
    BY <1>2, <1>4, <2>1, <2>2, JobWritten DEF OnlyJob
  <2>. QED  BY <1>1, <1>4, <2>1, <2>3 DEF Draft, OnItsWay
<1>6. CASE DeleteJobCommit(r)
  <2>. DEFINE j == q.job
  <2>1. /\ q.op = "deleteJob" /\ JobExists(j)
        /\ jobs' = [jobs EXCEPT ![j] = NoJob("deleted")]
        /\ escrows' = [escrows EXCEPT ![j] = NoEscrow]
    BY <1>6 DEF DeleteJobCommit
  <2>2. /\ jobs'[j].status = "deleted" /\ jobs'[j].worker = None /\ OnlyJob(j)
        /\ escrows' = escrows
    BY <1>2, <1>4, <2>1 DEF OnlyJob, NoJob, TypeOK
  <2>. QED  BY <1>1, <1>4, <2>1, <2>2 DEF Draft, OnItsWay, Successors
<1>7. CASE CancelJobCommit(r)
  <2>. DEFINE j == q.job
              row == [jobs[j] EXCEPT !.status = "CANCELLED"]
  <2>1. /\ q.op = "cancelJob" /\ JobExists(j) /\ WriteJob(j, row) /\ escrows' = escrows
    BY <1>7 DEF CancelJobCommit, SetStatus, money
  <2>2. row \in JobRow /\ row.status = "CANCELLED" /\ row.worker = jobs[j].worker
    BY <1>4, <2>1 DEF JobRow, JobStatus
  <2>3. /\ jobs'[j].status = "CANCELLED" /\ jobs'[j].worker = jobs[j].worker /\ OnlyJob(j)
    BY <1>2, <1>4, <2>1, <2>2, JobWritten DEF OnlyJob
  <2>. QED  BY <1>1, <1>4, <2>1, <2>3 DEF Draft, OnItsWay, Successors
<1>. QED  BY <1>1, <1>3, <1>5, <1>6, <1>7

\* The worker's status updates and the employer's REJECTED are progress of a hired job.
LEMMA StatusCommitsAreOperations ==
  ASSUME SInv, NEW r \in Requests, WorkerStatusCommit(r) \/ RejectJobCommit(r)
  PROVE  (\E j \in Jobs : Progress(j)) /\ inflight[r] # Idle /\ Finish(r)
<1>. DEFINE q == inflight[r]
            j == q.job
<1>1. /\ q \in Request /\ q # Idle /\ q.op \in {"workerStatus", "rejectJob"}
      /\ Finish(r) /\ JobExists(j)
      /\ UNCHANGED <<applications, escrows, wallets, platform, funded>>
  BY DEF SInv, IInv, TypeOK, Idle, WorkerStatusCommit, RejectJobCommit, money
<1>2. Current(q) /\ Snapshot(q) /\ TypeOK
  BY <1>1, InFlightIsAlone DEF SInv, IInv, Snapshots
<1>3. j \in Jobs /\ jobs[j].worker # None /\ jobs[j] \in JobRow
  BY <1>1, <1>2, RequestFields DEF AboutJob, AboutHiredJob, Snapshot, TypeOK
<1>4. jobs[j].status \in Working \ {"APPROVED"}
  BY <1>1, <1>2, <1>3 DEF Current, SInv, Claims, HiredIsWorking
<1>5. ASSUME NEW s \in JobStatus, SetStatus(j, s)
      PROVE  /\ jobs'[j].status = s /\ jobs'[j].worker = jobs[j].worker
             /\ jobs'[j].compensation = jobs[j].compensation /\ OnlyJob(j)
  <2>. DEFINE row == [jobs[j] EXCEPT !.status = s]
  <2>1. row \in JobRow /\ row.status = s /\ row.worker = jobs[j].worker
        /\ row.compensation = jobs[j].compensation
    BY <1>3 DEF JobRow
  <2>2. WriteJob(j, row)
    BY <1>5 DEF SetStatus
  <2>. HIDE DEF row
  <2>. QED  BY <1>2, <1>3, <2>1, <2>2, JobWritten DEF OnlyJob
<1>6. CASE WorkerStatusCommit(r)
  <2>1. q.status \in {"IN_PROGRESS", "COMPLETED"} /\ SetStatus(j, q.status)
    BY <1>1, <1>6, RequestFields DEF WorkerStatusCommit
  <2>2. /\ jobs'[j].status = q.status /\ jobs'[j].worker = jobs[j].worker
        /\ jobs'[j].compensation = jobs[j].compensation /\ OnlyJob(j)
    BY <1>5, <2>1 DEF JobStatus
  <2>. QED  BY <1>1, <1>3, <1>4, <2>1, <2>2 DEF Progress, OnItsWay, Successors, Working
<1>7. CASE RejectJobCommit(r)
  <2>1. SetStatus(j, "REJECTED") /\ jobs[j].status = "COMPLETED"
    BY <1>2, <1>7 DEF RejectJobCommit, Current
  <2>2. /\ jobs'[j].status = "REJECTED" /\ jobs'[j].worker = jobs[j].worker
        /\ jobs'[j].compensation = jobs[j].compensation /\ OnlyJob(j)
    BY <1>5, <2>1 DEF JobStatus
  <2>. QED  BY <1>1, <1>3, <2>1, <2>2 DEF Progress, OnItsWay, Successors, Working
<1>. QED  BY <1>1, <1>6, <1>7

\* What the employer's approval and the cron have in common.
LEMMA PaymentIsAnOperation ==
  ASSUME SInv, NEW j \in Jobs, NEW net \in Nat, NEW fee \in Nat,
         jobs[j].status = "COMPLETED",
         SetStatus(j, "APPROVED"), Release(j), Credit(jobs[j].worker, net),
         platform' = platform + fee, UNCHANGED <<applications, funded>>,
         \/ net = NetAmount(escrows[j].amount) /\ fee = EscrowFee(escrows[j].amount)
         \/ net = escrows[j].amount /\ fee = 0
  PROVE  Pay(j, net, fee)
<1>. DEFINE row == [jobs[j] EXCEPT !.status = "APPROVED"]
<1>1. /\ row \in JobRow /\ row.status = "APPROVED" /\ row.worker = jobs[j].worker
      /\ row.compensation = jobs[j].compensation
  BY DEF SInv, IInv, TypeOK, JobRow, JobStatus
<1>2. WriteJob(j, row)
  BY DEF SetStatus
<1>3. /\ jobs'[j].status = "APPROVED" /\ jobs'[j].worker = jobs[j].worker
      /\ jobs'[j].compensation = jobs[j].compensation /\ OnlyJob(j)
  <2>. HIDE DEF row
  <2>. QED  BY <1>1, <1>2, JobWritten DEF OnlyJob, SInv, IInv
<1>4. escrows[j].status = "HELD"
  <2>1. escrows[j].status \in {"none", "HELD", "RELEASED"}
    BY DEF SInv, IInv, TypeOK, EscrowRow
  <2>2. jobs[j].worker # None
    BY DEF SInv, IInv, HiredJobHasEscrow, Working
  <2>. QED  BY <2>1, <2>2 DEF SInv, IInv, HiredJobHasEscrow, Claims, PaidIsApproved
<1>5. escrows' = [escrows EXCEPT ![j].status = "RELEASED"]
  BY <1>4 DEF Release, SInv, IInv, TypeOK
<1>. QED  BY <1>3, <1>4, <1>5 DEF Pay

\* An approval, and each round of the cron, pays for a job that is COMPLETED still.
LEMMA PaymentsAreOperations ==
  ASSUME SInv
  PROVE  /\ \A r \in Requests : ApproveJobCommit(r) =>
              /\ \E j \in Jobs : \E net, fee \in Nat : Pay(j, net, fee)
              /\ inflight[r] # Idle /\ Finish(r)
         /\ \A l \in Loops : \A f \in cron[l].queue : CronPay(l, f) =>
              /\ \E net, fee \in Nat : Pay(f.job, net, fee)
              /\ f.job \in Jobs /\ OnlyCron(l) /\ CronCurrent(l)
<1>1. ASSUME NEW r \in Requests, ApproveJobCommit(r)
      PROVE  /\ \E j \in Jobs : \E net, fee \in Nat : Pay(j, net, fee)
             /\ inflight[r] # Idle /\ Finish(r)
  <2>. DEFINE q == inflight[r]
              j == q.job
  <2>1. /\ q \in Request /\ q # Idle /\ q.op = "approveJob"
        /\ Finish(r) /\ JobExists(j)
    BY <1>1 DEF SInv, IInv, TypeOK, Idle, ApproveJobCommit
  <2>2. Current(q) /\ Snapshot(q)
    BY <2>1, InFlightIsAlone DEF SInv, IInv, Snapshots
  <2>3. j \in Jobs /\ jobs[j].worker = q.worker /\ jobs[j].status = "COMPLETED"
    BY <2>1, <2>2, RequestFields DEF AboutJob, AboutHiredJob, Snapshot, Current
  <2>4. escrows[j].amount \in Nat
    BY <2>3, HeldAmount DEF SInv, IInv
  <2>5. PICK net \in Nat, fee \in Nat :
          net = NetAmount(escrows[j].amount) /\ fee = EscrowFee(escrows[j].amount)
    BY <2>4, AFeeIsSplitOff
  <2>6. /\ SetStatus(j, "APPROVED") /\ Release(j) /\ Credit(jobs[j].worker, net)
        /\ platform' = platform + fee /\ UNCHANGED <<applications, funded>>
    BY <1>1, <2>3, <2>5 DEF ApproveJobCommit
  <2>. QED  BY <2>1, <2>3, <2>5, <2>6, PaymentIsAnOperation
<1>2. ASSUME NEW l \in Loops, NEW f \in cron[l].queue, CronPay(l, f)
      PROVE  /\ \E net, fee \in Nat : Pay(f.job, net, fee)
             /\ f.job \in Jobs /\ OnlyCron(l) /\ CronCurrent(l)
  <2>. DEFINE j == f.job
  <2>1. OnlyCron(l) /\ CronCurrent(l)
    BY <1>2 DEF SInv, Turn, Quiet, OnlyRequest, OnlyCron, NoCron, NoLoop
  <2>2. jobs[j].status = "COMPLETED" /\ j \in Jobs /\ jobs[j].worker = f.worker
    BY <1>2, <2>1 DEF CronCurrent, CronPay, Payable, SInv, IInv, TypeOK, Fetched, Snapshots,
                      CronSnapshot
  <2>3. PICK net \in Nat : net = escrows[j].amount
    BY <2>2, HeldAmount DEF SInv, IInv
  <2>4. /\ SetStatus(j, "APPROVED") /\ Release(j) /\ Credit(jobs[j].worker, net)
        /\ platform' = platform + 0 /\ UNCHANGED <<applications, funded>>
    BY <1>2, <2>2, <2>3 DEF CronPay, SInv, IInv, TypeOK
  <2>. QED  BY <2>1, <2>2, <2>3, <2>4, PaymentIsAnOperation
<1>. QED  BY <1>1, <1>2

\* applyJob, the review and the withdrawal of an application.
LEMMA ApplicationCommitsAreOperations ==
  ASSUME SInv, NEW r \in Requests,
         ApplyCreate(r) \/ ReviewCommit(r) \/ CancelApplicationCommit(r)
  PROVE  (\E a \in Apps : Propose(a) \/ Settle(a)) /\ inflight[r] # Idle /\ Finish(r)
<1>. DEFINE q == inflight[r]
<1>1. /\ q \in Request /\ q # Idle /\ q.op \in {"applyCreate", "review", "cancelApplication"}
      /\ Finish(r)
      /\ UNCHANGED <<jobs, escrows, wallets, platform, funded>>
  BY DEF SInv, IInv, TypeOK, Idle, ApplyCreate, ReviewCommit, CancelApplicationCommit, money
<1>2. Current(q) /\ Snapshot(q) /\ TypeOK
  BY <1>1, InFlightIsAlone DEF SInv, IInv, Snapshots
<1>3. CASE ApplyCreate(r)
  <2>1. q.op = "applyCreate" /\ q.job \in Jobs /\ q.worker \in Workers
    BY <1>1, <1>3, RequestFields DEF ApplyCreate, AboutJob
  <2>2. PICK a \in Apps : /\ applications[a].status = "unborn"
                          /\ applications' = [applications EXCEPT ![a] =
                               [status |-> "PENDING", job |-> q.job, worker |-> q.worker]]
    BY <1>3 DEF ApplyCreate
  <2>3. /\ applications'[a].status = "PENDING" /\ applications'[a].job = q.job
        /\ applications'[a].worker = q.worker /\ OnlyApplication(a)
    BY <1>2, <2>2 DEF TypeOK, OnlyApplication
  <2>4. Propose(a)
    BY <1>1, <1>2, <2>1, <2>2, <2>3 DEF Propose, Current, Applying
  <2>. QED  BY <1>1, <2>4
<1>4. q.op \in {"review", "cancelApplication"} =>
        q.app \in Apps /\ applications[q.app].status \in Undecided
  BY <1>1, <1>2, RequestFields DEF AboutApplication, Current
<1>5. CASE ReviewCommit(r)
  <2>1. /\ q.op = "review" /\ q.status \in {"REJECTED", "UNDER_REVIEW"}
        /\ applications' = [applications EXCEPT ![q.app].status = q.status]
    BY <1>1, <1>5, RequestFields DEF ReviewCommit
  <2>2. applications[q.app] \in ApplicationRow
    BY <1>2, <1>4, <2>1 DEF TypeOK
  <2>3. /\ applications'[q.app].status = q.status
        /\ applications'[q.app].job = applications[q.app].job
        /\ applications'[q.app].worker = applications[q.app].worker /\ OnlyApplication(q.app)
    BY <1>2, <1>4, <2>1, <2>2 DEF TypeOK, OnlyApplication, ApplicationRow
  <2>4. Settle(q.app)
    BY <1>1, <1>2, <1>4, <2>1, <2>3 DEF Settle, Current
  <2>. QED  BY <1>1, <1>4, <2>1, <2>4
<1>6. CASE CancelApplicationCommit(r)
  <2>1. /\ q.op = "cancelApplication"
        /\ applications' = [applications EXCEPT ![q.app] = NoApplication("deleted")]
    BY <1>6 DEF CancelApplicationCommit
  <2>2. applications'[q.app] = NoApplication("deleted") /\ OnlyApplication(q.app)
    BY <1>2, <1>4, <2>1 DEF TypeOK, OnlyApplication
  <2>3. Settle(q.app)
    BY <1>1, <1>4, <2>1, <2>2 DEF Settle
  <2>. QED  BY <1>1, <1>4, <2>1, <2>3
<1>. QED  BY <1>1, <1>3, <1>5, <1>6

\* An acceptance hires for the price, and from the balance, that it read.
LEMMA AcceptCommitIsAnOperation ==
  ASSUME SInv, NEW r \in Requests, AcceptCommit(r)
  PROVE  (\E a \in Apps, j \in Jobs : Hire(a, j)) /\ inflight[r] # Idle /\ Finish(r)
<1>. DEFINE q == inflight[r]
            a == q.app
            j == q.job
            row == [jobs[j] EXCEPT !.status = "ASSIGNED", !.worker = q.worker]
<1>1. /\ q \in Request /\ q # Idle /\ q.op = "acceptCommit"
      /\ Finish(r) /\ JobExists(j) /\ ApplicationExists(a) /\ Unhired(j)
      /\ Hold(q) /\ WriteJob(j, row) /\ AcceptOneRejectOthers(q)
      /\ UNCHANGED <<platform, funded>>
  BY DEF SInv, IInv, TypeOK, Idle, AcceptCommit
<1>2. Current(q) /\ Snapshot(q) /\ TypeOK
  BY <1>1, InFlightIsAlone DEF SInv, IInv, Snapshots
<1>3. a \in Apps /\ j \in Jobs /\ q.worker \in Workers /\ jobs[j] \in JobRow
  BY <1>1, <1>2, RequestFields DEF AboutJob, AboutApplication, AboutAcceptance, TypeOK
<1>4. applications[a].job = j /\ applications[a].worker = q.worker
  BY <1>1, <1>2 DEF Snapshot, AboutAcceptance
<1>5. /\ applications[a].status \in Undecided /\ jobs[j].status = "OPEN"
      /\ q.amount = jobs[j].compensation
      /\ wallets[jobs[j].provider].balance >= jobs[j].compensation
  BY <1>1, <1>2, <1>4 DEF Current, AboutApplication, AboutAcceptance
<1>6. escrows[j] = NoEscrow
  BY <1>1, <1>3 DEF Unhired, SInv, Claims, NoneIsEmpty
<1>7. /\ jobs'[j].status = "ASSIGNED" /\ jobs'[j].worker = q.worker
      /\ jobs'[j].compensation = jobs[j].compensation /\ OnlyJob(j)
  <2>1. /\ row \in JobRow /\ row.status = "ASSIGNED" /\ row.worker = q.worker
        /\ row.compensation = jobs[j].compensation
    BY <1>3 DEF JobRow, JobStatus
  <2>. HIDE DEF row
  <2>. QED  BY <1>1, <1>2, <1>3, <2>1, JobWritten DEF OnlyJob
<1>8. Debit(jobs[j].provider, jobs[j].compensation)
      /\ escrows' = [escrows EXCEPT ![j] = [status |-> "HELD", amount |-> jobs[j].compensation,
                                            worker |-> applications[a].worker]]
  BY <1>1, <1>4, <1>5 DEF Hold
<1>9. Hire(a, j)
  <2>1. \E p : p.app = a /\ p.job = j /\ AcceptOneRejectOthers(p)
    BY <1>1
  <2>. HIDE DEF a, j
  <2>. QED  BY <1>1, <1>4, <1>5, <1>6, <1>7, <1>8, <2>1 DEF Hire
<1>. QED  BY <1>1, <1>3, <1>9

-----------------------------------------------------------------------------
(***************************************************************************)
(* Every step is an operation and leaves a turn.                           *)
(***************************************************************************)

\* A step that leaves the tables alone.
LEMMA ReadIsNothing ==
  ASSUME UNCHANGED db
  PROVE  Operation
BY DEF db, money, Operation, Nothing

\* A handler's step.
LEMMA RequestStepInTurn ==
  ASSUME OneAtATime, SInv, NEW r \in Requests,
         JobStep(r) \/ StatusStep(r) \/ ApplicationStep(r) \/ Abort(r)
  PROVE  Operation /\ Turn'
<1>1. TypeOK /\ Turn
  BY DEF SInv, IInv
<1>2. ASSUME inflight[r] # Idle, Finish(r)  PROVE Turn'
  BY <1>1, <1>2, LeavesQuiet, QuietIsATurn
<1>3. CASE \/ \E p \in Providers, c \in Amounts : CreateJobCheck(r, p, c)
           \/ \E j \in Jobs, c \in Amounts \cup {0} : UpdateJobRead(r, j, c)
           \/ \E j \in Jobs : DeleteJobRead(r, j)
           \/ \E j \in Jobs, s \in {"IN_PROGRESS", "COMPLETED"} : WorkerStatusRead(r, j, s)
           \/ \E j \in Jobs : CancelJobRead(r, j) \/ RejectJobRead(r, j) \/ ApproveJobRead(r, j)
           \/ \E j \in Jobs, w \in Workers : ApplyFindJob(r, j, w)
           \/ ApplyFindDuplicate(r) \/ ApplyFindWallet(r)
           \/ \E a \in Apps, s \in {"REJECTED", "UNDER_REVIEW"} : ReviewRead(r, a, s)
           \/ \E a \in Apps : AcceptRead(r, a) \/ CancelApplicationRead(r, a)
           \/ AcceptReadJob(r) \/ AcceptCheckBalance(r)
  <2>1. Turn'
    BY <1>3, ReadersKeepTurn DEF SInv
  <2>2. UNCHANGED db
    BY <1>3 DEF CreateJobCheck, UpdateJobRead, DeleteJobRead, WorkerStatusRead, CancelJobRead,
         RejectJobRead, ApproveJobRead, ApplyFindJob, ApplyFindDuplicate, ApplyFindWallet,
         ReviewRead, AcceptRead, CancelApplicationRead, AcceptReadJob, AcceptCheckBalance,
         Begin, Continue
  <2>. QED  BY <2>1, <2>2, ReadIsNothing
<1>4. CASE CreateJobCommit(r) \/ UpdateJobCommit(r) \/ DeleteJobCommit(r) \/ CancelJobCommit(r)
  BY <1>2, <1>4, JobCommitsAreOperations DEF Operation
<1>5. CASE WorkerStatusCommit(r) \/ RejectJobCommit(r)
  BY <1>2, <1>5, StatusCommitsAreOperations DEF Operation
<1>6. CASE ApproveJobCommit(r)
  BY <1>2, <1>6, PaymentsAreOperations DEF Operation
<1>7. CASE ApplyCreate(r) \/ ReviewCommit(r) \/ CancelApplicationCommit(r)
  BY <1>2, <1>7, ApplicationCommitsAreOperations DEF Operation
<1>8. CASE AcceptCommit(r)
  BY <1>2, <1>8, AcceptCommitIsAnOperation DEF Operation
<1>9. CASE Abort(r)
  BY <1>2, <1>9, ReadIsNothing DEF Abort, Finish
<1>. QED  BY <1>3, <1>4, <1>5, <1>6, <1>7, <1>8, <1>9 DEF JobStep, StatusStep, ApplicationStep

\* Nobody else is in flight while a loop of the cron changes its own state to c.
LEMMA LoopsInTurn ==
  ASSUME TypeOK, NEW l \in Loops, OnlyCron(l), UNCHANGED inflight,
         NEW c, cron' = [cron EXCEPT ![l] = c],
         \A f \in c.queue : jobs'[f.job].status = "COMPLETED"
  PROVE  Turn'
<1>1. cron'[l] = c /\ \A k \in Loops : k # l => cron'[k] = cron[k]
  BY DEF TypeOK
<1>2. OnlyCron(l)'
  BY <1>1 DEF OnlyCron, NoHandler
<1>3. CronCurrent(l)'
  BY <1>1 DEF CronCurrent
<1>. QED  BY <1>2, <1>3 DEF Turn

\* A step of the cron: what is behind it in its queue stays COMPLETED.
LEMMA CronStepInTurn ==
  ASSUME OneAtATime, SInv, NEW l \in Loops, CronStep(l)
  PROVE  Operation /\ Turn'
<1>0. TypeOK
  BY DEF SInv, IInv
<1>1. CASE CronFetch(l)
  <2>1. OnlyCron(l) /\ UNCHANGED <<db, inflight>>
    BY <1>1, StartsAlone DEF CronFetch, Quiet, NoCron, OnlyCron
  <2>2. PICK c \in [queue : {DueRows}, at : DueRows] : cron' = [cron EXCEPT ![l] = c]
    BY <1>1 DEF CronFetch
  <2>3. \A f \in c.queue : jobs'[f.job].status = "COMPLETED"
    BY <2>1, <2>2 DEF DueRows, Due, db
  <2>4. Turn'
    BY <1>0, <2>1, <2>2, <2>3, LoopsInTurn
  <2>. QED  BY <2>1, <2>4, ReadIsNothing
<1>2. CASE CronStop(l)
  <2>1. OnlyCron(l)
    BY <1>2 DEF CronStop, SInv, Turn, Quiet, OnlyRequest, OnlyCron, NoCron
  <2>2. PICK c \in {NoLoop} : cron' = [cron EXCEPT ![l] = c] /\ UNCHANGED <<db, inflight>>
    BY <1>2 DEF CronStop
  <2>3. \A f \in c.queue : jobs'[f.job].status = "COMPLETED"
    BY <2>2 DEF NoLoop
  <2>4. Turn'
    BY <1>0, <2>1, <2>2, <2>3, LoopsInTurn
  <2>. QED  BY <2>2, <2>4, ReadIsNothing
<1>3. ASSUME NEW f \in cron[l].queue, CronPay(l, f)  PROVE Operation /\ Turn'
  <2>1. OnlyCron(l) /\ CronCurrent(l) /\ f.job \in Jobs
    BY <1>3, PaymentsAreOperations
  <2>2. PICK net \in Nat, fee \in Nat : Pay(f.job, net, fee)
    BY <1>3, PaymentsAreOperations
  <2>3. Operation
    BY <2>1, <2>2 DEF Operation
  <2>4. PICK c \in {NoLoop} \cup [queue : {cron[l].queue \ {f}}, at : cron[l].queue] :
          cron' = [cron EXCEPT ![l] = c]
    BY <1>3 DEF CronPay
  <2>5. ASSUME NEW g \in cron[l].queue \ {f}
        PROVE  jobs'[g.job].status = "COMPLETED"
    <3>1. g \in Fetched /\ f \in Fetched /\ jobs[g.job].status = "COMPLETED"
      BY <1>0, <2>1 DEF TypeOK, CronCurrent
    <3>2. g.worker = jobs[g.job].worker /\ f.worker = jobs[f.job].worker
      BY <1>3, <3>1 DEF SInv, IInv, Snapshots, CronSnapshot, JobExists, JobStatus, CronPay, Payable
    <3>3. g.job # f.job
      BY <3>1, <3>2 DEF Fetched
    <3>. QED  BY <2>2, <3>1, <3>3 DEF Pay, OnlyJob, Fetched
  <2>6. \A g \in c.queue : jobs'[g.job].status = "COMPLETED"
    BY <2>4, <2>5 DEF NoLoop
  <2>7. Turn'
    BY <1>0, <1>3, <2>1, <2>4, <2>6, LoopsInTurn DEF CronPay
  <2>. QED  BY <2>3, <2>7
<1>. QED  BY <1>1, <1>2, <1>3 DEF CronStep

\* While a job grows old, what somebody has checked of it stays as it is.
LEMMA AgeingKeepsTurn ==
  ASSUME SInv, NEW j \in Jobs, Age(j)
  PROVE  Operation /\ Turn'
<1>1. /\ \A i \in Jobs : /\ jobs'[i].status = jobs[i].status /\ jobs'[i].worker = jobs[i].worker
                         /\ jobs'[i].provider = jobs[i].provider
                         /\ jobs'[i].compensation = jobs[i].compensation
      /\ UNCHANGED <<applications, money, inflight, cron>>
  <2>1. jobs \in [Jobs -> JobRow] /\ jobs' = [jobs EXCEPT ![j].aged = TRUE]
    BY DEF SInv, IInv, TypeOK, Age
  <2>2. \A i \in Jobs : jobs'[i] = IF i = j THEN [jobs[j] EXCEPT !.aged = TRUE] ELSE jobs[i]
    BY <2>1
  <2>. QED  BY <2>1, <2>2 DEF JobRow, Age
<1>2. Operation
  BY <1>1 DEF Operation, Nothing, money
<1>3. ASSUME NEW r \in Requests, Current(inflight[r])
      PROVE  Current(inflight[r])'
  <2>. PICK q : q = inflight[r]
    OBVIOUS
  <2>1. q \in Request /\ Current(q)
    BY <1>3 DEF SInv, IInv, TypeOK
  <2>2. /\ q.op \in AboutJob => q.job \in Jobs
        /\ q.op \in AboutApplication => q.app \in Apps
        /\ q.op \in AboutAcceptance \cup {"review"} => q.op \in AboutApplication
    BY <2>1, RequestFields DEF AboutApplication
  <2>3. ASSUME q.op \in AboutAcceptance \cup {"review"}
        PROVE  applications[q.app].job \in Jobs
    <3>1. q.app \in Apps /\ applications[q.app].status \in Undecided
      BY <2>1, <2>2, <2>3 DEF Current
    <3>. QED  BY <3>1 DEF SInv, IInv, RowsFilled, ApplicationExists, Undecided
  <2>4. /\ q.op \in AboutJob => /\ jobs'[q.job].status = jobs[q.job].status
                                /\ jobs'[q.job].worker = jobs[q.job].worker
                                /\ jobs'[q.job].provider = jobs[q.job].provider
                                /\ jobs'[q.job].compensation = jobs[q.job].compensation
        /\ q.op \in AboutAcceptance \cup {"review"} =>
             jobs'[applications[q.app].job].status = jobs[applications[q.app].job].status
    BY <1>1, <2>2, <2>3
  <2>5. UNCHANGED <<applications, wallets>>
    BY <1>1 DEF money
  <2>6. Current(q)'
    BY <2>1, <2>4, <2>5
    DEF Current, AboutJob, AboutHiredJob, AboutAcceptance, AboutApplication, Applying
  <2>. QED  BY <1>1, <2>6
<1>4. \A l \in Loops : CronCurrent(l) => CronCurrent(l)'
  BY <1>1 DEF CronCurrent, SInv, IInv, TypeOK, Fetched
<1>5. /\ Quiet => Quiet'
      /\ \A l \in Loops : OnlyCron(l) => OnlyCron(l)'
      /\ \A r \in Requests : OnlyRequest(r) => OnlyRequest(r)'
  BY <1>1 DEF Quiet, NoHandler, NoCron, OnlyCron, OnlyRequest
<1>6. Turn'
  BY <1>3, <1>4, <1>5 DEF SInv, Turn
<1>. QED  BY <1>2, <1>6

\* Top-ups and admins come between handlers.
LEMMA EnvironmentStepInTurn ==
  ASSUME OneAtATime, SInv, Environment
  PROVE  Operation /\ Turn'
<1>1. ASSUME NEW j \in Jobs, Age(j)  PROVE Operation /\ Turn'
  BY <1>1, AgeingKeepsTurn DEF SInv
<1>2. ASSUME Load < MaxInFlight, UNCHANGED <<inflight, cron>>  PROVE Turn'
  BY <1>2, StartsAlone, QuietIsATurn DEF Quiet, NoHandler, NoCron
<1>3. ASSUME NEW u \in Funders, NEW amount \in Amounts, Topup(u, amount)
      PROVE  Operation /\ Turn'
  <2>1. Deposit(u, amount)
    BY <1>3 DEF Topup, Deposit
  <2>. QED  BY <1>2, <1>3, <2>1 DEF Topup, Operation
<1>4. ASSUME NEW u \in Suspendable, NEW s, SetWalletStatus(u, s)
      PROVE  Operation /\ Turn'
  <2>1. Nothing
    BY <1>4 DEF SetWalletStatus, Nothing, SInv, IInv, TypeOK, WalletRow
  <2>. QED  BY <1>2, <1>4, <2>1 DEF SetWalletStatus, Operation
<1>. QED  BY <1>1, <1>3, <1>4 DEF Environment, SuspendWallet, ActivateWallet, CloseWallet

-----------------------------------------------------------------------------
(***************************************************************************)
(* Every operation keeps the claims.                                       *)
(***************************************************************************)

\* A posting without a worker has nothing that could be lost by editing it.
LEMMA DraftKeepsClaims ==
  ASSUME IInv, IInv', Claims, NEW j \in Jobs, Draft(j)
  PROVE  Claims'
<1>1. /\ jobs[j].worker = None /\ jobs'[j].worker = None
      /\ \A i \in Jobs : i # j => jobs'[i] = jobs[i]
      /\ UNCHANGED <<applications, escrows, wallets, platform, funded>>
  BY DEF Draft, OnlyJob
<1>2. escrows[j].status = "none"
  BY <1>1 DEF IInv, HiredJobHasEscrow, TypeOK, EscrowRow
<1>3. HiredIsWorking' /\ PaidIsApproved' /\ NoneIsEmpty'
  BY <1>1, <1>2 DEF Claims, HiredIsWorking, PaidIsApproved, NoneIsEmpty
<1>4. NoOverdraft' /\ EscrowIsCompensation' /\ OneApplicationPerWorker'
  BY <1>1 DEF Claims, NoOverdraft, EscrowIsCompensation, OneApplicationPerWorker, ApplicationExists
<1>5. HiringClosesApplications'
  BY <1>1 DEF Claims, HiringClosesApplications
<1>. QED  BY <1>3, <1>4, <1>5 DEF Claims

\* Progress changes neither the worker nor the price, nor anything about money.
LEMMA ProgressKeepsClaims ==
  ASSUME IInv, IInv', Claims, NEW j \in Jobs, Progress(j)
  PROVE  Claims'
<1>1. /\ jobs'[j].worker = jobs[j].worker /\ jobs'[j].compensation = jobs[j].compensation
      /\ jobs[j].status # "APPROVED" /\ jobs'[j].status \in Working
      /\ \A i \in Jobs : i # j => jobs'[i] = jobs[i]
      /\ UNCHANGED <<applications, escrows, wallets, platform, funded>>
  BY DEF Progress, OnlyJob
<1>2. HiredIsWorking' /\ PaidIsApproved' /\ NoneIsEmpty'
  BY <1>1 DEF Claims, HiredIsWorking, PaidIsApproved, NoneIsEmpty
<1>3. NoOverdraft' /\ EscrowIsCompensation' /\ OneApplicationPerWorker'
  BY <1>1 DEF Claims, NoOverdraft, EscrowIsCompensation, OneApplicationPerWorker, ApplicationExists
<1>4. HiringClosesApplications'
  BY <1>1 DEF Claims, HiringClosesApplications
<1>. QED  BY <1>2, <1>3, <1>4 DEF Claims

\* Nobody loses by being paid.
LEMMA PayKeepsClaims ==
  ASSUME IInv, IInv', Claims, NEW j \in Jobs, NEW net \in Nat, NEW fee \in Nat, Pay(j, net, fee)
  PROVE  Claims'
<1>1. /\ jobs'[j].worker = jobs[j].worker /\ jobs'[j].compensation = jobs[j].compensation
      /\ jobs'[j].status = "APPROVED"
      /\ \A i \in Jobs : i # j => jobs'[i] = jobs[i]
      /\ UNCHANGED applications
  BY DEF Pay, OnlyJob
<1>2. /\ escrows'[j].status = "RELEASED" /\ escrows'[j].amount = escrows[j].amount
      /\ \A i \in Jobs : i # j => escrows'[i] = escrows[i]
  BY DEF Pay, IInv, TypeOK, EscrowRow
<1>3. \A u \in Users : wallets'[u].balance >= wallets[u].balance
  <2>1. \A u \in Users : wallets[u] \in WalletRow
    BY DEF IInv, TypeOK
  <2>2. \A u \in Users : wallets'[u].balance \in {wallets[u].balance, wallets[u].balance + net}
    BY <2>1 DEF Pay, Credit, WalletRow, IInv, TypeOK
  <2>3. \A u \in Users : wallets[u].balance \in Int
    BY <2>1 DEF WalletRow
  <2>. QED  BY <2>2, <2>3
<1>4. HiredIsWorking' /\ PaidIsApproved' /\ NoneIsEmpty'
  BY <1>1, <1>2 DEF Claims, HiredIsWorking, PaidIsApproved, NoneIsEmpty, Working
<1>5. NoOverdraft'
  <2>1. \A u \in Users : wallets[u].balance \in Int /\ wallets'[u].balance \in Int
    BY DEF IInv, TypeOK, WalletRow
  <2>. QED  BY <1>3, <2>1 DEF Claims, NoOverdraft
<1>6. EscrowIsCompensation' /\ OneApplicationPerWorker'
  BY <1>1, <1>2 DEF Claims, EscrowIsCompensation, OneApplicationPerWorker, ApplicationExists
<1>7. HiringClosesApplications'
  BY <1>1 DEF Claims, HiringClosesApplications
<1>. QED  BY <1>4, <1>5, <1>6, <1>7 DEF Claims

\* Only open jobs are applied to, and open jobs have no worker.
LEMMA ProposeKeepsClaims ==
  ASSUME IInv, IInv', Claims, NEW a \in Apps, Propose(a)
  PROVE  Claims'
<1>1. UNCHANGED <<jobs, escrows, wallets, platform, funded>>
  BY DEF Propose
<1>2. HiredIsWorking' /\ PaidIsApproved' /\ NoneIsEmpty' /\ NoOverdraft' /\ EscrowIsCompensation'
  BY <1>1 DEF Claims, HiredIsWorking, PaidIsApproved, NoneIsEmpty, NoOverdraft, EscrowIsCompensation
<1>3. OneApplicationPerWorker'
  <2>1. \A b \in Apps : b # a => /\ ~ (applications'[b].job = applications'[a].job
                                       /\ applications'[b].worker = applications'[a].worker)
                                 /\ applications'[b] = applications[b]
    BY DEF Propose, OnlyApplication
  <2>. QED  BY <2>1 DEF Claims, OneApplicationPerWorker, ApplicationExists
<1>4. HiringClosesApplications'
  <2>1. jobs[applications'[a].job].worker = None
    BY DEF Propose, Claims, HiredIsWorking, Working
  <2>2. \A b \in Apps : b # a => applications'[b] = applications[b]
    BY DEF Propose, OnlyApplication
  <2>3. applications[a].status = "unborn"
    BY DEF Propose
  <2>. QED  BY <1>1, <2>1, <2>2, <2>3 DEF Claims, HiringClosesApplications
<1>. QED  BY <1>2, <1>3, <1>4 DEF Claims

\* Nobody withdraws or rejects what was accepted.
LEMMA SettleKeepsClaims ==
  ASSUME IInv, IInv', Claims, NEW a \in Apps, Settle(a)
  PROVE  Claims'
<1>1. UNCHANGED <<jobs, escrows, wallets, platform, funded>>
  BY DEF Settle
<1>2. HiredIsWorking' /\ PaidIsApproved' /\ NoneIsEmpty' /\ NoOverdraft' /\ EscrowIsCompensation'
  BY <1>1 DEF Claims, HiredIsWorking, PaidIsApproved, NoneIsEmpty, NoOverdraft, EscrowIsCompensation
<1>3. /\ applications[a].status \in Undecided
      /\ \A b \in Apps : b # a => applications'[b] = applications[b]
  BY DEF Settle, OnlyApplication
<1>4. CASE applications'[a] = NoApplication("deleted")
  <2>1. applications'[a].status = "deleted" /\ applications'[a].job = None
    BY <1>4 DEF NoApplication
  <2>2. OneApplicationPerWorker'
    BY <1>3, <2>1 DEF Claims, OneApplicationPerWorker, ApplicationExists
  <2>3. HiringClosesApplications'
    BY <1>1, <1>3, <2>1, PartiesAssumption DEF Claims, HiringClosesApplications, Undecided
  <2>. QED  BY <1>2, <2>2, <2>3 DEF Claims
<1>5. CASE /\ jobs[applications[a].job].status = "OPEN"
           /\ applications'[a].job = applications[a].job
           /\ applications'[a].worker = applications[a].worker
  <2>1. OneApplicationPerWorker'
    BY <1>3, <1>5 DEF Claims, OneApplicationPerWorker, ApplicationExists, Undecided
  <2>2. applications[a].job \in Jobs /\ jobs[applications[a].job].worker = None
    BY <1>3, <1>5 DEF IInv, RowsFilled, ApplicationExists, Undecided, Claims, HiredIsWorking, Working
  <2>3. HiringClosesApplications'
    BY <1>1, <1>3, <1>5, <2>2 DEF Claims, HiringClosesApplications, Undecided
  <2>. QED  BY <1>2, <2>1, <2>3 DEF Claims
<1>. QED  BY <1>4, <1>5 DEF Settle

\* The employer can pay, the price is the posting's, and nobody is left waiting.
LEMMA HireKeepsClaims ==
  ASSUME IInv, IInv', Claims, NEW a \in Apps, NEW j \in Jobs, Hire(a, j)
  PROVE  Claims'
<1>1. /\ jobs[j].status = "OPEN" /\ jobs'[j].status = "ASSIGNED"
      /\ jobs'[j].worker = applications[a].worker
      /\ jobs'[j].compensation = jobs[j].compensation
      /\ applications[a].job = j /\ applications[a].status \in Undecided
      /\ \A i \in Jobs : i # j => jobs'[i] = jobs[i]
  BY DEF Hire, OnlyJob
<1>2. /\ escrows'[j].status = "HELD" /\ escrows'[j].amount = jobs[j].compensation
      /\ \A i \in Jobs : i # j => escrows'[i] = escrows[i]
  BY DEF Hire, IInv, TypeOK
<1>3. /\ applications'[a].status = "ACCEPTED"
      /\ \A b \in Apps : /\ applications'[b].job = applications[b].job
                         /\ applications'[b].worker = applications[b].worker
                         /\ applications'[b].status \in {"unborn", "deleted"} <=>
                              applications[b].status \in {"unborn", "deleted"}
                         /\ b # a /\ applications[b].job = j =>
                              applications'[b].status \notin Undecided
                         /\ b # a /\ applications[b].job # j => applications'[b] = applications[b]
  <2>1. PICK q : q.app = a /\ q.job = j /\ AcceptOneRejectOthers(q)
    BY DEF Hire
  <2>. QED  BY <1>1, <2>1 DEF AcceptOneRejectOthers, Undecided, IInv, TypeOK, ApplicationRow
<1>4. HiredIsWorking' /\ PaidIsApproved' /\ NoneIsEmpty'
  BY <1>1, <1>2 DEF Claims, HiredIsWorking, PaidIsApproved, NoneIsEmpty, Working
<1>5. NoOverdraft'
  <2>1. jobs[j].provider \in Users /\ jobs[j].compensation \in Int
    <3>1. JobExists(j)
      BY <1>1 DEF JobExists, JobStatus
    <3>2. jobs[j].provider \in Providers /\ jobs[j].compensation \in Amounts
      BY <3>1 DEF IInv, RowsFilled
    <3>3. Amounts \subseteq Int
      BY AmountAssumption
    <3>. QED  BY <3>2, <3>3 DEF Users
  <2>2. \A u \in Users : wallets[u] \in WalletRow
    BY DEF IInv, TypeOK
  <2>3. \A u \in Users : wallets'[u].balance = IF u = jobs[j].provider
                                               THEN wallets[u].balance - jobs[j].compensation
                                               ELSE wallets[u].balance
    BY <2>2 DEF Hire, Debit, IInv, TypeOK, WalletRow
  <2>4. wallets[jobs[j].provider].balance >= jobs[j].compensation
        /\ \A u \in Users : wallets[u].balance \in Int
    BY <2>2 DEF Hire, WalletRow
  <2>. QED  BY <2>1, <2>3, <2>4 DEF Claims, NoOverdraft
<1>6. EscrowIsCompensation'
  BY <1>1, <1>2 DEF Claims, EscrowIsCompensation
<1>7. OneApplicationPerWorker'
  BY <1>3 DEF Claims, OneApplicationPerWorker, ApplicationExists
<1>8. HiringClosesApplications'
  BY <1>1, <1>3 DEF Claims, HiringClosesApplications, Undecided
<1>. QED  BY <1>4, <1>5, <1>6, <1>7, <1>8 DEF Claims

\* Deposits only add to balances.
LEMMA OthersKeepClaims ==
  ASSUME IInv, IInv', Claims, Nothing \/ \E u \in Funders, amount \in Amounts : Deposit(u, amount)
  PROVE  Claims'
<1>1. /\ \A j \in Jobs : /\ jobs'[j].status = jobs[j].status /\ jobs'[j].worker = jobs[j].worker
                         /\ jobs'[j].compensation = jobs[j].compensation
      /\ UNCHANGED <<applications, escrows>>
  BY DEF Nothing, Deposit
<1>2. HiredIsWorking' /\ PaidIsApproved' /\ NoneIsEmpty' /\ EscrowIsCompensation'
  BY <1>1 DEF Claims, HiredIsWorking, PaidIsApproved, NoneIsEmpty, EscrowIsCompensation
<1>3. OneApplicationPerWorker' /\ HiringClosesApplications'
  BY <1>1 DEF Claims, OneApplicationPerWorker, HiringClosesApplications, ApplicationExists
<1>4. NoOverdraft'
  <2>1. \A u \in Users : wallets[u] \in WalletRow /\ wallets[u].balance \in Int
    BY DEF IInv, TypeOK, WalletRow
  <2>2. \A x \in Amounts : x \in Nat
    BY AmountAssumption
  <2>3. \A u \in Users : \E x \in Nat : wallets'[u].balance = wallets[u].balance + x
    <3>1. CASE Nothing
      BY <2>1, <3>1 DEF Nothing
    <3>2. ASSUME NEW v \in Funders, NEW amount \in Amounts, Deposit(v, amount)
          PROVE  \A u \in Users : \E x \in Nat : wallets'[u].balance = wallets[u].balance + x
      <4>1. \A u \in Users : wallets'[u].balance \in {wallets[u].balance, wallets[u].balance + amount}
        BY <2>1, <3>2 DEF Deposit, Credit, IInv, TypeOK, WalletRow
      <4>. QED  BY <2>1, <2>2, <4>1
    <3>. QED  BY <3>1, <3>2
  <2>. QED  BY <2>1, <2>3 DEF Claims, NoOverdraft
<1>. QED  BY <1>2, <1>3, <1>4 DEF Claims

\* The cases together.
LEMMA OperationKeepsClaims ==
  ASSUME IInv, IInv', Claims, Operation
  PROVE  Claims'
BY DraftKeepsClaims, ProgressKeepsClaims, PayKeepsClaims, ProposeKeepsClaims, SettleKeepsClaims,
   HireKeepsClaims, OthersKeepClaims DEF Operation

-----------------------------------------------------------------------------
(***************************************************************************)
(* The invariant of turns.                                                 *)
(***************************************************************************)

\* The empty tables.
LEMMA InitSInv ==
  ASSUME Init
  PROVE  SInv
<1>1. IInv
  BY InitIInv
<1>2. Turn
  BY DEF Init, Turn, Quiet, NoHandler, NoCron
<1>3. Claims
  BY DEF Init, Claims, HiredIsWorking, PaidIsApproved, NoneIsEmpty, NoOverdraft,
         EscrowIsCompensation, OneApplicationPerWorker, HiringClosesApplications,
         NoJob, NoEscrow, NoApplication, ApplicationExists
<1>. QED  BY <1>1, <1>2, <1>3 DEF SInv

\* A step that does nothing leaves the turn as it is.
LEMMA StutterInTurn ==
  ASSUME SInv, UNCHANGED vars
  PROVE  Operation /\ Turn'
<1>1. Operation
  BY ReadIsNothing DEF vars, db, money
<1>2. UNCHANGED <<jobs, applications, wallets, inflight, cron>>
  BY DEF vars
<1>3. ASSUME Quiet  PROVE Turn'
  BY <1>2, <1>3 DEF Turn, Quiet, NoHandler, NoCron
<1>4. ASSUME NEW r \in Requests, OnlyRequest(r), Current(inflight[r])
      PROVE  Turn'
  <2>1. OnlyRequest(r)'
    BY <1>2, <1>4 DEF OnlyRequest, NoCron
  <2>2. PICK q : q = inflight[r]
    OBVIOUS
  <2>3. Current(q)'
    BY <1>2, <1>4, <2>2 DEF Current
  <2>4. Current(inflight[r])'
    BY <1>2, <2>2, <2>3
  <2>. QED  BY <2>1, <2>4 DEF Turn
<1>5. ASSUME NEW l \in Loops, OnlyCron(l), CronCurrent(l)  PROVE Turn'
  BY <1>2, <1>5 DEF Turn, OnlyCron, NoHandler, CronCurrent
<1>. QED  BY <1>1, <1>3, <1>4, <1>5 DEF SInv, Turn

\* Every step of the marketplace.
LEMMA StepInTurn ==
  ASSUME OneAtATime, SInv, [Next]_vars
  PROVE  Operation /\ Turn'
BY RequestStepInTurn, CronStepInTurn, EnvironmentStepInTurn, StutterInTurn DEF Next

\* SInv is inductive.
LEMMA NextKeepsSInv ==
  ASSUME OneAtATime, SInv, [Next]_vars
  PROVE  SInv'
<1>1. IInv'
  BY NextKeepsIInv DEF SInv
<1>. QED  BY <1>1, StepInTurn, OperationKeepsClaims DEF SInv

\* One after the other, handlers and the cron keep SInv.
THEOREM SerialInductive ==
  ASSUME OneAtATime
  PROVE  Spec => []SInv
<1>1. Init => SInv
  BY InitSInv
<1>2. SInv /\ [Next]_vars => SInv'
  BY NextKeepsSInv
<1>. QED  BY <1>1, <1>2, PTL DEF Spec

\* Every state of a run with one handler at a time satisfies the claims.
LEMMA ClaimsHold ==
  ASSUME OneAtATime
  PROVE  Spec => [](IInv /\ Claims)
<1>1. SInv => IInv /\ Claims
  BY DEF SInv
<1>. QED  BY <1>1, SerialInductive, PTL

\* Nobody is charged more than they have: the balance that updateApplicationStatus
\* read is the balance it debits, when no other handler runs.
THEOREM NobodyOverdraws ==
  ASSUME OneAtATime
  PROVE  Spec => []NoOverdraft
BY ClaimsHold, PTL DEF Claims

\* The price that was held is the price of the posting: updateJob and acceptance do
\* not overtake each other.
THEOREM PriceIsHeld ==
  ASSUME OneAtATime
  PROVE  Spec => []EscrowIsCompensation
BY ClaimsHold, PTL DEF Claims

\* Cancelling and hiring exclude each other.
THEOREM CancelledIsFree ==
  ASSUME OneAtATime
  PROVE  Spec => []CancelledJobHasNoWorker
<1>1. Claims => CancelledJobHasNoWorker
  BY DEF Claims, HiredIsWorking, CancelledJobHasNoWorker, Working
<1>. QED  BY <1>1, ClaimsHold, PTL

\* The lookup of applyJob finds every earlier application.
THEOREM AppliesOnce ==
  ASSUME OneAtATime
  PROVE  Spec => []OneApplicationPerWorker
BY ClaimsHold, PTL DEF Claims

\* An acceptance decides every application to the job, and none arrives afterwards.
THEOREM HiringDecidesAll ==
  ASSUME OneAtATime
  PROVE  Spec => []HiringClosesApplications
BY ClaimsHold, PTL DEF Claims

-----------------------------------------------------------------------------
(***************************************************************************)
(* What one step may do.                                                   *)
(***************************************************************************)
OnTheirWay == \A j \in Jobs : OnItsWay(j)

Invited ==
  /\ \A j \in Jobs : jobs[j].status = "unborn" /\ jobs'[j].status # "unborn"
                      => wallets[jobs'[j].provider].status \notin Blocked
  /\ \A a \in Apps : applications[a].status = "unborn" /\ applications'[a].status # "unborn"
                      => wallets[applications'[a].worker].status \notin Blocked

\* An operation moves one job, along its life cycle.
LEMMA OperationsAreOnTheirWay ==
  ASSUME Operation
  PROVE  OnTheirWay
<1>1. ASSUME NEW j \in Jobs, OnItsWay(j), OnlyJob(j)  PROVE OnTheirWay
  BY <1>1 DEF OnTheirWay, OnItsWay, OnlyJob
<1>2. ASSUME NEW j \in Jobs, Draft(j) \/ Progress(j)  PROVE OnTheirWay
  BY <1>1, <1>2 DEF Draft, Progress
<1>3. ASSUME NEW j \in Jobs, NEW net, NEW fee, Pay(j, net, fee)  PROVE OnTheirWay
  BY <1>1, <1>3 DEF Pay, OnItsWay, Successors
<1>4. ASSUME NEW a, NEW j \in Jobs, Hire(a, j)  PROVE OnTheirWay
  BY <1>1, <1>4 DEF Hire, OnItsWay, Successors
<1>5. ASSUME \A j \in Jobs : jobs'[j].status = jobs[j].status  PROVE OnTheirWay
  BY <1>5 DEF OnTheirWay, OnItsWay
<1>. QED  BY <1>2, <1>3, <1>4, <1>5 DEF Operation, Propose, Settle, Deposit, Nothing

\* An operation lets in nobody whose wallet is blocked.
LEMMA OperationsInviteOnly ==
  ASSUME Operation
  PROVE  Invited
<1>1. ASSUME NEW j \in Jobs, OnlyJob(j), UNCHANGED applications,
             jobs[j].status = "unborn" => wallets[jobs'[j].provider].status \notin Blocked
      PROVE  Invited
  BY <1>1 DEF Invited, OnlyJob
<1>2. ASSUME NEW j \in Jobs, Draft(j) \/ Progress(j)  PROVE Invited
  BY <1>1, <1>2 DEF Draft, Progress
<1>3. ASSUME NEW j \in Jobs, NEW net, NEW fee, Pay(j, net, fee)  PROVE Invited
  BY <1>1, <1>3 DEF Pay
<1>4. ASSUME NEW a \in Apps, Propose(a) \/ Settle(a)  PROVE Invited
  BY <1>4 DEF Propose, Settle, OnlyApplication, Undecided, Invited
<1>5. ASSUME NEW a \in Apps, NEW j \in Jobs, Hire(a, j)  PROVE Invited
  <2>1. \A i \in Jobs : jobs[i].status = "unborn" => jobs'[i] = jobs[i]
    BY <1>5 DEF Hire, OnlyJob
  <2>2. \A b \in Apps : applications[b].status = "unborn" => applications'[b] = applications[b]
    BY <1>5 DEF Hire, AcceptOneRejectOthers, Undecided
  <2>. QED  BY <2>1, <2>2 DEF Invited
<1>6. ASSUME \A j \in Jobs : jobs'[j].status = jobs[j].status, UNCHANGED applications
      PROVE  Invited
  BY <1>6 DEF Invited
<1>. QED  BY <1>2, <1>3, <1>4, <1>5, <1>6 DEF Operation, Deposit, Nothing

\* No handler and no cron loop moves a job against its life cycle.
THEOREM JobsLiveInOrder ==
  ASSUME OneAtATime
  PROVE  Spec => JobLifecycle
<1>1. SInv /\ [Next]_vars => OnTheirWay
  BY StepInTurn, OperationsAreOnTheirWay
<1>2. Spec => [][OnTheirWay]_vars
  BY <1>1, SerialInductive, PTL DEF Spec
<1>. QED  BY <1>2 DEF JobLifecycle, OnTheirWay, OnItsWay

\* The wallet checks of createJob and applyJob keep blocked users out.
THEOREM BlockedStayOut ==
  ASSUME OneAtATime
  PROVE  Spec => BlockedUsersCannotEnter
<1>1. SInv /\ [Next]_vars => Invited
  BY StepInTurn, OperationsInviteOnly
<1>2. Spec => [][Invited]_vars
  BY <1>1, SerialInductive, PTL DEF Spec
<1>. QED  BY <1>2 DEF BlockedUsersCannotEnter, Invited

-----------------------------------------------------------------------------
(***************************************************************************)
(* The money: no operation creates or destroys any, nobody is paid twice,  *)
(* and the operations are steps of EscrowPromise.                          *)
(***************************************************************************)

AllInWallets == SumFunction(Balances)
AllHeld      == SumFunction(Holdings)
AllCents     == SumFunction(SplitCents)

MoneyInv == SInv /\ MoneyIsConserved /\ WorkersEarnOnce

-----------------------------------------------------------------------------
(***************************************************************************)
(* The sums are numbers, and how they change.                              *)
(***************************************************************************)

\* The terms of the sums.
LEMMA Terms ==
  ASSUME TypeOK
  PROVE  /\ IsFiniteSet(Users) /\ IsFiniteSet(Jobs)
         /\ Balances \in [Users -> Int] /\ Holdings \in [Jobs -> Int]
         /\ SplitCents \in [Jobs -> Int] /\ SplitCents \in [Jobs -> Nat]
         /\ \A w \in Workers : Earnings(w) \in [Jobs -> Int]
<1>1. IsFiniteSet(Users) /\ IsFiniteSet(Jobs)
  BY FinitenessAssumption DEF Users
<1>2. Balances \in [Users -> Int]
  BY DEF Balances, TypeOK, WalletRow
<1>3. \A j \in Jobs : escrows[j].amount \in Int
  BY HeldAmount
<1>. QED  BY <1>1, <1>2, <1>3 DEF Holdings, SplitCents, Earnings

\* The sums are numbers.
LEMMA SumsAreNumbers ==
  ASSUME TypeOK
  PROVE  /\ AllInWallets \in Int /\ AllHeld \in Int /\ AllCents \in Nat
         /\ \A w \in Workers : SumFunction(Earnings(w)) \in Int
BY Terms, TotalIsInteger, TotalIsNatural DEF AllInWallets, AllHeld, AllCents

\* One user's balance is d more, the others' are as they were.
Moves(u, d) ==
  \A v \in Users : wallets'[v].balance = IF v = u THEN wallets[v].balance + d ELSE wallets[v].balance

\* A credit is a move.
LEMMA CreditMoves ==
  ASSUME TypeOK, NEW u \in Users, NEW amount, Credit(u, amount)
  PROVE  Moves(u, amount)
<1>1. \A v \in Users : wallets[v] \in WalletRow
  BY DEF TypeOK
<1>. QED  BY <1>1 DEF TypeOK, WalletRow, Credit, Moves

\* A debit is a move of a negative amount.
LEMMA DebitMoves ==
  ASSUME TypeOK, NEW u \in Users, NEW amount \in Int, Debit(u, amount)
  PROVE  Moves(u, 0 - amount)
<1>1. \A v \in Users : wallets[v] \in WalletRow /\ wallets[v].balance \in Int
  BY DEF TypeOK, WalletRow
<1>2. \A v \in Users : wallets'[v].balance = IF v = u THEN wallets[v].balance - amount
                                             ELSE wallets[v].balance
  BY <1>1 DEF TypeOK, WalletRow, Debit
<1>. QED  BY <1>1, <1>2 DEF Moves

\* A wallet is credited or debited.
LEMMA WalletsChange ==
  ASSUME TypeOK, NEW u \in Users, NEW d \in Int, Moves(u, d)
  PROVE  AllInWallets' = AllInWallets + d
<1>1. PICK b \in [Users -> Int] : b = Balances
  BY Terms
<1>2. PICK c : c = Balances'
  OBVIOUS
<1>3. DOMAIN c = Users /\ c[u] = b[u] + d /\ \A v \in Users : v # u => c[v] = b[v]
  BY <1>1, <1>2 DEF Balances, Moves
<1>4. SumFunction(c) = SumFunction(b) + d
  BY <1>3, Terms, TotalChange
<1>. QED  BY <1>1, <1>2, <1>4 DEF AllInWallets

\* What is not written keeps its sum.
LEMMA SumsStay ==
  ASSUME UNCHANGED escrows
  PROVE  /\ AllHeld' = AllHeld /\ AllCents' = AllCents
         /\ \A w \in Workers : SumFunction(Earnings(w))' = SumFunction(Earnings(w))
BY DEF AllHeld, AllCents, Holdings, SplitCents, Earnings

\* An acceptance holds an amount, and earns nobody anything.
LEMMA HoldingsGrow ==
  ASSUME TypeOK, NEW j \in Jobs, escrows[j] = NoEscrow, NEW c \in Nat, NEW w,
         escrows' = [escrows EXCEPT ![j] = [status |-> "HELD", amount |-> c, worker |-> w]]
  PROVE  /\ AllHeld' = AllHeld + c /\ AllCents' = AllCents
         /\ \A v \in Workers : SumFunction(Earnings(v))' = SumFunction(Earnings(v))
<1>1. /\ escrows'[j].status = "HELD" /\ escrows'[j].amount = c
      /\ \A i \in Jobs : i # j => escrows'[i] = escrows[i]
      /\ escrows[j].status = "none"
  BY DEF TypeOK, NoEscrow
<1>2. PICK h \in [Jobs -> Int] : h = Holdings
  BY Terms
<1>3. PICK k : k = Holdings'
  OBVIOUS
<1>4. SumFunction(k) = SumFunction(h) + c
  <2>1. h[j] = 0 /\ k[j] = c /\ DOMAIN k = Jobs
    BY <1>1, <1>2, <1>3 DEF Holdings
  <2>2. \A i \in Jobs : i # j => k[i] = h[i]
    BY <1>1, <1>2, <1>3 DEF Holdings
  <2>3. k[j] = h[j] + c /\ c \in Int
    BY <2>1
  <2>. QED  BY <2>1, <2>2, <2>3, Terms, TotalChange
<1>5. SplitCents' = SplitCents /\ \A v \in Workers : Earnings(v)' = Earnings(v)
  BY <1>1 DEF SplitCents, Earnings
<1>. QED  BY <1>2, <1>3, <1>4, <1>5 DEF AllHeld, AllCents

\* A payment releases what was held: the worker has earned it, once.
LEMMA HoldingsShrink ==
  ASSUME TypeOK, NEW j \in Jobs, escrows[j].status = "HELD",
         escrows' = [escrows EXCEPT ![j].status = "RELEASED"]
  PROVE  /\ AllHeld' = AllHeld - escrows[j].amount
         /\ AllCents' = AllCents + IF (escrows[j].amount * FeePercent) % 100 = 50 THEN 1 ELSE 0
         /\ \A v \in Workers : SumFunction(Earnings(v))' =
              SumFunction(Earnings(v)) + IF escrows[j].worker = v THEN escrows[j].amount ELSE 0
<1>. DEFINE c == escrows[j].amount
            odd == IF (c * FeePercent) % 100 = 50 THEN 1 ELSE 0
<1>1. /\ escrows'[j].status = "RELEASED" /\ escrows'[j].amount = c
      /\ escrows'[j].worker = escrows[j].worker
      /\ \A i \in Jobs : i # j => escrows'[i] = escrows[i]
      /\ c \in Int
  BY HeldAmount DEF TypeOK, EscrowRow
<1>2. AllHeld' = AllHeld + (0 - c)
  <2>0. PICK k : k = Holdings'
    OBVIOUS
  <2>1. PICK h \in [Jobs -> Int], d \in Int : h = Holdings /\ d = 0 - c
    BY <1>1, Terms
  <2>2. DOMAIN k = Jobs /\ h[j] = c /\ k[j] = 0 /\ \A i \in Jobs : i # j => k[i] = h[i]
    BY <1>1, <2>0, <2>1 DEF Holdings
  <2>3. k[j] = h[j] + d
    BY <1>1, <2>1, <2>2
  <2>4. SumFunction(k) = SumFunction(h) + d
    BY <2>2, <2>3, Terms, TotalChange
  <2>. QED  BY <2>0, <2>1, <2>4 DEF AllHeld
<1>3. AllCents' = AllCents + odd
  <2>0. PICK k : k = SplitCents'
    OBVIOUS
  <2>1. PICK h \in [Jobs -> Int], d \in Int : h = SplitCents /\ d = odd
    BY Terms
  <2>2. DOMAIN k = Jobs /\ h[j] = 0 /\ k[j] = d /\ \A i \in Jobs : i # j => k[i] = h[i]
    BY <1>1, <2>0, <2>1 DEF SplitCents
  <2>3. k[j] = h[j] + d
    BY <2>1, <2>2
  <2>4. SumFunction(k) = SumFunction(h) + d
    BY <2>2, <2>3, Terms, TotalChange
  <2>. QED  BY <2>0, <2>1, <2>4 DEF AllCents
<1>4. ASSUME NEW v \in Workers
      PROVE  SumFunction(Earnings(v))' =
               SumFunction(Earnings(v)) + IF escrows[j].worker = v THEN c ELSE 0
  <2>0. PICK k : k = Earnings(v)'
    OBVIOUS
  <2>1. PICK h \in [Jobs -> Int], d \in Int :
          h = Earnings(v) /\ d = IF escrows[j].worker = v THEN c ELSE 0
    BY <1>1, Terms
  <2>2. DOMAIN k = Jobs /\ h[j] = 0 /\ k[j] = d /\ \A i \in Jobs : i # j => k[i] = h[i]
    BY <1>1, <2>0, <2>1 DEF Earnings
  <2>3. k[j] = h[j] + d
    BY <2>1, <2>2
  <2>4. SumFunction(k) = SumFunction(h) + d
    BY <2>2, <2>3, Terms, TotalChange
  <2>. QED  BY <2>0, <2>1, <2>4
<1>5. AllHeld \in Int
  BY SumsAreNumbers
<1>. QED  BY <1>1, <1>2, <1>3, <1>4, <1>5

-----------------------------------------------------------------------------
(***************************************************************************)
(* Conservation: what an operation adds in one place it takes in another.  *)
(***************************************************************************)

\* Editing, progress, applications and waiting move no money.
Unpaid ==
  /\ \A u \in Users : wallets'[u].balance = wallets[u].balance
  /\ UNCHANGED <<escrows, platform, funded>>

\* The operations, as far as money is concerned.
LEMMA MoneyOperations ==
  ASSUME SInv, Operation
  PROVE  \/ Unpaid
         \/ \E u \in Funders, amount \in Amounts : Deposit(u, amount)
         \/ \E j \in Jobs, net, fee \in Nat : Pay(j, net, fee)
         \/ \E a \in Apps, j \in Jobs : Hire(a, j)
BY DEF Operation, Draft, Progress, Propose, Settle, Nothing, Unpaid

\* Both sides of a deposit, a payment and an acceptance.
LEMMA DepositBooks ==
  ASSUME SInv, NEW u \in Funders, NEW amount \in Amounts, Deposit(u, amount)
  PROVE  /\ amount \in Nat /\ u \in Users /\ Moves(u, amount)
         /\ AllInWallets' = AllInWallets + amount /\ funded' = funded + amount
         /\ UNCHANGED <<escrows, platform>>
<1>1. amount \in Nat /\ u \in Users
  BY PartiesAssumption, AmountAssumption DEF Users
<1>2. Moves(u, amount)
  BY <1>1, CreditMoves DEF Deposit, SInv, IInv
<1>. QED  BY <1>1, <1>2, WalletsChange DEF Deposit, SInv, IInv

\* A payment: what is released is what the worker and the platform get, up to a cent.
LEMMA PayBooks ==
  ASSUME SInv, NEW j \in Jobs, NEW net \in Nat, NEW fee \in Nat, Pay(j, net, fee)
  PROVE  \E amount \in Nat, odd, cent \in {0, 1}, w \in Workers :
           /\ w = escrows[j].worker /\ amount = escrows[j].amount /\ Moves(w, net)
           /\ odd = IF (amount * FeePercent) % 100 = 50 THEN 1 ELSE 0
           /\ net + fee = amount + cent /\ cent <= fee /\ cent <= odd
           /\ net <= amount
           /\ fee \in {0, EscrowFee(amount)}
           /\ AllInWallets' = AllInWallets + net /\ platform' = platform + fee
           /\ AllHeld' = AllHeld - amount /\ AllCents' = AllCents + odd
           /\ \A v \in Workers : SumFunction(Earnings(v))' =
                SumFunction(Earnings(v)) + IF w = v THEN amount ELSE 0
<1>1. PICK amount \in Nat : amount = escrows[j].amount
  BY HeldAmount DEF SInv, IInv
<1>2. PICK odd \in {0, 1} : odd = IF (amount * FeePercent) % 100 = 50 THEN 1 ELSE 0
  OBVIOUS
<1>3. PICK w \in Workers : w = escrows[j].worker /\ w = jobs[j].worker
  BY DEF Pay, SInv, IInv, TypeOK, HiredJobHasEscrow, Working, JobRow
<1>4. Moves(w, net)
  BY <1>3, CreditMoves DEF Pay, SInv, IInv, Users
<1>5. AllInWallets' = AllInWallets + net
  BY <1>4, WalletsChange DEF SInv, IInv, Users
<1>6. PICK cent \in {0, 1} :
        /\ net <= amount /\ fee \in {0, EscrowFee(amount)}
        /\ net + fee = amount + cent /\ cent <= fee /\ cent <= odd
  <2>1. CASE net = amount /\ fee = 0
    BY <2>1
  <2>2. CASE net = NetAmount(amount) /\ fee = EscrowFee(amount)
    <3>1. net <= amount /\ fee + net = amount + odd
      BY <1>2, <2>2, AFeeIsSplitOff
    <3>. QED  BY <2>2, <3>1
  <2>. QED  BY <1>1, <2>1, <2>2 DEF Pay
<1>7. /\ AllHeld' = AllHeld - amount /\ AllCents' = AllCents + odd
      /\ \A v \in Workers : SumFunction(Earnings(v))' =
           SumFunction(Earnings(v)) + IF w = v THEN amount ELSE 0
  BY <1>1, <1>2, <1>3, HoldingsShrink DEF Pay, SInv, IInv
<1>8. platform' = platform + fee
  BY DEF Pay
<1>. QED  BY <1>1, <1>2, <1>3, <1>4, <1>5, <1>6, <1>7, <1>8

\* An acceptance: what leaves the employer's wallet is what is held.
LEMMA HireBooks ==
  ASSUME SInv, NEW a \in Apps, NEW j \in Jobs, Hire(a, j)
  PROVE  \E amount \in Amounts, e \in Providers, w \in Workers :
           /\ amount \in Nat /\ Moves(e, 0 - amount) /\ wallets[e].balance >= amount
           /\ escrows[j] = NoEscrow
           /\ escrows' = [escrows EXCEPT ![j] = [status |-> "HELD", amount |-> amount, worker |-> w]]
           /\ AllInWallets' = AllInWallets + (0 - amount)
           /\ AllHeld' = AllHeld + amount /\ AllCents' = AllCents
           /\ \A v \in Workers : SumFunction(Earnings(v))' = SumFunction(Earnings(v))
           /\ UNCHANGED <<platform, funded>>
<1>1. JobExists(j) /\ ApplicationExists(a)
  BY DEF Hire, JobExists, JobStatus, ApplicationExists, Undecided
<1>2. PICK amount \in Amounts, e \in Providers, w \in Workers :
        amount = jobs[j].compensation /\ e = jobs[j].provider /\ w = applications[a].worker
  BY <1>1 DEF SInv, IInv, RowsFilled
<1>3. amount \in Nat
  BY AmountAssumption
<1>4. /\ Debit(e, amount) /\ wallets[e].balance >= amount /\ escrows[j] = NoEscrow
      /\ escrows' = [escrows EXCEPT ![j] = [status |-> "HELD", amount |-> amount, worker |-> w]]
      /\ UNCHANGED <<platform, funded>>
  BY <1>2 DEF Hire
<1>5. Moves(e, 0 - amount)
  BY <1>3, <1>4, DebitMoves DEF SInv, IInv, Users
<1>6. AllInWallets' = AllInWallets + (0 - amount)
  BY <1>3, <1>5, WalletsChange DEF SInv, IInv, Users
<1>7. /\ AllHeld' = AllHeld + amount /\ AllCents' = AllCents
      /\ \A v \in Workers : SumFunction(Earnings(v))' = SumFunction(Earnings(v))
  BY <1>3, <1>4, HoldingsGrow DEF SInv, IInv
<1>. QED  BY <1>2, <1>3, <1>4, <1>5, <1>6, <1>7

\* Where no money moves no sum changes.
LEMMA UnpaidBooks ==
  ASSUME Unpaid
  PROVE  /\ AllInWallets' = AllInWallets /\ AllHeld' = AllHeld /\ AllCents' = AllCents
         /\ \A w \in Workers : SumFunction(Earnings(w))' = SumFunction(Earnings(w))
<1>1. Balances' = Balances
  BY DEF Unpaid, Balances
<1>. QED  BY <1>1, SumsStay DEF Unpaid, AllInWallets

\* In every operation the sums move together.
LEMMA OperationConserves ==
  ASSUME SInv, Operation, MoneyIsConserved
  PROVE  MoneyIsConserved'
<1>1. /\ AllInWallets \in Int /\ AllHeld \in Int /\ AllCents \in Nat
      /\ platform \in Int /\ funded \in Int
  BY SumsAreNumbers DEF SInv, IInv, TypeOK
<1>2. AllInWallets + AllHeld + platform - funded \in 0 .. AllCents
  BY DEF MoneyIsConserved, AllInWallets, AllHeld, AllCents
<1>3. ASSUME AllInWallets' + AllHeld' + platform' - funded' \in 0 .. AllCents'
      PROVE  MoneyIsConserved'
  BY <1>3 DEF MoneyIsConserved, AllInWallets, AllHeld, AllCents
<1>4. CASE Unpaid
  BY <1>2, <1>3, <1>4, UnpaidBooks DEF Unpaid
<1>5. ASSUME NEW u \in Funders, NEW amount \in Amounts, Deposit(u, amount)
      PROVE  MoneyIsConserved'
  <2>1. /\ amount \in Nat /\ AllInWallets' = AllInWallets + amount /\ funded' = funded + amount
        /\ platform' = platform /\ AllHeld' = AllHeld /\ AllCents' = AllCents
    BY <1>5, DepositBooks, SumsStay
  <2>. QED  BY <1>1, <1>2, <1>3, <2>1
<1>6. ASSUME NEW j \in Jobs, NEW net \in Nat, NEW fee \in Nat, Pay(j, net, fee)
      PROVE  MoneyIsConserved'
  <2>1. PICK amount \in Nat, odd, cent \in {0, 1} :
          /\ net + fee = amount + cent /\ cent <= odd
          /\ AllInWallets' = AllInWallets + net /\ platform' = platform + fee
          /\ AllHeld' = AllHeld - amount /\ AllCents' = AllCents + odd
    BY <1>6, PayBooks
  <2>2. funded' = funded
    BY <1>6 DEF Pay
  <2>. QED  BY <1>1, <1>2, <1>3, <2>1, <2>2
<1>7. ASSUME NEW a \in Apps, NEW j \in Jobs, Hire(a, j)
      PROVE  MoneyIsConserved'
  <2>1. PICK amount \in Nat :
          /\ AllInWallets' = AllInWallets + (0 - amount) /\ AllHeld' = AllHeld + amount
          /\ AllCents' = AllCents /\ UNCHANGED <<platform, funded>>
    BY <1>7, HireBooks
  <2>. QED  BY <1>1, <1>2, <1>3, <2>1
<1>. QED  BY <1>4, <1>5, <1>6, <1>7, MoneyOperations

\* Who does not deposit is credited only by payments, once per job.
LEMMA OperationPaysOnce ==
  ASSUME SInv, Operation, WorkersEarnOnce
  PROVE  WorkersEarnOnce'
<1>. SUFFICES ASSUME NEW v \in Workers \ Funders
              PROVE  wallets'[v].balance <= SumFunction(Earnings(v))'
  BY DEF WorkersEarnOnce
<1>. DEFINE earned == SumFunction(Earnings(v))
<1>1. /\ v \in Workers /\ v \in Users /\ v \notin Providers /\ v \notin Funders
      /\ earned \in Int /\ wallets[v].balance \in Int /\ wallets[v].balance <= earned
  <2>1. v \in Workers /\ v \in Users /\ v \notin Providers /\ v \notin Funders
    BY PartiesAssumption DEF Users
  <2>2. wallets[v] \in WalletRow
    BY <2>1 DEF SInv, IInv, TypeOK
  <2>. QED  BY <2>1, <2>2, SumsAreNumbers DEF SInv, IInv, WalletRow, WorkersEarnOnce
<1>. HIDE DEF earned
<1>2. CASE Unpaid
  <2>1. earned' = earned /\ wallets'[v].balance = wallets[v].balance
    BY <1>1, <1>2, UnpaidBooks DEF Unpaid, earned
  <2>. QED  BY <1>1, <2>1 DEF earned
<1>3. ASSUME NEW u \in Funders, NEW amount \in Amounts, Deposit(u, amount)
      PROVE  wallets'[v].balance <= earned'
  <2>1. earned' = earned /\ wallets'[v].balance = wallets[v].balance
    BY <1>1, <1>3, DepositBooks, SumsStay DEF Moves, earned
  <2>. QED  BY <1>1, <2>1
<1>4. ASSUME NEW j \in Jobs, NEW net \in Nat, NEW fee \in Nat, Pay(j, net, fee)
      PROVE  wallets'[v].balance <= earned'
  <2>1. PICK amount \in Nat, w \in Workers :
          /\ Moves(w, net) /\ net <= amount
          /\ earned' = earned + IF w = v THEN amount ELSE 0
    BY <1>1, <1>4, PayBooks DEF earned
  <2>2. wallets'[v].balance = IF v = w THEN wallets[v].balance + net ELSE wallets[v].balance
    BY <1>1, <2>1 DEF Moves
  <2>. QED  BY <1>1, <2>1, <2>2
<1>5. ASSUME NEW a \in Apps, NEW j \in Jobs, Hire(a, j)
      PROVE  wallets'[v].balance <= earned'
  <2>1. PICK amount \in Nat, e \in Providers : Moves(e, 0 - amount) /\ earned' = earned
    BY <1>1, <1>5, HireBooks DEF earned
  <2>2. wallets'[v].balance = wallets[v].balance
    BY <1>1, <2>1 DEF Moves
  <2>. QED  BY <1>1, <2>1, <2>2
<1>6. wallets'[v].balance <= earned'
  BY <1>2, <1>3, <1>4, <1>5, MoneyOperations DEF earned
<1>. QED  BY <1>6 DEF earned

\* At first every sum is zero.
LEMMA InitMoney ==
  ASSUME Init
  PROVE  MoneyIsConserved /\ WorkersEarnOnce
<1>1. IsFiniteSet(Users) /\ IsFiniteSet(Jobs)
  BY FinitenessAssumption DEF Users
<1>2. /\ Balances = [u \in Users |-> 0] /\ Holdings = [j \in Jobs |-> 0]
      /\ SplitCents = [j \in Jobs |-> 0] /\ \A w \in Workers : Earnings(w) = [j \in Jobs |-> 0]
  BY DEF Init, Balances, Holdings, SplitCents, Earnings, NoEscrow
<1>3. /\ SumFunction(Balances) = 0 /\ SumFunction(Holdings) = 0 /\ SumFunction(SplitCents) = 0
      /\ \A w \in Workers : SumFunction(Earnings(w)) = 0
  BY <1>1, <1>2, TotalOfZeros
<1>4. platform = 0 /\ funded = 0 /\ \A u \in Users : wallets[u].balance = 0
  BY DEF Init
<1>. QED  BY <1>3, <1>4 DEF MoneyIsConserved, WorkersEarnOnce, Users

\* One after the other, handlers and the cron keep MoneyInv.
THEOREM MoneyInductive ==
  ASSUME OneAtATime
  PROVE  Spec => []MoneyInv
<1>1. Init => MoneyInv
  BY InitSInv, InitMoney DEF MoneyInv
<1>2. MoneyInv /\ [Next]_vars => MoneyInv'
  BY NextKeepsSInv, StepInTurn, OperationConserves, OperationPaysOnce DEF MoneyInv
<1>. QED  BY <1>1, <1>2, PTL DEF Spec

\* Acceptances, approvals and the cron lose no cent, and make none but by rounding up.
THEOREM NoMoneyVanishes ==
  ASSUME OneAtATime
  PROVE  Spec => []MoneyIsConserved
BY MoneyInductive, PTL DEF MoneyInv

\* The employer's approval and the cron never both pay for one job.
THEOREM NobodyIsPaidTwice ==
  ASSUME OneAtATime
  PROVE  Spec => []WorkersEarnOnce
BY MoneyInductive, PTL DEF MoneyInv

-----------------------------------------------------------------------------
(***************************************************************************)
(* The refinement: each operation is a step of the promise, or none.       *)
(***************************************************************************)

\* Each operation as a step of EscrowPromise.
LEMMA OperationKeepsPromise ==
  ASSUME SInv, Operation
  PROVE  [Promise!Next]_<<escrows, Balances, platform>>
<1>0. Balances \in [Users -> Int]
  BY Terms DEF SInv, IInv
<1>1. ASSUME NEW u \in Users, NEW d \in Int, Moves(u, d)
      PROVE  Balances' = [Balances EXCEPT ![u] = @ + d]
  <2>1. \A v \in Users : Balances'[v] = IF v = u THEN Balances[u] + d ELSE Balances[v]
    BY <1>1 DEF Balances, Moves
  <2>2. Balances' = [v \in Users |-> Balances'[v]]
    BY DEF Balances
  <2>. QED  BY <1>0, <2>1, <2>2
<1>2. CASE Unpaid
  BY <1>2 DEF Unpaid, Balances
<1>3. ASSUME NEW u \in Funders, NEW amount \in Amounts, Deposit(u, amount)
      PROVE  Promise!Next
  <2>1. u \in Users /\ Balances' = [Balances EXCEPT ![u] = @ + amount]
        /\ UNCHANGED <<escrows, platform>>
    BY <1>1, <1>3, DepositBooks
  <2>2. Promise!Deposit(u, amount)
    BY <2>1 DEF Promise!Deposit
  <2>. QED  BY <2>1, <2>2 DEF Promise!Next, Users
<1>4. ASSUME NEW j \in Jobs, NEW net \in Nat, NEW fee \in Nat, Pay(j, net, fee)
      PROVE  Promise!Next
  <2>1. PICK amount \in Nat, cent \in {0, 1}, w \in Workers :
          /\ w = escrows[j].worker /\ amount = escrows[j].amount /\ Moves(w, net)
          /\ net + fee = amount + cent /\ cent <= fee
          /\ fee \in {0, EscrowFee(amount)} /\ platform' = platform + fee
    BY <1>4, PayBooks
  <2>2. Balances' = [Balances EXCEPT ![w] = @ + net] /\ w \in Users
    BY <1>1, <2>1 DEF Users
  <2>3. Balances[w] + net = Balances[w] + amount - fee + cent
    <3>1. PICK b \in Int : b = Balances[w]
      BY <1>0, <2>2
    <3>2. net + fee = amount + cent /\ cent \in Int
      BY <2>1
    <3>3. b + net = b + amount - fee + cent
      BY <3>2
    <3>. QED  BY <3>1, <3>3
  <2>4. Balances' = [Balances EXCEPT ![w] = @ + amount - fee + cent]
    BY <2>2, <2>3
  <2>5. escrows[j].status = "HELD" /\ escrows' = [escrows EXCEPT ![j].status = "RELEASED"]
    BY <1>4 DEF Pay
  <2>6. Promise!Release(j, fee, cent)
    BY <2>1, <2>4, <2>5 DEF Promise!Release
  <2>7. fee \in {0, EscrowFee(escrows[j].amount)} /\ cent \in {0, 1} /\ cent <= fee
    BY <2>1
  <2>. QED  BY <2>6, <2>7 DEF Promise!Next
<1>5. ASSUME NEW a \in Apps, NEW j \in Jobs, Hire(a, j)
      PROVE  Promise!Next
  <2>1. PICK amount \in Amounts, e \in Providers, w \in Workers :
          /\ amount \in Nat /\ Moves(e, 0 - amount) /\ wallets[e].balance >= amount
          /\ escrows[j] = NoEscrow
          /\ escrows' = [escrows EXCEPT ![j] = [status |-> "HELD", amount |-> amount, worker |-> w]]
          /\ UNCHANGED <<platform, funded>>
    BY <1>5, HireBooks
  <2>2. e \in Users /\ Balances[e] >= amount
    BY <2>1 DEF Balances, Users
  <2>3. Balances' = [Balances EXCEPT ![e] = @ + (0 - amount)]
    BY <1>1, <2>1, <2>2
  <2>4. Balances[e] + (0 - amount) = Balances[e] - amount
    BY <1>0, <2>1, <2>2
  <2>5. Balances' = [Balances EXCEPT ![e] = @ - amount]
    BY <2>3, <2>4
  <2>6. Promise!Hold(j, e, w, amount)
    BY <2>1, <2>2, <2>5 DEF Promise!Hold, Promise!NoDeal, NoEscrow
  <2>. QED  BY <2>6 DEF Promise!Next
<1>. QED  BY <1>2, <1>3, <1>4, <1>5, MoneyOperations

\* The marketplace implements what it promises about money: an acceptance is a Hold,
\* an approval or the cron's payment a Release, a top-up a Deposit, and no other
\* handler touches a purse or a deal.
THEOREM ImplementsPromise ==
  ASSUME OneAtATime
  PROVE  Spec => KeepsPromise
<1>1. Init => Promise!Init
  BY DEF Init, Promise!Init, Promise!NoDeal, NoEscrow, Balances, Users
<1>2. SInv /\ [Next]_vars => [Promise!Next]_<<escrows, Balances, platform>>
  BY StepInTurn, OperationKeepsPromise
<1>3. Spec => Promise!Spec
  BY <1>1, <1>2, SerialInductive, PTL DEF Spec, Promise!Spec
<1>. QED  BY <1>3 DEF KeepsPromise
=============================================================================
