-------------------------- MODULE JobEscrowProofs --------------------------
(***************************************************************************)
(* Proofs, for any number of jobs, users and handlers in flight, of what   *)
(* JobEscrow states about every interleaving.                              *)
(*                                                                         *)
(* The argument: a row, once it exists, keeps its parties (RowsFilled);    *)
(* what a handler or the cron has read may be stale, but the part of it    *)
(* that later writes rely on cannot be undone by anybody (Snapshot); the   *)
(* unique keys and foreign keys do the rest.                               *)
(***************************************************************************)
EXTENDS JobEscrow, TLAPS

\* Rows that exist have their parties; references point to rows that exist.
RowsFilled ==
  /\ \A j \in Jobs :
       /\ JobExists(j) => jobs[j].provider \in Providers /\ jobs[j].compensation \in Amounts
       /\ ~ JobExists(j) => jobs[j].worker = None
  /\ \A a \in Apps :
       IF ApplicationExists(a)
       THEN /\ applications[a].job \in Jobs /\ applications[a].worker \in Workers
            /\ JobExists(applications[a].job)
       ELSE applications[a].job = None

AboutAcceptance == {"acceptJob", "acceptBalance", "acceptCommit"}
AboutHiredJob   == {"workerStatus", "rejectJob", "approveJob"}
AboutJob == AboutAcceptance \cup AboutHiredJob \cup
            {"updateJob", "deleteJob", "cancelJob", "applyDuplicate", "applyWallet", "applyCreate"}
AboutApplication == AboutAcceptance \cup {"review", "cancelApplication"}

\* What a handler has read that no other handler can take back.
Snapshot(q) ==
  /\ q.op \in AboutJob => jobs[q.job].status # "unborn"
  /\ q.op \in AboutHiredJob => (JobExists(q.job) => jobs[q.job].worker # None)
  /\ q.op = "approveJob" => (JobExists(q.job) => jobs[q.job].worker = q.worker)
  /\ q.op \in AboutApplication => applications[q.app].status # "unborn"
  /\ q.op \in AboutAcceptance /\ ApplicationExists(q.app) =>
       applications[q.app].job = q.job /\ applications[q.app].worker = q.worker

\* The same for the rows a loop of the cron has fetched: a worker, once there, stays.
CronSnapshot ==
  \A l \in Loops : \A f \in cron[l].queue :
    /\ jobs[f.job].status # "unborn" /\ f.worker \in Workers
    /\ JobExists(f.job) => jobs[f.job].worker = f.worker

\* No loop gets a row more than it had.
LoopsShrink ==
  /\ cron' \in [Loops -> [queue : SUBSET Fetched, at : Fetched \cup {None}]]
  /\ \A l \in Loops : cron'[l].queue \subseteq cron[l].queue

Snapshots == (\A r \in Requests : Snapshot(inflight[r])) /\ CronSnapshot

IInv ==
  /\ TypeOK
  /\ RowsFilled
  /\ HiredJobHasEscrow
  /\ ApprovedJobIsPaid
  /\ OneHirePerJob
  /\ Snapshots

-----------------------------------------------------------------------------
(***************************************************************************)
(* Steps that only read.                                                   *)
(***************************************************************************)

\* The fields a request record has, by the step it waits for.
LEMMA RequestFields ==
  ASSUME NEW q \in Request
  PROVE  /\ q.op \in AboutJob => q.job \in Jobs
         /\ q.op \in AboutApplication => q.app \in Apps
         /\ q.op \in AboutAcceptance => q.worker \in Workers
         /\ q.op \in {"approveJob", "applyDuplicate", "applyWallet", "applyCreate"} => q.worker \in Workers
         /\ q.op \in {"acceptBalance", "acceptCommit"} => q.amount \in Amounts
         /\ q.op = "updateJob" => q.compensation \in Amounts \cup {0}
         /\ q.op = "createJob" => q.provider \in Providers /\ q.compensation \in Amounts
         /\ q.op = "workerStatus" => q.status \in {"IN_PROGRESS", "COMPLETED"}
         /\ q.op = "review" => q.status \in {"REJECTED", "UNDER_REVIEW"}
BY DEF Request, Idle, AboutJob, AboutApplication, AboutAcceptance, AboutHiredJob

\* An idle handler knows nothing that could become false.
LEMMA IdleSnapshot == Idle \in Request /\ Snapshot(Idle)
BY DEF Request, Idle, Snapshot, AboutJob, AboutApplication, AboutAcceptance, AboutHiredJob

\* A handler that only reads keeps the invariant if what it read is there.
LEMMA ReadStep ==
  ASSUME IInv, NEW r \in Requests, NEW q \in Request, Snapshot(q),
         inflight' = [inflight EXCEPT ![r] = q], UNCHANGED <<db, cron>>
  PROVE  IInv'
<1>1. TypeOK'
  BY DEF IInv, TypeOK, db, money
<1>2. RowsFilled' /\ HiredJobHasEscrow' /\ ApprovedJobIsPaid' /\ OneHirePerJob'
  BY DEF IInv, RowsFilled, HiredJobHasEscrow, ApprovedJobIsPaid, OneHirePerJob,
         JobExists, ApplicationExists, db, money
<1>3. ASSUME NEW x \in Request, Snapshot(x) PROVE Snapshot(x)'
  BY <1>3 DEF Snapshot, JobExists, ApplicationExists, db, money
<1>4. \A s \in Requests : inflight'[s] = (IF s = r THEN q ELSE inflight[s])
  BY DEF IInv, TypeOK
<1>5. ASSUME NEW s \in Requests PROVE Snapshot(inflight[s])'
  <2>1. inflight'[s] \in Request /\ Snapshot(inflight'[s])
    BY <1>4 DEF IInv, TypeOK, Snapshots
  <2>. QED  BY <2>1 DEF Snapshot, JobExists, ApplicationExists, db, money
<1>6. CronSnapshot'
  BY DEF IInv, Snapshots, CronSnapshot, JobExists, db, money
<1>. QED  BY <1>1, <1>2, <1>5, <1>6 DEF IInv, Snapshots

\* Every step that only reads, whatever it reads.
LEMMA ReadersKeepIInv ==
  ASSUME IInv, NEW r \in Requests,
         \/ \E p \in Providers, c \in Amounts : CreateJobCheck(r, p, c)
         \/ \E j \in Jobs, c \in Amounts \cup {0} : UpdateJobRead(r, j, c)
         \/ \E j \in Jobs : DeleteJobRead(r, j)
         \/ \E j \in Jobs, s \in {"IN_PROGRESS", "COMPLETED"} : WorkerStatusRead(r, j, s)
         \/ \E j \in Jobs : CancelJobRead(r, j) \/ RejectJobRead(r, j) \/ ApproveJobRead(r, j)
         \/ \E j \in Jobs, w \in Workers : ApplyFindJob(r, j, w)
         \/ ApplyFindDuplicate(r) \/ ApplyFindWallet(r)
         \/ \E a \in Apps, s \in {"REJECTED", "UNDER_REVIEW"} : ReviewRead(r, a, s)
         \/ \E a \in Apps : AcceptRead(r, a) \/ CancelApplicationRead(r, a)
         \/ AcceptReadJob(r) \/ AcceptCheckBalance(r)
         \/ Abort(r)
  PROVE  IInv'
<1>. SUFFICES \E q \in Request : /\ Snapshot(q)
                                 /\ inflight' = [inflight EXCEPT ![r] = q]
                                 /\ UNCHANGED <<db, cron>>
  BY ReadStep
<1>. DEFINE Goal(q) == q \in Request /\ Snapshot(q)
<1>. USE DEF Begin, Continue
<1>0. /\ inflight[r] \in Request /\ Snapshot(inflight[r])
      /\ \A j \in Jobs : jobs[j] \in JobRow
      /\ \A a \in Apps : applications[a] \in ApplicationRow
  BY DEF IInv, TypeOK, Snapshots
<1>1. CASE \E p \in Providers, c \in Amounts : CreateJobCheck(r, p, c)
  <2>1. PICK p \in Providers, c \in Amounts : CreateJobCheck(r, p, c)  BY <1>1
  <2>2. Goal([op |-> "createJob", provider |-> p, compensation |-> c])
    BY DEF Request, Snapshot, AboutJob, AboutApplication, AboutAcceptance, AboutHiredJob
  <2>. QED  BY <2>1, <2>2 DEF CreateJobCheck
<1>2. CASE \E j \in Jobs, c \in Amounts \cup {0} : UpdateJobRead(r, j, c)
  <2>1. PICK j \in Jobs, c \in Amounts \cup {0} : UpdateJobRead(r, j, c)  BY <1>2
  <2>2. Goal([op |-> "updateJob", job |-> j, compensation |-> c])
    BY <2>1 DEF Request, Snapshot, AboutJob, AboutApplication, AboutAcceptance, AboutHiredJob,
                UpdateJobRead, JobExists, JobStatus
  <2>. QED  BY <2>1, <2>2 DEF UpdateJobRead
<1>3. CASE \E j \in Jobs : DeleteJobRead(r, j)
  <2>1. PICK j \in Jobs : DeleteJobRead(r, j)  BY <1>3
  <2>2. Goal([op |-> "deleteJob", job |-> j])
    BY <2>1 DEF Request, Snapshot, AboutJob, AboutApplication, AboutAcceptance, AboutHiredJob,
                DeleteJobRead, JobExists, JobStatus
  <2>. QED  BY <2>1, <2>2 DEF DeleteJobRead
<1>4. CASE \E j \in Jobs, s \in {"IN_PROGRESS", "COMPLETED"} : WorkerStatusRead(r, j, s)
  <2>1. PICK j \in Jobs, s \in {"IN_PROGRESS", "COMPLETED"} : WorkerStatusRead(r, j, s)
    BY <1>4
  <2>2. Goal([op |-> "workerStatus", job |-> j, status |-> s])
    BY <2>1 DEF Request, Snapshot, AboutJob, AboutApplication, AboutAcceptance, AboutHiredJob,
                WorkerStatusRead, JobExists, JobStatus
  <2>. QED  BY <2>1, <2>2 DEF WorkerStatusRead
<1>5. CASE \E j \in Jobs : CancelJobRead(r, j)
  <2>1. PICK j \in Jobs : CancelJobRead(r, j)  BY <1>5
  <2>2. Goal([op |-> "cancelJob", job |-> j])
    BY <2>1 DEF Request, Snapshot, AboutJob, AboutApplication, AboutAcceptance, AboutHiredJob,
                CancelJobRead, JobExists, JobStatus
  <2>. QED  BY <2>1, <2>2 DEF CancelJobRead
<1>6. CASE \E j \in Jobs : RejectJobRead(r, j)
  <2>1. PICK j \in Jobs : RejectJobRead(r, j)  BY <1>6
  <2>2. jobs[j].worker # None
    BY <2>1 DEF RejectJobRead, IInv, HiredJobHasEscrow, Working
  <2>3. Goal([op |-> "rejectJob", job |-> j])
    BY <2>1, <2>2 DEF Request, Snapshot, AboutJob, AboutApplication, AboutAcceptance,
                      AboutHiredJob, RejectJobRead
  <2>. QED  BY <2>1, <2>3 DEF RejectJobRead
<1>7. CASE \E j \in Jobs : ApproveJobRead(r, j)
  <2>1. PICK j \in Jobs : ApproveJobRead(r, j)  BY <1>7
  <2>2. jobs[j].worker \in Workers
    BY <1>0, <2>1 DEF ApproveJobRead, JobRow
  <2>3. Goal([op |-> "approveJob", job |-> j, worker |-> jobs[j].worker])
    BY <2>1, <2>2 DEF Request, Snapshot, AboutJob, AboutApplication, AboutAcceptance,
                      AboutHiredJob, ApproveJobRead
  <2>. QED  BY <2>1, <2>3 DEF ApproveJobRead
<1>8. CASE \E j \in Jobs, w \in Workers : ApplyFindJob(r, j, w)
  <2>1. PICK j \in Jobs, w \in Workers : ApplyFindJob(r, j, w)  BY <1>8
  <2>2. Goal([op |-> "applyDuplicate", job |-> j, worker |-> w])
    BY <2>1 DEF Request, Snapshot, AboutJob, AboutApplication, AboutAcceptance, AboutHiredJob,
                ApplyFindJob
  <2>. QED  BY <2>1, <2>2 DEF ApplyFindJob
<1>9. CASE ApplyFindDuplicate(r)
  <2>1. Goal([inflight[r] EXCEPT !.op = "applyWallet"])
    BY <1>0, <1>9 DEF Request, Idle, Snapshot, AboutJob, AboutApplication, AboutAcceptance,
                      AboutHiredJob, ApplyFindDuplicate
  <2>. QED  BY <1>9, <2>1 DEF ApplyFindDuplicate
<1>10. CASE ApplyFindWallet(r)
  <2>1. Goal([inflight[r] EXCEPT !.op = "applyCreate"])
    BY <1>0, <1>10 DEF Request, Idle, Snapshot, AboutJob, AboutApplication, AboutAcceptance,
                       AboutHiredJob, ApplyFindWallet
  <2>. QED  BY <1>10, <2>1 DEF ApplyFindWallet
<1>11. CASE \E a \in Apps, s \in {"REJECTED", "UNDER_REVIEW"} : ReviewRead(r, a, s)
  <2>1. PICK a \in Apps, s \in {"REJECTED", "UNDER_REVIEW"} : ReviewRead(r, a, s)
    BY <1>11
  <2>2. Goal([op |-> "review", app |-> a, status |-> s])
    BY <2>1 DEF Request, Snapshot, AboutJob, AboutApplication, AboutAcceptance, AboutHiredJob,
                ReviewRead, Reviewable, Undecided
  <2>. QED  BY <2>1, <2>2 DEF ReviewRead
<1>12. CASE \E a \in Apps : CancelApplicationRead(r, a)
  <2>1. PICK a \in Apps : CancelApplicationRead(r, a)  BY <1>12
  <2>2. Goal([op |-> "cancelApplication", app |-> a])
    BY <2>1 DEF Request, Snapshot, AboutJob, AboutApplication, AboutAcceptance, AboutHiredJob,
                CancelApplicationRead, Undecided
  <2>. QED  BY <2>1, <2>2 DEF CancelApplicationRead
<1>13. CASE \E a \in Apps : AcceptRead(r, a)
  <2>1. PICK a \in Apps : AcceptRead(r, a)  BY <1>13
  <2>2. applications[a].job \in Jobs /\ applications[a].worker \in Workers
    BY <2>1 DEF AcceptRead, Reviewable, Undecided, ApplicationExists, IInv, RowsFilled
  <2>3. Goal([op |-> "acceptJob", app |-> a, job |-> applications[a].job,
              worker |-> applications[a].worker])
    BY <2>1, <2>2 DEF Request, Snapshot, AboutJob, AboutApplication, AboutAcceptance,
                      AboutHiredJob, AcceptRead, Reviewable, Undecided
  <2>. QED  BY <2>1, <2>3 DEF AcceptRead
<1>14. CASE AcceptReadJob(r)
  <2>. DEFINE q == inflight[r]
  <2>1. q.op = "acceptJob" /\ jobs[q.job].status = "OPEN"  BY <1>14 DEF AcceptReadJob
  <2>2. q.app \in Apps /\ q.job \in Jobs /\ q.worker \in Workers
    BY <1>0, <2>1, RequestFields DEF AboutJob, AboutApplication, AboutAcceptance
  <2>3. jobs[q.job].compensation \in Amounts
    BY <2>1, <2>2 DEF IInv, RowsFilled, JobExists, JobStatus
  <2>4. Goal([op |-> "acceptBalance", app |-> q.app, job |-> q.job, worker |-> q.worker,
              amount |-> jobs[q.job].compensation])
    BY <1>0, <2>1, <2>2, <2>3 DEF Request, Snapshot, AboutJob, AboutApplication,
                                  AboutAcceptance, AboutHiredJob
  <2>. QED  BY <1>14, <2>4 DEF AcceptReadJob
<1>15. CASE AcceptCheckBalance(r)
  <2>1. Goal([inflight[r] EXCEPT !.op = "acceptCommit"])
    BY <1>0, <1>15 DEF Request, Idle, Snapshot, AboutJob, AboutApplication, AboutAcceptance,
                       AboutHiredJob, AcceptCheckBalance
  <2>. QED  BY <1>15, <2>1 DEF AcceptCheckBalance
<1>16. CASE Abort(r)
  BY <1>16, IdleSnapshot DEF Abort
<1>. QED  BY <1>1, <1>2, <1>3, <1>4, <1>5, <1>6, <1>7, <1>8, <1>9, <1>10, <1>11, <1>12,
             <1>13, <1>14, <1>15, <1>16

-----------------------------------------------------------------------------
(***************************************************************************)
(* Steps that write: rows evolve, and what others have read stays true.    *)
(***************************************************************************)

\* What no write does to a row that somebody may have read.
RowsEvolve ==
  /\ \A j \in Jobs : jobs[j].status # "unborn" =>
       /\ jobs'[j].status # "unborn"
       /\ JobExists(j)' => /\ JobExists(j)
                           /\ jobs[j].worker # None => jobs'[j].worker = jobs[j].worker
  /\ \A a \in Apps : applications[a].status # "unborn" =>
       /\ applications'[a].status # "unborn"
       /\ ApplicationExists(a)' => /\ ApplicationExists(a)
                                   /\ applications'[a].job = applications[a].job
                                   /\ applications'[a].worker = applications[a].worker

\* What another handler has read survives a step that lets rows evolve.
LEMMA SnapshotsSurvive ==
  ASSUME IInv, RowsEvolve, UNCHANGED cron \/ LoopsShrink,
         \/ UNCHANGED inflight
         \/ \E r \in Requests : inflight' = [inflight EXCEPT ![r] = Idle]
  PROVE  Snapshots'
<1>1. ASSUME NEW s \in Requests PROVE inflight'[s] \in {inflight[s], Idle}
  BY DEF IInv, TypeOK
<1>2. ASSUME NEW s \in Requests PROVE inflight'[s] \in Request /\ Snapshot(inflight'[s])
  BY <1>1, IdleSnapshot DEF IInv, TypeOK, Snapshots
<1>3. ASSUME NEW q \in Request, Snapshot(q)
      PROVE  /\ q.op \in AboutJob => jobs'[q.job].status # "unborn"
             /\ q.op \in AboutHiredJob => (JobExists(q.job)' => jobs'[q.job].worker # None)
             /\ q.op = "approveJob" => (JobExists(q.job)' => jobs'[q.job].worker = q.worker)
             /\ q.op \in AboutApplication => applications'[q.app].status # "unborn"
             /\ q.op \in AboutAcceptance /\ ApplicationExists(q.app)' =>
                  applications'[q.app].job = q.job /\ applications'[q.app].worker = q.worker
  <2>1. /\ q.op \in AboutJob => q.job \in Jobs
        /\ q.op \in AboutApplication => q.app \in Apps
        /\ q.op = "approveJob" => q.worker \in Workers
    BY RequestFields
  <2>2. /\ q.op \in AboutHiredJob => q.op \in AboutJob
        /\ q.op = "approveJob" => q.op \in AboutHiredJob
        /\ q.op \in AboutAcceptance => q.op \in AboutApplication
    BY DEF AboutJob, AboutHiredJob, AboutApplication
  <2>3. q.op \in AboutJob => jobs'[q.job].status # "unborn"
    BY <1>3, <2>1 DEF RowsEvolve, Snapshot
  <2>4. q.op \in AboutHiredJob => (JobExists(q.job)' => jobs'[q.job].worker # None)
    BY <1>3, <2>1, <2>2 DEF RowsEvolve, Snapshot
  <2>5. q.op = "approveJob" => (JobExists(q.job)' => jobs'[q.job].worker = q.worker)
    BY <1>3, <2>1, <2>2 DEF RowsEvolve, Snapshot
  <2>6. q.op \in AboutApplication => applications'[q.app].status # "unborn"
    BY <1>3, <2>1 DEF RowsEvolve, Snapshot
  <2>7. q.op \in AboutAcceptance /\ ApplicationExists(q.app)' =>
          applications'[q.app].job = q.job /\ applications'[q.app].worker = q.worker
    BY <1>3, <2>1, <2>2 DEF RowsEvolve, Snapshot
  <2>. QED  BY <2>3, <2>4, <2>5, <2>6, <2>7
<1>4. CronSnapshot'
  <2>1. SUFFICES ASSUME NEW l \in Loops, NEW f \in cron'[l].queue
                 PROVE  /\ jobs'[f.job].status # "unborn" /\ f.worker \in Workers
                        /\ JobExists(f.job)' => jobs'[f.job].worker = f.worker
    BY DEF CronSnapshot, JobExists
  <2>2. f \in cron[l].queue
    BY DEF LoopsShrink
  <2>3. f.job \in Jobs
    BY <2>2 DEF IInv, TypeOK, Fetched
  <2>4. f.worker # None
    BY <2>2, PartiesAssumption DEF IInv, Snapshots, CronSnapshot
  <2>. QED  BY <2>2, <2>3, <2>4 DEF IInv, Snapshots, CronSnapshot, RowsEvolve, JobExists
<1>5. ASSUME NEW s \in Requests PROVE Snapshot(inflight[s])'
  BY <1>2, <1>3 DEF Snapshot, JobExists, ApplicationExists
<1>. QED  BY <1>4, <1>5 DEF Snapshots

\* One job row is written.
LEMMA JobWritten ==
  ASSUME TypeOK, NEW j \in Jobs, NEW row \in JobRow, WriteJob(j, row)
  PROVE  /\ jobs' \in [Jobs -> JobRow]
         /\ jobs'[j] = [row EXCEPT !.aged = FALSE]
         /\ jobs'[j].status = row.status /\ jobs'[j].worker = row.worker
         /\ jobs'[j].provider = row.provider /\ jobs'[j].compensation = row.compensation
         /\ \A i \in Jobs : i # j => jobs'[i] = jobs[i]
BY DEF TypeOK, WriteJob, JobRow

\* One wallet is written.
LEMMA WalletWritten ==
  ASSUME TypeOK, NEW u, NEW amount \in Int, Credit(u, amount) \/ Debit(u, amount)
  PROVE  wallets' \in [Users -> WalletRow]
BY DEF TypeOK, Credit, Debit, WalletRow

\* A status update of a job that keeps `Working' jobs staffed and APPROVED ones paid.
LEMMA StatusWritten ==
  ASSUME IInv, NEW j \in Jobs, NEW s \in JobStatus \ {"APPROVED"}, JobExists(j),
         s \in Working => jobs[j].worker # None,
         SetStatus(j, s), UNCHANGED <<applications, money, cron>>,
         \E r \in Requests : inflight' = [inflight EXCEPT ![r] = Idle]
  PROVE  IInv'
<1>. DEFINE row == [jobs[j] EXCEPT !.status = s]
<1>1. row \in JobRow /\ row.status = s /\ row.worker = jobs[j].worker
      /\ row.provider = jobs[j].provider /\ row.compensation = jobs[j].compensation
  BY DEF IInv, TypeOK, JobRow
<1>2. /\ jobs' \in [Jobs -> JobRow]
      /\ jobs'[j].status = s /\ jobs'[j].worker = jobs[j].worker
      /\ jobs'[j].provider = jobs[j].provider /\ jobs'[j].compensation = jobs[j].compensation
      /\ \A i \in Jobs : i # j => jobs'[i] = jobs[i]
  BY <1>1, JobWritten DEF IInv, SetStatus
<1>3. TypeOK'
  BY <1>2, IdleSnapshot DEF IInv, TypeOK, money
<1>4. RowsFilled'
  BY <1>2 DEF IInv, RowsFilled, JobExists, ApplicationExists, money
<1>5. HiredJobHasEscrow'
  BY <1>2 DEF IInv, HiredJobHasEscrow, money
<1>6. ApprovedJobIsPaid'
  BY <1>2 DEF IInv, ApprovedJobIsPaid, money
<1>7. OneHirePerJob'
  BY <1>2 DEF IInv, OneHirePerJob, RowsFilled, ApplicationExists, money
<1>8. RowsEvolve
  BY <1>2 DEF RowsEvolve, JobExists, JobStatus, ApplicationExists, money
<1>. QED  BY <1>3, <1>4, <1>5, <1>6, <1>7, <1>8, SnapshotsSurvive DEF IInv

-----------------------------------------------------------------------------
(***************************************************************************)
(* One lemma per write.                                                    *)
(***************************************************************************)

\* The insert of createJob.
LEMMA CreateJobKeepsIInv ==
  ASSUME IInv, NEW r \in Requests, CreateJobCommit(r)
  PROVE  IInv'
<1>. DEFINE q == inflight[r]
<1>1. q \in Request /\ q.provider \in Providers /\ q.compensation \in Amounts
  BY RequestFields DEF CreateJobCommit, IInv, TypeOK
<1>. DEFINE row == [NoJob("OPEN") EXCEPT !.provider = q.provider,
                                         !.compensation = q.compensation]
<1>2. PICK j \in Jobs : jobs[j].status = "unborn" /\ WriteJob(j, row)
  BY DEF CreateJobCommit
<1>3. /\ row \in JobRow /\ row.status = "OPEN" /\ row.worker = None
      /\ row.provider \in Providers /\ row.compensation \in Amounts
  BY <1>1 DEF NoJob, JobRow, JobStatus
<1>4. /\ jobs' \in [Jobs -> JobRow]
      /\ jobs'[j].status = "OPEN" /\ jobs'[j].worker = None
      /\ jobs'[j].provider \in Providers /\ jobs'[j].compensation \in Amounts
      /\ \A i \in Jobs : i # j => jobs'[i] = jobs[i]
  BY <1>2, <1>3, JobWritten DEF IInv
<1>5. UNCHANGED <<applications, money, cron>> /\ inflight' = [inflight EXCEPT ![r] = Idle]
  BY DEF CreateJobCommit, Finish
<1>6. ~ JobExists(j) /\ jobs[j].worker = None
  BY <1>2 DEF JobExists, JobStatus, IInv, RowsFilled
<1>7. TypeOK'
  BY <1>4, <1>5, IdleSnapshot DEF IInv, TypeOK, money
<1>8. RowsFilled'
  BY <1>4, <1>5, <1>6 DEF IInv, RowsFilled, JobExists, JobStatus, ApplicationExists
<1>9. HiredJobHasEscrow'
  BY <1>4, <1>5, <1>6 DEF IInv, HiredJobHasEscrow, Working, money
<1>10. ApprovedJobIsPaid'
  BY <1>4, <1>5 DEF IInv, ApprovedJobIsPaid, money
<1>11. OneHirePerJob'
  BY <1>4, <1>5, <1>6 DEF IInv, OneHirePerJob, RowsFilled, ApplicationExists
<1>12. RowsEvolve
  BY <1>2, <1>4, <1>5 DEF RowsEvolve, JobExists, ApplicationExists
<1>. QED  BY <1>5, <1>7, <1>8, <1>9, <1>10, <1>11, <1>12, SnapshotsSurvive DEF IInv

\* The update of updateJob.
LEMMA UpdateJobKeepsIInv ==
  ASSUME IInv, NEW r \in Requests, UpdateJobCommit(r)
  PROVE  IInv'
<1>. DEFINE q == inflight[r]
            j == q.job
            row == [jobs[j] EXCEPT !.compensation = IF q.compensation = 0 THEN @ ELSE q.compensation]
<1>1. q \in Request /\ j \in Jobs /\ q.compensation \in Amounts \cup {0}
  BY RequestFields DEF UpdateJobCommit, IInv, TypeOK, AboutJob
<1>2. JobExists(j) /\ WriteJob(j, row)
  BY DEF UpdateJobCommit
<1>3. jobs[j] \in JobRow /\ jobs[j].compensation \in Amounts
  BY <1>1, <1>2 DEF IInv, TypeOK, RowsFilled
<1>4. /\ row \in JobRow /\ row.status = jobs[j].status /\ row.worker = jobs[j].worker
      /\ row.provider = jobs[j].provider /\ row.compensation \in Amounts
  BY <1>1, <1>3, AmountAssumption DEF JobRow
<1>5. /\ jobs' \in [Jobs -> JobRow]
      /\ jobs'[j].status = jobs[j].status /\ jobs'[j].worker = jobs[j].worker
      /\ jobs'[j].provider = jobs[j].provider /\ jobs'[j].compensation \in Amounts
      /\ \A i \in Jobs : i # j => jobs'[i] = jobs[i]
  BY <1>1, <1>2, <1>4, JobWritten DEF IInv
<1>6. UNCHANGED <<applications, money, cron>> /\ inflight' = [inflight EXCEPT ![r] = Idle]
  BY DEF UpdateJobCommit, Finish
<1>7. TypeOK'
  BY <1>5, <1>6, IdleSnapshot DEF IInv, TypeOK, money
<1>8. RowsFilled'
  BY <1>1, <1>5, <1>6 DEF IInv, RowsFilled, JobExists, ApplicationExists
<1>9. HiredJobHasEscrow'
  BY <1>1, <1>5, <1>6 DEF IInv, HiredJobHasEscrow, money
<1>10. ApprovedJobIsPaid'
  BY <1>1, <1>5, <1>6 DEF IInv, ApprovedJobIsPaid, money
<1>11. OneHirePerJob'
  BY <1>1, <1>5, <1>6 DEF IInv, OneHirePerJob, RowsFilled, ApplicationExists
<1>12. RowsEvolve
  BY <1>1, <1>5, <1>6 DEF RowsEvolve, JobExists, ApplicationExists
<1>. QED  BY <1>6, <1>7, <1>8, <1>9, <1>10, <1>11, <1>12, SnapshotsSurvive DEF IInv

\* No application refers to a job that can be deleted: nothing is left hanging.
LEMMA DeleteJobKeepsIInv ==
  ASSUME IInv, NEW r \in Requests, DeleteJobCommit(r)
  PROVE  IInv'
<1>. DEFINE j == inflight[r].job
<1>1. j \in Jobs
  BY RequestFields DEF DeleteJobCommit, IInv, TypeOK, AboutJob
<1>2. /\ jobs' = [jobs EXCEPT ![j] = NoJob("deleted")]
      /\ escrows' = [escrows EXCEPT ![j] = NoEscrow]
      /\ ledger' = [ledger EXCEPT ![j] = "none"]
      /\ \A a \in Apps : applications[a].job # j
      /\ JobExists(j)
  BY DEF DeleteJobCommit
<1>3. UNCHANGED <<applications, wallets, platform, funded, cron>>
      /\ inflight' = [inflight EXCEPT ![r] = Idle]
  BY DEF DeleteJobCommit, Finish
<1>4. /\ jobs'[j] = NoJob("deleted") /\ escrows'[j] = NoEscrow /\ ledger'[j] = "none"
      /\ \A i \in Jobs : i # j => /\ jobs'[i] = jobs[i] /\ escrows'[i] = escrows[i]
                                  /\ ledger'[i] = ledger[i]
  BY <1>1, <1>2 DEF IInv, TypeOK
<1>5. TypeOK'
  BY <1>1, <1>2, <1>3, IdleSnapshot
  DEF IInv, TypeOK, NoJob, NoEscrow, JobRow, EscrowRow
<1>6. RowsFilled'
  BY <1>1, <1>2, <1>3, <1>4 DEF IInv, RowsFilled, JobExists, JobStatus, ApplicationExists, NoJob
<1>7. HiredJobHasEscrow'
  BY <1>1, <1>4 DEF IInv, HiredJobHasEscrow, NoJob, NoEscrow, Working
<1>8. ApprovedJobIsPaid'
  BY <1>1, <1>4 DEF IInv, ApprovedJobIsPaid, NoJob, NoEscrow
<1>9. OneHirePerJob'
  BY <1>1, <1>2, <1>3, <1>4 DEF IInv, OneHirePerJob, RowsFilled, ApplicationExists
<1>10. RowsEvolve
  BY <1>1, <1>3, <1>4 DEF RowsEvolve, JobExists, JobStatus, ApplicationExists, NoJob
<1>. QED  BY <1>3, <1>5, <1>6, <1>7, <1>8, <1>9, <1>10, SnapshotsSurvive DEF IInv

\* The worker's update, the cancellation and the rejection write a status and nothing else.
LEMMA StatusUpdatesKeepIInv ==
  ASSUME IInv, NEW r \in Requests,
         WorkerStatusCommit(r) \/ CancelJobCommit(r) \/ RejectJobCommit(r)
  PROVE  IInv'
<1>. DEFINE q == inflight[r]
<1>1. q \in Request /\ Snapshot(q)
  BY DEF IInv, TypeOK, Snapshots
<1>2. UNCHANGED <<applications, money, cron>> /\ inflight' = [inflight EXCEPT ![r] = Idle]
  BY DEF WorkerStatusCommit, CancelJobCommit, RejectJobCommit, Finish
<1>3. q.job \in Jobs /\ JobExists(q.job)
  BY <1>1, RequestFields
  DEF WorkerStatusCommit, CancelJobCommit, RejectJobCommit, AboutJob, AboutHiredJob
<1>4. CASE WorkerStatusCommit(r)
  <2>1. q.status \in {"IN_PROGRESS", "COMPLETED"} /\ SetStatus(q.job, q.status)
    BY <1>1, <1>4, RequestFields DEF WorkerStatusCommit
  <2>2. jobs[q.job].worker # None
    BY <1>1, <1>3, <1>4 DEF WorkerStatusCommit, Snapshot, AboutHiredJob
  <2>. QED  BY <1>2, <1>3, <2>1, <2>2, StatusWritten DEF JobStatus
<1>5. CASE CancelJobCommit(r)
  BY <1>2, <1>3, <1>5, StatusWritten DEF CancelJobCommit, JobStatus, Working
<1>6. CASE RejectJobCommit(r)
  <2>1. jobs[q.job].worker # None
    BY <1>1, <1>3, <1>6 DEF RejectJobCommit, Snapshot, AboutHiredJob
  <2>. QED  BY <1>2, <1>3, <1>6, <2>1, StatusWritten DEF RejectJobCommit, JobStatus
<1>. QED  BY <1>4, <1>5, <1>6

\* An approval splits an amount without loss: fee and net amount are parts of it, and
\* make it up, or one cent more where the fee ends in half a cent.  (The two increments
\* of updateEmployerJobStatus, rounded by their columns.)
THEOREM AFeeIsSplitOff ==
  ASSUME NEW amount \in Nat
  PROVE  /\ EscrowFee(amount) \in 0..amount /\ NetAmount(amount) \in 0..amount
         /\ EscrowFee(amount) + NetAmount(amount) =
              amount + IF (amount * FeePercent) % 100 = 50 THEN 1 ELSE 0
<1>1. PICK x \in Int : x = amount * FeePercent
  BY AmountAssumption
<1>2. 0 <= x /\ x <= amount * 100
  <2>1. FeePercent \in Int /\ 0 <= FeePercent /\ FeePercent <= 100
    BY AmountAssumption
  <2>. QED  BY <1>1, <2>1, Z3
<1>3. EscrowFee(amount) = (x + 50) \div 100 /\ NetAmount(amount) = (amount * 100 - x + 50) \div 100
  BY <1>1 DEF EscrowFee, NetAmount, Rounded
<1>. QED  BY <1>1, <1>2, <1>3

\* The amount of an escrow is a number.
LEMMA HeldAmount ==
  ASSUME TypeOK, NEW j \in Jobs
  PROVE  escrows[j].amount \in Nat
<1>1. escrows[j].amount \in Amounts \cup {0}
  BY DEF TypeOK, EscrowRow
<1>2. \A x \in Amounts \cup {0} : x \in Nat
  BY AmountAssumption
<1>. QED  BY <1>1, <1>2

\* A payment, by the employer or by the cron: the job is APPROVED, its escrow
\* RELEASED and its ledger row COMPLETED in one step.
LEMMA PaymentKeepsIInv ==
  ASSUME IInv, NEW j \in Jobs, JobExists(j), escrows[j].status # "none",
         SetStatus(j, "APPROVED"), Release(j), wallets' \in [Users -> WalletRow],
         platform' \in Int, UNCHANGED <<applications, funded>>, UNCHANGED cron \/ LoopsShrink,
         \/ UNCHANGED inflight
         \/ \E r \in Requests : inflight' = [inflight EXCEPT ![r] = Idle]
  PROVE  IInv'
<1>. DEFINE row == [jobs[j] EXCEPT !.status = "APPROVED"]
<1>1. row \in JobRow /\ row.status = "APPROVED" /\ row.worker = jobs[j].worker
      /\ row.provider = jobs[j].provider /\ row.compensation = jobs[j].compensation
  BY DEF IInv, TypeOK, JobRow, JobStatus
<1>2. /\ jobs' \in [Jobs -> JobRow]
      /\ jobs'[j].status = "APPROVED" /\ jobs'[j].worker = jobs[j].worker
      /\ jobs'[j].provider = jobs[j].provider /\ jobs'[j].compensation = jobs[j].compensation
      /\ \A i \in Jobs : i # j => jobs'[i] = jobs[i]
  BY <1>1, JobWritten DEF IInv, SetStatus
<1>3. /\ escrows' \in [Jobs -> EscrowRow] /\ ledger' \in [Jobs -> {"none", "PENDING", "COMPLETED"}]
      /\ escrows'[j].status = "RELEASED" /\ ledger'[j] = "COMPLETED"
      /\ escrows'[j].worker = escrows[j].worker
      /\ \A i \in Jobs : i # j => escrows'[i] = escrows[i] /\ ledger'[i] = ledger[i]
  BY DEF IInv, TypeOK, Release, EscrowRow
<1>4. jobs[j].worker # None
  BY DEF IInv, HiredJobHasEscrow
<1>5. TypeOK'
  BY <1>2, <1>3, IdleSnapshot DEF IInv, TypeOK, LoopsShrink
<1>6. RowsFilled'
  BY <1>2, <1>4 DEF IInv, RowsFilled, JobExists, JobStatus, ApplicationExists
<1>7. HiredJobHasEscrow'
  BY <1>2, <1>3, <1>4 DEF IInv, HiredJobHasEscrow
<1>8. ApprovedJobIsPaid'
  BY <1>2, <1>3 DEF IInv, ApprovedJobIsPaid
<1>9. OneHirePerJob'
  BY <1>2 DEF IInv, OneHirePerJob, RowsFilled, ApplicationExists
<1>10. RowsEvolve
  BY <1>2 DEF RowsEvolve, JobExists, ApplicationExists
<1>. QED  BY <1>5, <1>6, <1>7, <1>8, <1>9, <1>10, SnapshotsSurvive DEF IInv

\* The employer's approval.
LEMMA ApproveJobKeepsIInv ==
  ASSUME IInv, NEW r \in Requests, ApproveJobCommit(r)
  PROVE  IInv'
<1>. DEFINE j == inflight[r].job
            w == inflight[r].worker
            net == NetAmount(escrows[j].amount)
            fee == EscrowFee(escrows[j].amount)
<1>1. j \in Jobs /\ w \in Workers
  BY RequestFields DEF ApproveJobCommit, IInv, TypeOK, AboutJob, AboutHiredJob
<1>2. escrows[j].amount \in Nat
  BY <1>1, HeldAmount DEF IInv
<1>3. fee \in Int /\ net \in Int
  BY <1>2, AFeeIsSplitOff
<1>4. /\ JobExists(j) /\ escrows[j].status # "none" /\ SetStatus(j, "APPROVED") /\ Release(j)
      /\ Credit(w, net) /\ platform' = platform + fee
      /\ UNCHANGED <<applications, funded, cron>>
      /\ inflight' = [inflight EXCEPT ![r] = Idle]
  BY DEF ApproveJobCommit, Finish
<1>5. wallets' \in [Users -> WalletRow] /\ platform' \in Int
  BY <1>3, <1>4, WalletWritten DEF IInv, TypeOK
<1>. QED  BY <1>1, <1>4, <1>5, PaymentKeepsIInv

\* The cron's transaction for one job.  Whom it fetched is still the job's worker.
LEMMA CronPayKeepsIInv ==
  ASSUME IInv, NEW l \in Loops, NEW f \in cron[l].queue, CronPay(l, f)
  PROVE  IInv'
<1>1. /\ JobExists(f.job) /\ SetStatus(f.job, "APPROVED") /\ Release(f.job)
      /\ Credit(f.worker, escrows[f.job].amount)
      /\ UNCHANGED <<applications, platform, inflight, funded>>
  BY DEF CronPay, Payable
<1>2. /\ f \in Fetched /\ f.job \in Jobs
      /\ f.worker \in Workers /\ jobs[f.job].worker = f.worker
  BY <1>1 DEF IInv, TypeOK, Snapshots, CronSnapshot, Fetched
<1>3. escrows[f.job].status # "none"
  BY <1>2, PartiesAssumption DEF IInv, HiredJobHasEscrow
<1>4. escrows[f.job].amount \in Int
  BY <1>2, HeldAmount DEF IInv
<1>5. wallets' \in [Users -> WalletRow] /\ platform' \in Int
  BY <1>1, <1>4, WalletWritten DEF IInv, TypeOK
<1>6. LoopsShrink
  <2>1. PICK c \in {NoLoop} \cup [queue : {cron[l].queue \ {f}}, at : cron[l].queue] :
          cron' = [cron EXCEPT ![l] = c]
    BY DEF CronPay
  <2>2. cron \in [Loops -> [queue : SUBSET Fetched, at : Fetched \cup {None}]]
    BY DEF IInv, TypeOK
  <2>3. c \in [queue : SUBSET Fetched, at : Fetched \cup {None}] /\ c.queue \subseteq cron[l].queue
    BY <2>1, <2>2 DEF NoLoop
  <2>. QED  BY <2>1, <2>2, <2>3 DEF LoopsShrink
<1>. QED  BY <1>1, <1>2, <1>3, <1>5, <1>6, PaymentKeepsIInv

\* The cron only fetches COMPLETED jobs, and those have a worker.
LEMMA DueRowsSnapshot ==
  ASSUME IInv, NEW f \in DueRows
  PROVE  /\ f \in Fetched /\ f.job \in Jobs /\ f.worker \in Workers
         /\ jobs[f.job].status # "unborn" /\ jobs[f.job].worker = f.worker
<1>1. PICK j \in Jobs : Due(j) /\ f = [job |-> j, worker |-> jobs[j].worker]
  BY DEF DueRows
<1>2. jobs[j].worker # None
  BY <1>1 DEF Due, IInv, HiredJobHasEscrow, Working
<1>3. jobs[j].worker \in Workers
  BY <1>2 DEF IInv, TypeOK, JobRow
<1>. QED  BY <1>1, <1>3 DEF Fetched, Due

\* A loop begins with what is due, or ends.
LEMMA CronReadsKeepIInv ==
  ASSUME IInv, NEW l \in Loops, CronFetch(l) \/ CronStop(l)
  PROVE  IInv'
<1>1. UNCHANGED <<db, inflight>>
  BY DEF CronFetch, CronStop
<1>2. PICK c \in {NoLoop} \cup [queue : {DueRows}, at : DueRows] : cron' = [cron EXCEPT ![l] = c]
  BY DEF CronFetch, CronStop
<1>3. c \in [queue : SUBSET Fetched, at : Fetched \cup {None}]
  BY <1>2, DueRowsSnapshot DEF NoLoop
<1>4. \A k \in Loops : cron'[k] = IF k = l THEN c ELSE cron[k]
  BY <1>2 DEF IInv, TypeOK
<1>5. TypeOK'
  BY <1>1, <1>2, <1>3 DEF IInv, TypeOK, db, money
<1>6. RowsFilled' /\ HiredJobHasEscrow' /\ ApprovedJobIsPaid' /\ OneHirePerJob'
  BY <1>1 DEF IInv, RowsFilled, HiredJobHasEscrow, ApprovedJobIsPaid, OneHirePerJob,
              JobExists, ApplicationExists, db, money
<1>7. ASSUME NEW s \in Requests PROVE Snapshot(inflight[s])'
  <2>1. inflight'[s] = inflight[s] /\ Snapshot(inflight[s])
    BY <1>1 DEF IInv, Snapshots
  <2>. QED  BY <1>1, <2>1 DEF Snapshot, JobExists, ApplicationExists, db, money
<1>8. ASSUME NEW k \in Loops, NEW f \in cron'[k].queue
      PROVE  /\ jobs[f.job].status # "unborn" /\ f.worker \in Workers
             /\ JobExists(f.job) => jobs[f.job].worker = f.worker
  <2>1. CASE f \in DueRows
    BY <2>1, DueRowsSnapshot
  <2>2. CASE f \in cron[k].queue
    BY <2>2 DEF IInv, Snapshots, CronSnapshot
  <2>. QED  BY <1>2, <1>4, <1>8, <2>1, <2>2 DEF NoLoop
<1>9. CronSnapshot'
  BY <1>1, <1>8 DEF CronSnapshot, JobExists, db, money
<1>. QED  BY <1>5, <1>6, <1>7, <1>9 DEF IInv, Snapshots

-----------------------------------------------------------------------------
(***************************************************************************)
(* Writes to applications, the acceptance among them.                      *)
(***************************************************************************)

\* The insert of applyJob.
LEMMA ApplyKeepsIInv ==
  ASSUME IInv, NEW r \in Requests, ApplyCreate(r)
  PROVE  IInv'
<1>. DEFINE q == inflight[r]
            row == [status |-> "PENDING", job |-> q.job, worker |-> q.worker]
<1>1. q.job \in Jobs /\ q.worker \in Workers /\ JobExists(q.job)
  BY RequestFields DEF ApplyCreate, IInv, TypeOK, AboutJob
<1>2. PICK a \in Apps : applications[a].status = "unborn"
                        /\ applications' = [applications EXCEPT ![a] = row]
  BY DEF ApplyCreate
<1>3. UNCHANGED <<jobs, money, cron>> /\ inflight' = [inflight EXCEPT ![r] = Idle]
  BY DEF ApplyCreate, Finish
<1>4. applications'[a] = row /\ \A b \in Apps : b # a => applications'[b] = applications[b]
  BY <1>2 DEF IInv, TypeOK
<1>5. row \in ApplicationRow
  BY <1>1 DEF ApplicationRow, Undecided
<1>6. TypeOK'
  BY <1>2, <1>3, <1>5, IdleSnapshot DEF IInv, TypeOK, money
<1>7. RowsFilled'
  BY <1>1, <1>3, <1>4 DEF IInv, RowsFilled, JobExists, ApplicationExists
<1>8. HiredJobHasEscrow' /\ ApprovedJobIsPaid'
  BY <1>3 DEF IInv, HiredJobHasEscrow, ApprovedJobIsPaid, money
<1>9. OneHirePerJob'
  BY <1>3, <1>4 DEF IInv, OneHirePerJob
<1>10. RowsEvolve
  BY <1>2, <1>3, <1>4 DEF RowsEvolve, JobExists, ApplicationExists
<1>. QED  BY <1>3, <1>6, <1>7, <1>8, <1>9, <1>10, SnapshotsSurvive DEF IInv

\* A stale review may overwrite ACCEPTED, but never creates it.
LEMMA ReviewKeepsIInv ==
  ASSUME IInv, NEW r \in Requests, ReviewCommit(r)
  PROVE  IInv'
<1>. DEFINE q == inflight[r]
            a == q.app
<1>1. /\ a \in Apps /\ ApplicationExists(a)
      /\ q.status \in {"REJECTED", "UNDER_REVIEW"}
      /\ applications' = [applications EXCEPT ![a].status = q.status]
  BY RequestFields DEF ReviewCommit, IInv, TypeOK, AboutApplication
<1>2. UNCHANGED <<jobs, money, cron>> /\ inflight' = [inflight EXCEPT ![r] = Idle]
  BY DEF ReviewCommit, Finish
<1>3. /\ applications' \in [Apps -> ApplicationRow]
      /\ applications'[a].status = q.status /\ applications'[a].job = applications[a].job
      /\ applications'[a].worker = applications[a].worker
      /\ \A b \in Apps : b # a => applications'[b] = applications[b]
  BY <1>1 DEF IInv, TypeOK, ApplicationRow, Undecided
<1>4. TypeOK'
  BY <1>2, <1>3, IdleSnapshot DEF IInv, TypeOK, money
<1>5. RowsFilled'
  BY <1>1, <1>2, <1>3 DEF IInv, RowsFilled, JobExists, ApplicationExists
<1>6. HiredJobHasEscrow' /\ ApprovedJobIsPaid'
  BY <1>2 DEF IInv, HiredJobHasEscrow, ApprovedJobIsPaid, money
<1>7. OneHirePerJob'
  BY <1>1, <1>2, <1>3 DEF IInv, OneHirePerJob
<1>8. RowsEvolve
  BY <1>1, <1>2, <1>3 DEF RowsEvolve, JobExists, ApplicationExists
<1>. QED  BY <1>2, <1>4, <1>5, <1>6, <1>7, <1>8, SnapshotsSurvive DEF IInv

\* The update of cancelApplication.
LEMMA CancelApplicationKeepsIInv ==
  ASSUME IInv, NEW r \in Requests, CancelApplicationCommit(r)
  PROVE  IInv'
<1>. DEFINE a == inflight[r].app
<1>1. a \in Apps /\ applications' = [applications EXCEPT ![a] = NoApplication("deleted")]
  BY RequestFields DEF CancelApplicationCommit, IInv, TypeOK, AboutApplication
<1>2. UNCHANGED <<jobs, money, cron>> /\ inflight' = [inflight EXCEPT ![r] = Idle]
  BY DEF CancelApplicationCommit, Finish
<1>3. /\ applications'[a] = NoApplication("deleted")
      /\ \A b \in Apps : b # a => applications'[b] = applications[b]
  BY <1>1 DEF IInv, TypeOK
<1>4. TypeOK'
  BY <1>1, <1>2, IdleSnapshot DEF IInv, TypeOK, ApplicationRow, NoApplication, money
<1>5. RowsFilled'
  BY <1>1, <1>2, <1>3 DEF IInv, RowsFilled, JobExists, ApplicationExists, NoApplication
<1>6. HiredJobHasEscrow' /\ ApprovedJobIsPaid'
  BY <1>2 DEF IInv, HiredJobHasEscrow, ApprovedJobIsPaid, money
<1>7. OneHirePerJob'
  BY <1>1, <1>2, <1>3 DEF IInv, OneHirePerJob, NoApplication
<1>8. RowsEvolve
  BY <1>1, <1>2, <1>3 DEF RowsEvolve, JobExists, ApplicationExists, NoApplication
<1>. QED  BY <1>2, <1>4, <1>5, <1>6, <1>7, <1>8, SnapshotsSurvive DEF IInv

\* The unique key decides: without an escrow the job has no worker, hence nobody
\* was accepted before, and after this step exactly this application is.
LEMMA AcceptKeepsIInv ==
  ASSUME IInv, NEW r \in Requests, AcceptCommit(r)
  PROVE  IInv'
<1>. DEFINE q == inflight[r]
            j == q.job
            a == q.app
            row == [jobs[j] EXCEPT !.status = "ASSIGNED", !.worker = q.worker]
<1>1. q \in Request /\ q.op = "acceptCommit" /\ Snapshot(q)
  BY DEF AcceptCommit, IInv, TypeOK, Snapshots
<1>2. j \in Jobs /\ a \in Apps /\ q.worker \in Workers /\ q.amount \in Amounts
  BY <1>1, RequestFields DEF AboutJob, AboutApplication, AboutAcceptance
<1>3. /\ JobExists(j) /\ ApplicationExists(a) /\ Unhired(j) /\ Hold(q) /\ WriteJob(j, row)
      /\ AcceptOneRejectOthers(q)
      /\ UNCHANGED <<platform, funded, cron>> /\ inflight' = [inflight EXCEPT ![r] = Idle]
  BY DEF AcceptCommit, Finish
<1>4. applications[a].job = j /\ applications[a].worker = q.worker
  BY <1>1, <1>3 DEF Snapshot, AboutAcceptance
<1>5. /\ jobs' \in [Jobs -> JobRow]
      /\ jobs'[j].status = "ASSIGNED" /\ jobs'[j].worker = q.worker
      /\ jobs'[j].provider = jobs[j].provider /\ jobs'[j].compensation = jobs[j].compensation
      /\ \A i \in Jobs : i # j => jobs'[i] = jobs[i]
  <2>1. jobs[j] \in JobRow
    BY <1>2 DEF IInv, TypeOK
  <2>2. /\ row \in JobRow /\ row.status = "ASSIGNED" /\ row.worker = q.worker
        /\ row.provider = jobs[j].provider /\ row.compensation = jobs[j].compensation
    BY <1>2, <2>1 DEF JobRow, JobStatus
  <2>. QED  BY <1>2, <1>3, <2>2, JobWritten DEF IInv
<1>6. /\ escrows' \in [Jobs -> EscrowRow] /\ ledger' \in [Jobs -> {"none", "PENDING", "COMPLETED"}]
      /\ escrows'[j].status = "HELD" /\ escrows'[j].worker = q.worker /\ ledger'[j] = "PENDING"
      /\ \A i \in Jobs : i # j => escrows'[i] = escrows[i] /\ ledger'[i] = ledger[i]
  BY <1>2, <1>3 DEF IInv, TypeOK, Hold, EscrowRow
<1>7. wallets' \in [Users -> WalletRow]
  <2>1. \A x \in Amounts : x \in Int
    BY AmountAssumption
  <2>2. Debit(jobs[j].provider, q.amount)
    BY <1>3 DEF Hold
  <2>. QED  BY <1>2, <2>1, <2>2, WalletWritten DEF IInv
<1>8. /\ applications' \in [Apps -> ApplicationRow]
      /\ applications'[a].status = "ACCEPTED"
      /\ \A b \in Apps : /\ applications'[b].job = applications[b].job
                         /\ applications'[b].worker = applications[b].worker
                         /\ \/ b = a
                            \/ applications'[b].status = applications[b].status
                            \/ applications[b].status \in Undecided
                               /\ applications'[b].status = "REJECTED"
  BY <1>2, <1>3 DEF IInv, TypeOK, AcceptOneRejectOthers, ApplicationRow
<1>9. jobs[j].worker = None /\ escrows[j].status = "none"
  BY <1>2, <1>3 DEF Unhired, IInv, HiredJobHasEscrow
<1>10. None \notin Workers
  BY PartiesAssumption
<1>11. \A b \in Apps : applications[b].status = "ACCEPTED" => applications[b].job # j
  BY <1>9, <1>10 DEF IInv, OneHirePerJob, RowsFilled, ApplicationExists
<1>12. TypeOK'
  BY <1>3, <1>5, <1>6, <1>7, <1>8, IdleSnapshot DEF IInv, TypeOK
<1>13. RowsFilled'
  <2>1. ASSUME NEW i \in Jobs
        PROVE  /\ jobs'[i].status \in JobStatus <=> jobs[i].status \in JobStatus
               /\ jobs'[i].provider = jobs[i].provider
               /\ jobs'[i].compensation = jobs[i].compensation
               /\ i # j => jobs'[i].worker = jobs[i].worker
    BY <1>3, <1>5 DEF JobExists, JobStatus
  <2>2. ASSUME NEW i \in Jobs
        PROVE  /\ JobExists(i)' => jobs'[i].provider \in Providers /\ jobs'[i].compensation \in Amounts
               /\ ~ JobExists(i)' => jobs'[i].worker = None
    BY <1>3, <2>1 DEF IInv, RowsFilled, JobExists
  <2>3. ASSUME NEW b \in Apps, ApplicationExists(b)'
        PROVE  /\ applications'[b].job \in Jobs /\ applications'[b].worker \in Workers
               /\ jobs'[applications'[b].job].status \in JobStatus
    <3>1. ApplicationExists(b)
      BY <1>3, <1>8, <2>3 DEF ApplicationExists, Undecided
    <3>2. applications[b].job \in Jobs /\ applications[b].worker \in Workers
          /\ jobs[applications[b].job].status \in JobStatus
      BY <3>1 DEF IInv, RowsFilled, JobExists
    <3>. QED  BY <1>8, <2>1, <3>2
  <2>4. ASSUME NEW b \in Apps, ~ ApplicationExists(b)'
        PROVE  applications'[b].job = None
    <3>1. ~ ApplicationExists(b)
      BY <1>3, <1>8, <2>4 DEF ApplicationExists, Undecided
    <3>. QED  BY <1>8, <3>1 DEF IInv, RowsFilled
  <2>5. \A b \in Apps : IF applications'[b].status \notin {"unborn", "deleted"}
                        THEN /\ applications'[b].job \in Jobs /\ applications'[b].worker \in Workers
                             /\ jobs'[applications'[b].job].status \in JobStatus
                        ELSE applications'[b].job = None
    BY <2>3, <2>4 DEF ApplicationExists
  <2>6. \A i \in Jobs :
          /\ jobs'[i].status \in JobStatus =>
               jobs'[i].provider \in Providers /\ jobs'[i].compensation \in Amounts
          /\ ~ jobs'[i].status \in JobStatus => jobs'[i].worker = None
    BY <2>2 DEF JobExists
  <2>. QED  BY <2>5, <2>6 DEF RowsFilled, JobExists, ApplicationExists
<1>14. HiredJobHasEscrow'
  BY <1>2, <1>5, <1>6, <1>10 DEF IInv, HiredJobHasEscrow
<1>15. ApprovedJobIsPaid'
  BY <1>2, <1>5, <1>6 DEF IInv, ApprovedJobIsPaid
<1>16. OneHirePerJob'
  <2>1. ASSUME NEW b \in Apps, applications'[b].status = "ACCEPTED", b # a
        PROVE  /\ applications[b].status = "ACCEPTED"
               /\ applications[b].job \in Jobs \ {j}
               /\ jobs'[applications[b].job] = jobs[applications[b].job]
    <3>1. applications[b].status = "ACCEPTED"
      BY <1>8, <2>1 DEF Undecided
    <3>2. applications[b].job \in Jobs \ {j}
      BY <1>11, <3>1 DEF IInv, RowsFilled, ApplicationExists
    <3>. QED  BY <1>5, <3>1, <3>2
  <2>2. ASSUME NEW b \in Apps, applications'[b].status = "ACCEPTED"
        PROVE  jobs'[applications'[b].job].worker = applications'[b].worker
    <3>1. CASE b = a
      BY <1>4, <1>5, <1>8, <3>1
    <3>2. CASE b # a
      BY <1>8, <2>1, <2>2, <3>2 DEF IInv, OneHirePerJob
    <3>. QED  BY <3>1, <3>2
  <2>3. ASSUME NEW b \in Apps, NEW c \in Apps, applications'[b].job = applications'[c].job,
               applications'[b].status = "ACCEPTED", applications'[c].status = "ACCEPTED"
        PROVE  b = c
    <3>1. applications[b].job = applications[c].job
      BY <1>8, <2>3
    <3>2. CASE b = a \/ c = a
      BY <1>4, <2>1, <2>3, <3>1, <3>2
    <3>3. CASE b # a /\ c # a
      BY <2>1, <2>3, <3>1, <3>3 DEF IInv, OneHirePerJob
    <3>. QED  BY <3>2, <3>3
  <2>. QED  BY <2>2, <2>3 DEF OneHirePerJob
<1>17. RowsEvolve
  <2>1. ASSUME NEW i \in Jobs, jobs[i].status # "unborn"
        PROVE  /\ jobs'[i].status # "unborn"
               /\ JobExists(i)' => /\ JobExists(i)
                                   /\ jobs[i].worker # None => jobs'[i].worker = jobs[i].worker
    BY <1>3, <1>5, <1>9, <2>1 DEF JobExists
  <2>2. ASSUME NEW b \in Apps, applications[b].status # "unborn"
        PROVE  /\ applications'[b].status # "unborn"
               /\ ApplicationExists(b)' => ApplicationExists(b)
    BY <1>3, <1>8, <2>2 DEF ApplicationExists, Undecided
  <2>. QED  BY <1>8, <2>1, <2>2 DEF RowsEvolve
<1>. QED  BY <1>3, <1>12, <1>13, <1>14, <1>15, <1>16, <1>17, SnapshotsSurvive DEF IInv

-----------------------------------------------------------------------------
(***************************************************************************)
(* The invariant, from the first state through every step.                 *)
(***************************************************************************)

\* Time, deposits and admins touch no row that the invariant relates.
LEMMA EnvironmentKeepsIInv ==
  ASSUME IInv, Environment
  PROVE  IInv'
<1>1. CASE \E j \in Jobs : Age(j)
  <2>1. PICK j \in Jobs : Age(j)  BY <1>1
  <2>2. /\ jobs' = [jobs EXCEPT ![j].aged = TRUE]
        /\ UNCHANGED <<applications, money, inflight, cron>>
    BY <2>1 DEF Age
  <2>3. /\ jobs' \in [Jobs -> JobRow]
        /\ \A i \in Jobs : /\ jobs'[i].status = jobs[i].status
                           /\ jobs'[i].worker = jobs[i].worker
                           /\ jobs'[i].provider = jobs[i].provider
                           /\ jobs'[i].compensation = jobs[i].compensation
    <3>1. jobs \in [Jobs -> JobRow]
      BY DEF IInv, TypeOK
    <3>2. [jobs[j] EXCEPT !.aged = TRUE] \in JobRow
      BY <3>1 DEF JobRow
    <3>3. \A i \in Jobs : jobs'[i] = IF i = j THEN [jobs[j] EXCEPT !.aged = TRUE] ELSE jobs[i]
      BY <2>2, <3>1
    <3>4. jobs' \in [Jobs -> JobRow]
      BY <2>2, <3>1, <3>2
    <3>. QED  BY <3>1, <3>3, <3>4 DEF JobRow
  <2>4. TypeOK'
    BY <2>2, <2>3 DEF IInv, TypeOK, money
  <2>5. RowsFilled'
    BY <2>2, <2>3 DEF IInv, RowsFilled, JobExists, ApplicationExists
  <2>6. HiredJobHasEscrow' /\ ApprovedJobIsPaid'
    BY <2>2, <2>3 DEF IInv, HiredJobHasEscrow, ApprovedJobIsPaid, money
  <2>7. OneHirePerJob'
    BY <2>2, <2>3 DEF IInv, OneHirePerJob, RowsFilled, ApplicationExists
  <2>8. RowsEvolve
    BY <2>2, <2>3 DEF RowsEvolve, JobExists, ApplicationExists
  <2>. QED  BY <2>2, <2>4, <2>5, <2>6, <2>7, <2>8, SnapshotsSurvive DEF IInv
<1>2. CASE wallets' \in [Users -> WalletRow] /\ funded' \in Nat
           /\ UNCHANGED <<jobs, applications, escrows, ledger, platform, inflight, cron>>
  <2>1. TypeOK'
    BY <1>2 DEF IInv, TypeOK
  <2>2. RowsFilled' /\ HiredJobHasEscrow' /\ ApprovedJobIsPaid' /\ OneHirePerJob'
    BY <1>2 DEF IInv, RowsFilled, HiredJobHasEscrow, ApprovedJobIsPaid, OneHirePerJob,
                JobExists, ApplicationExists
  <2>3. RowsEvolve
    BY <1>2 DEF RowsEvolve, JobExists, ApplicationExists
  <2>. QED  BY <1>2, <2>1, <2>2, <2>3, SnapshotsSurvive DEF IInv
<1>3. CASE \E u \in Funders, amount \in Amounts : Topup(u, amount)
  <2>1. PICK u \in Funders, amount \in Amounts : Topup(u, amount)  BY <1>3
  <2>2. \A x \in Amounts : x \in Nat
    BY AmountAssumption
  <2>3. wallets' \in [Users -> WalletRow] /\ funded' \in Nat
    BY <2>1, <2>2, WalletWritten DEF Topup, IInv, TypeOK
  <2>. QED  BY <1>2, <2>1, <2>3 DEF Topup
<1>4. CASE \E u \in Suspendable : SuspendWallet(u) \/ ActivateWallet(u) \/ CloseWallet(u)
  <2>1. PICK u \in Suspendable, s \in {"ACTIVE"} \cup Blocked : SetWalletStatus(u, s)
    BY <1>4 DEF SuspendWallet, ActivateWallet, CloseWallet, Blocked
  <2>2. wallets' \in [Users -> WalletRow] /\ funded' \in Nat
    BY <2>1 DEF SetWalletStatus, IInv, TypeOK, WalletRow
  <2>. QED  BY <1>2, <2>1, <2>2 DEF SetWalletStatus
<1>. QED  BY <1>1, <1>3, <1>4 DEF Environment

\* Nothing is stored.
LEMMA InitIInv ==
  ASSUME Init
  PROVE  IInv
<1>. USE DEF Init
<1>1. TypeOK
  BY IdleSnapshot, AmountAssumption
  DEF TypeOK, JobRow, NoJob, ApplicationRow, NoApplication, EscrowRow, NoEscrow, WalletRow, NoLoop
<1>2. RowsFilled
  BY DEF RowsFilled, JobExists, JobStatus, ApplicationExists, NoJob, NoApplication
<1>3. HiredJobHasEscrow /\ ApprovedJobIsPaid
  BY DEF HiredJobHasEscrow, ApprovedJobIsPaid, Working, NoJob, NoEscrow
<1>4. OneHirePerJob
  BY DEF OneHirePerJob, NoApplication
<1>5. Snapshots
  BY IdleSnapshot DEF Snapshots, CronSnapshot, NoLoop
<1>. QED  BY <1>1, <1>2, <1>3, <1>4, <1>5 DEF IInv

\* IInv is inductive.
LEMMA NextKeepsIInv ==
  ASSUME IInv, [Next]_vars
  PROVE  IInv'
<1>1. ASSUME NEW r \in Requests, JobStep(r)  PROVE IInv'
  BY <1>1, ReadersKeepIInv, CreateJobKeepsIInv, UpdateJobKeepsIInv, DeleteJobKeepsIInv DEF JobStep
<1>2. ASSUME NEW r \in Requests, StatusStep(r)  PROVE IInv'
  BY <1>2, ReadersKeepIInv, StatusUpdatesKeepIInv, ApproveJobKeepsIInv DEF StatusStep
<1>3. ASSUME NEW r \in Requests, ApplicationStep(r)  PROVE IInv'
  BY <1>3, ReadersKeepIInv, ApplyKeepsIInv, ReviewKeepsIInv, AcceptKeepsIInv,
     CancelApplicationKeepsIInv
  DEF ApplicationStep
<1>4. ASSUME NEW r \in Requests, Abort(r)  PROVE IInv'
  BY <1>4, ReadersKeepIInv
<1>5. ASSUME NEW l \in Loops, CronStep(l)  PROVE IInv'
  BY <1>5, CronReadsKeepIInv, CronPayKeepsIInv DEF CronStep
<1>6. CASE Environment
  BY <1>6, EnvironmentKeepsIInv
<1>7. CASE UNCHANGED vars
  <2>. USE <1>7 DEF vars
  <2>1. TypeOK' /\ RowsFilled' /\ HiredJobHasEscrow' /\ ApprovedJobIsPaid' /\ OneHirePerJob'
    BY DEF IInv, TypeOK, RowsFilled, HiredJobHasEscrow, ApprovedJobIsPaid, OneHirePerJob,
           JobExists, ApplicationExists
  <2>2. RowsEvolve
    BY DEF RowsEvolve, JobExists, ApplicationExists
  <2>. QED  BY <2>1, <2>2, SnapshotsSurvive DEF IInv
<1>. QED  BY <1>1, <1>2, <1>3, <1>4, <1>5, <1>6, <1>7 DEF Next

\* IInv is an inductive invariant of every interleaving.
THEOREM Inductive == Spec => []IInv
<1>1. Init => IInv
  BY InitIInv
<1>2. IInv /\ [Next]_vars => IInv'
  BY NextKeepsIInv
<1>. QED  BY <1>1, <1>2, PTL DEF Spec

-----------------------------------------------------------------------------
(***************************************************************************)
(* What follows for every interleaving, whatever the constants.            *)
(***************************************************************************)

\* Every table, every handler's locals and the cron's list keep their shape.
THEOREM TypeCorrect == Spec => []TypeOK
BY Inductive, PTL DEF IInv

\* Work is paid for in advance, however handlers, cron and aborts interleave.
THEOREM WorkIsPrepaid == Spec => []HiredJobHasEscrow
BY Inductive, PTL DEF IInv

\* The job, its escrow and its ledger row never contradict each other.
THEOREM PaymentIsConsistent == Spec => []ApprovedJobIsPaid
BY Inductive, PTL DEF IInv

\* However many acceptances run at the same time, a job is given to one worker.
THEOREM OneHire == Spec => []OneHirePerJob
BY Inductive, PTL DEF IInv

\* The escrow of one job over one step.
Forward(j) ==
  \/ escrows[j].status = "none"
  \/ /\ escrows'[j].status \in {escrows[j].status, "RELEASED"}
     /\ escrows'[j].amount = escrows[j].amount
     /\ escrows'[j].worker = escrows[j].worker
  \/ jobs'[j].status = "deleted"

\* No step changes who is paid what, or takes a release back.
LEMMA StepIsForward ==
  ASSUME TypeOK, [Next]_vars, NEW j \in Jobs
  PROVE  Forward(j)
<1>1. CASE UNCHANGED escrows
  BY <1>1 DEF Forward
<1>2. ASSUME NEW i \in Jobs, Release(i)  PROVE Forward(j)
  BY <1>2 DEF Forward, Release, TypeOK, EscrowRow
<1>3. ASSUME NEW r \in Requests, DeleteJobCommit(r)  PROVE Forward(j)
  BY <1>3 DEF Forward, DeleteJobCommit, TypeOK, NoJob
<1>4. ASSUME NEW r \in Requests, AcceptCommit(r)  PROVE Forward(j)
  <2>1. CASE j = inflight[r].job
    BY <1>4, <2>1 DEF Forward, AcceptCommit, Unhired
  <2>2. CASE j # inflight[r].job
    BY <1>4, <2>2 DEF Forward, AcceptCommit, Hold, TypeOK
  <2>. QED  BY <2>1, <2>2
<1>5. ASSUME NEW r \in Requests, JobStep(r)  PROVE Forward(j)
  BY <1>1, <1>3, <1>5 DEF JobStep, CreateJobCheck, CreateJobCommit, UpdateJobRead,
       UpdateJobCommit, DeleteJobRead, Begin, db, money
<1>6. ASSUME NEW r \in Requests, StatusStep(r)  PROVE Forward(j)
  <2>1. CASE ApproveJobCommit(r)
    <3>1. inflight[r].job \in Jobs
      BY <2>1, RequestFields DEF ApproveJobCommit, TypeOK, AboutJob, AboutHiredJob
    <3>. QED  BY <1>2, <2>1, <3>1 DEF ApproveJobCommit
  <2>2. CASE ~ ApproveJobCommit(r)
    BY <1>1, <1>6, <2>2 DEF StatusStep, WorkerStatusRead, WorkerStatusCommit, CancelJobRead,
         CancelJobCommit, RejectJobRead, RejectJobCommit, ApproveJobRead, Begin, db, money
  <2>. QED  BY <2>1, <2>2
<1>7. ASSUME NEW r \in Requests, ApplicationStep(r)  PROVE Forward(j)
  BY <1>1, <1>4, <1>7 DEF ApplicationStep, ApplyFindJob, ApplyFindDuplicate, ApplyFindWallet,
       ApplyCreate, ReviewRead, ReviewCommit, AcceptRead, AcceptReadJob, AcceptCheckBalance,
       CancelApplicationRead, CancelApplicationCommit, Begin, Continue, db, money
<1>8. ASSUME NEW l \in Loops, CronStep(l)  PROVE Forward(j)
  <2>1. ASSUME NEW f \in cron[l].queue, CronPay(l, f)  PROVE Forward(j)
    <3>1. f.job \in Jobs
      BY DEF TypeOK, Fetched
    <3>. QED  BY <1>2, <2>1, <3>1 DEF CronPay
  <2>. QED  BY <1>1, <1>8, <2>1 DEF CronStep, CronFetch, CronStop, db, money
<1>9. CASE Environment
  BY <1>1, <1>9 DEF Environment, Age, Topup, SuspendWallet, ActivateWallet, CloseWallet,
       SetWalletStatus, money
<1>10. ASSUME NEW r \in Requests, Abort(r)  PROVE Forward(j)
  BY <1>1, <1>10 DEF Abort, db, money
<1>11. CASE UNCHANGED vars
  BY <1>1, <1>11 DEF vars
<1>. QED  BY <1>5, <1>6, <1>7, <1>8, <1>9, <1>10, <1>11 DEF Next

\* No step of anybody changes what an escrow is for or takes a payment back.
THEOREM EscrowsMoveForward == Spec => EscrowMovesForward
<1>1. TypeOK /\ [Next]_vars => [\A j \in Jobs : Forward(j)]_vars
  BY StepIsForward
<1>2. Spec => [][\A j \in Jobs : Forward(j)]_vars
  BY <1>1, TypeCorrect, PTL DEF Spec
<1>. QED  BY <1>2 DEF EscrowMovesForward, Forward

\* The wallet of one worker over one step.
EarnsFor(j, w) ==
  /\ jobs'[j].status = "APPROVED" /\ escrows'[j].status = "RELEASED"
  /\ escrows[j].worker = w
  /\ wallets'[w].balance <= wallets[w].balance + escrows[j].amount

\* Whoever pays, and however old what they read is, the payee is the one of the escrow.
LEMMA PaymentGoesToPayee ==
  ASSUME IInv, NEW j \in Jobs, NEW u \in Workers, jobs[j].worker = u, NEW amount \in Nat,
         amount <= escrows[j].amount, escrows[j].status # "none",
         SetStatus(j, "APPROVED"), Release(j), Credit(u, amount),
         NEW w \in Workers, wallets'[w].balance > wallets[w].balance
  PROVE  EarnsFor(j, w)
<1>1. /\ wallets[w].balance \in Int /\ wallets[u].balance \in Int
      /\ wallets' = [wallets EXCEPT ![u].balance = @ + amount]
      /\ wallets \in [Users -> WalletRow] /\ u \in Users /\ w \in Users
  BY DEF IInv, TypeOK, WalletRow, Users, Credit
<1>2. w = u /\ wallets'[w].balance = wallets[w].balance + amount
  BY <1>1
<1>3. escrows[j].worker = w
  BY <1>2 DEF IInv, HiredJobHasEscrow
<1>4. jobs'[j].status = "APPROVED"
  BY DEF SetStatus, WriteJob, IInv, TypeOK, JobRow
<1>5. escrows'[j].status = "RELEASED"
  BY DEF Release, IInv, TypeOK, EscrowRow
<1>6. escrows[j].amount \in Nat
  BY HeldAmount DEF IInv
<1>. QED  BY <1>1, <1>2, <1>3, <1>4, <1>5, <1>6 DEF EarnsFor

\* A step that fills the wallet of a worker is a deposit or a payment.
LEMMA StepPaysPayees ==
  ASSUME IInv, [Next]_vars, NEW w \in Workers,
         wallets'[w].balance > wallets[w].balance, funded' = funded
  PROVE  \E j \in Jobs : EarnsFor(j, w)
<1>. DEFINE Goal == \E j \in Jobs : EarnsFor(j, w)
<1>1. wallets \in [Users -> WalletRow] /\ w \in Users /\ wallets[w].balance \in Int
  BY DEF IInv, TypeOK, WalletRow, Users
<1>2. ~ UNCHANGED wallets
  BY <1>1
<1>3. ASSUME NEW r \in Requests, JobStep(r)  PROVE Goal
  BY <1>2, <1>3 DEF JobStep, CreateJobCheck, CreateJobCommit, UpdateJobRead,
       UpdateJobCommit, DeleteJobRead, DeleteJobCommit, Begin, db, money
<1>4. ASSUME NEW r \in Requests, StatusStep(r)  PROVE Goal
  <2>. DEFINE j == inflight[r].job
  <2>1. CASE ApproveJobCommit(r)
    <3>1. j \in Jobs /\ inflight[r].worker \in Workers /\ inflight[r].op = "approveJob"
      BY <2>1, RequestFields DEF ApproveJobCommit, IInv, TypeOK, AboutJob, AboutHiredJob
    <3>2. /\ JobExists(j) /\ escrows[j].status # "none" /\ SetStatus(j, "APPROVED") /\ Release(j)
          /\ Credit(inflight[r].worker, NetAmount(escrows[j].amount))
      BY <2>1 DEF ApproveJobCommit
    <3>3. jobs[j].worker = inflight[r].worker
      BY <3>1, <3>2 DEF IInv, Snapshots, Snapshot
    <3>4. escrows[j].amount \in Nat
      BY <3>1, HeldAmount DEF IInv
    <3>5. NetAmount(escrows[j].amount) \in Nat /\ NetAmount(escrows[j].amount) <= escrows[j].amount
      BY <3>4, AFeeIsSplitOff
    <3>. QED  BY <3>1, <3>2, <3>3, <3>5, PaymentGoesToPayee
  <2>2. CASE ~ ApproveJobCommit(r)
    BY <1>2, <1>4, <2>2 DEF StatusStep, WorkerStatusRead, WorkerStatusCommit, CancelJobRead,
         CancelJobCommit, RejectJobRead, RejectJobCommit, ApproveJobRead, Begin, db, money
  <2>. QED  BY <2>1, <2>2
<1>5. ASSUME NEW r \in Requests, ApplicationStep(r)  PROVE Goal
  <2>1. CASE AcceptCommit(r)
    <3>. DEFINE amount == inflight[r].amount
                u == jobs[inflight[r].job].provider
    <3>1. amount \in Amounts
      BY <2>1, RequestFields DEF AcceptCommit, IInv, TypeOK
    <3>2. amount \in Nat
      BY <3>1, AmountAssumption
    <3>3. wallets' = [wallets EXCEPT ![u].balance = @ - amount]
      BY <2>1 DEF AcceptCommit, Hold, Debit
    <3>4. wallets'[w].balance = wallets[w].balance \/ wallets'[w].balance = wallets[w].balance - amount
      BY <1>1, <3>3 DEF WalletRow
    <3>. QED  BY <1>1, <3>2, <3>4
  <2>2. CASE ~ AcceptCommit(r)
    BY <1>2, <1>5, <2>2 DEF ApplicationStep, ApplyFindJob, ApplyFindDuplicate, ApplyFindWallet,
         ApplyCreate, ReviewRead, ReviewCommit, AcceptRead, AcceptReadJob, AcceptCheckBalance,
         CancelApplicationRead, CancelApplicationCommit, Begin, Continue, db, money
  <2>. QED  BY <2>1, <2>2
<1>6. ASSUME NEW l \in Loops, CronStep(l)  PROVE Goal
  <2>1. ASSUME NEW f \in cron[l].queue, CronPay(l, f)  PROVE Goal
    <3>1. /\ JobExists(f.job) /\ SetStatus(f.job, "APPROVED") /\ Release(f.job)
          /\ Credit(f.worker, escrows[f.job].amount)
      BY <2>1 DEF CronPay, Payable
    <3>2. f.job \in Jobs /\ f.worker \in Workers /\ jobs[f.job].worker = f.worker
      BY <3>1 DEF IInv, TypeOK, Snapshots, CronSnapshot, Fetched
    <3>3. escrows[f.job].status # "none" /\ escrows[f.job].amount \in Nat
      BY <3>2, HeldAmount, PartiesAssumption DEF IInv, HiredJobHasEscrow
    <3>. QED  BY <3>1, <3>2, <3>3, PaymentGoesToPayee
  <2>. QED  BY <1>2, <1>6, <2>1 DEF CronStep, CronFetch, CronStop, db, money
<1>7. CASE Environment
  <2>1. ASSUME NEW u \in Funders, NEW amount \in Amounts, Topup(u, amount)  PROVE FALSE
    <3>1. amount \in Nat \ {0} /\ funded \in Nat /\ funded' = funded + amount
      BY <2>1, AmountAssumption DEF Topup, IInv, TypeOK
    <3>. QED  BY <3>1
  <2>2. ASSUME NEW u \in Suspendable, NEW s, SetWalletStatus(u, s)  PROVE FALSE
    BY <1>1, <2>2 DEF SetWalletStatus, WalletRow
  <2>. QED  BY <1>2, <1>7, <2>1, <2>2
       DEF Environment, Age, SuspendWallet, ActivateWallet, CloseWallet, money
<1>8. ASSUME NEW r \in Requests, Abort(r)  PROVE Goal
  BY <1>2, <1>8 DEF Abort, db, money
<1>9. CASE UNCHANGED vars
  BY <1>2, <1>9 DEF vars
<1>. QED  BY <1>3, <1>4, <1>5, <1>6, <1>7, <1>8, <1>9 DEF Next

\* However approvals and loops of the cron overlap, money reaches only the worker an
\* escrow was made for, and no step pays more than this escrow holds.
THEOREM OnlyPayeesGetMoney == Spec => OnlyPayeesArePaid
<1>. DEFINE Pay == \A w \in Workers :
                     wallets'[w].balance > wallets[w].balance /\ funded' = funded =>
                       \E j \in Jobs : EarnsFor(j, w)
<1>1. IInv /\ [Next]_vars => [Pay]_vars
  BY StepPaysPayees
<1>2. Spec => [][Pay]_vars
  BY <1>1, Inductive, PTL DEF Spec
<1>. QED  BY <1>2 DEF OnlyPayeesArePaid, EarnsFor
=============================================================================
