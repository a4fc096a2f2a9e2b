# Verification of tenaga-rakyat-api

TLA+ specifications of the API's marketplace, payment, account and file logic, the TLC runs that
check them on small instances, and TLAPS proofs of what holds for any number of
users, rows and handlers. All paths below are relative to the repository.

## The system

A NestJS server over one PostgreSQL database (through Prisma). Employers
(`PEMBERI_KERJA`) post jobs, workers (`PEKERJA`) apply, an accepted application moves
the job's compensation from the employer's wallet into an escrow, and the escrow is
paid out when the employer approves the delivered work or when a cron does so a day
later. Wallets are filled through a payment gateway (Midtrans) and emptied by
withdrawals that an admin handles by hand.

| Component | Source | State | Operations | Talks to |
|---|---|---|---|---|
| Job postings | `src/modules/job/job.service.ts` | table `jobs` | create, update, delete; the worker's progress; the employer's approve, reject, cancel | wallets, escrows, ledger |
| Applications | `src/modules/application/application.service.ts` | `job_applications` | apply, review, accept, withdraw the application | jobs, wallets, escrows, ledger |
| Escrow and ledger | `prisma/schema.prisma`, written by the two services and the cron | `escrows` (UNIQUE `job_id`), `transactions` (UNIQUE `job_id`) | hold, release, cascade on deletion | wallets, platform wallet |
| Auto-approve cron | `src/infrastructure/cron/cron.service.ts` | the list of jobs of each loop, in memory | every ten minutes, one transaction per COMPLETED job untouched for 24 h | everything above |
| Wallets and top-ups | `src/modules/payment/payment.service.ts`, `midtrans/` | `wallets`, FUNDING rows of `transactions` | top-up, webhook, an admin's deposit | the gateway |
| Withdrawals | `src/modules/payment/payment.service.ts` | `withdraw_methods`, `withdraw_requests`, WITHDRAWAL rows | add/delete method, request, lock, unlock, approve, reject, send | wallets, platform wallet |
| Sessions | `src/modules/user/user.service.ts` | `refresh_tokens` | register, login, rotate, logout | users, wallets |
| E-mail verification | `src/modules/auth/email-verification.service.ts` | verification tokens | create, resend, verify, expire | users, mail |
| User management | `src/modules/user-management/user-management.service.ts` | user and wallet status | suspend, activate, verify, delete | wallets |
| Admin accounts | `src/modules/admin/admin.service.ts` | rows of `users` with the role ADMIN | create, update, change the password, delete | users |
| Photos and profile pictures | `src/modules/user-photo/user-photo.service.ts`, `src/modules/user/profile-picture.service.ts` | files in two directories, `user_photos`, `users.profile_picture_url` | add, edit, delete a photo; upload, delete the picture | the disk, users |
| Connection pool | `src/common/prisma.service.ts`, external | which handler holds a connection | one per statement or transaction | every service |
| Reports, HTTP layer | see `PROJECT.json` | none | | |

**What is hard.** Nothing in the services locks a row explicitly and nothing asks for
an isolation level, so transactions run under Read Committed. The handlers follow one
pattern: read some rows, compare, then write *by id alone*. Between a read and the
write every other handler, the webhook and the cron may commit. What remains right
under all interleavings rests on unique keys, foreign keys, and on rows only moving in one
direction; what the error messages of the code claim ("only PENDING requests can be
locked") rests on the reads, and holds only when handlers do not overlap. The other
difficulties are an exception in the middle of the cron's loop, a repeated webhook,
an admin's double click, files that no transaction rolls back, and a transaction that
needs a second connection of the pool while it holds one.

`PROJECT.json` lists these hazards by line, each with the properties that watch it.

## How the code is modelled

The same conventions hold in `JobEscrow`, `Payments`, `Accounts` and `Photos`.

* **A handler is a slot of `inflight`.** `Requests` is the set of handlers the server
  may be executing. `inflight[r]` holds the handler's next step, its parameters, and
  what it has read. A handler starts with its first read (`Begin`), goes on with later
  reads, and leaves with its commit (`Finish`).
* **Reads are steps, a commit is a step.** Each `await` that reads rows someone else
  may change is an action of its own, and the guards the code evaluates on it are that
  action's guards. Consecutive checks on one row are one action. The writes of a
  handler are one statement or one `$transaction`; they are one action, because
  PostgreSQL keeps the written rows locked to the commit, all writes are absolute
  values or increments, and a failing statement rolls the others back. Reads *inside*
  a transaction are steps too (`AcceptReadJob`, `AcceptCheckBalance`, `WebhookRead`):
  Read Committed protects none of them.
* **A failed guard, a violated constraint, a timeout, a lost connection, a crash** all
  end a handler with nothing more written: `Abort`. In `Accounts` most handlers write in several
  statements without a transaction; each is a step, and `Abort` between them leaves what
  the earlier ones wrote.
* **Rows.** `Jobs`, `Apps`, `Withdrawals`, ... are the rows that may *ever* be
  created. A row is `unborn`, then lives, then may be `deleted`; it is never used
  twice, as ids are never reused. `UNIQUE job_id` makes `escrows` a function of the
  job, and the foreign keys (`RESTRICT` for applications and methods, `CASCADE` for escrows,
  `SET NULL` for transactions) are guards and effects of the deletions. (The comment in
  `deleteJob` speaks of a cascade to applications; the schema says RESTRICT.)
* **Money** in a table is an integer, cents. What a handler computes or a caller sends
  may have more decimals, and PostgreSQL rounds it where it is stored, half a cent away
  from zero (`Rounded`): the fee of an approval in `JobEscrow`, the amounts of the requests in
  `Payments`.
  `MaxBalance` is the capacity of `DECIMAL(12,2)`; a credit beyond it raises an error
  and the transaction does not happen. There is no lower bound, as in the schema.
* **Left out**: rows nobody reads back (platform transactions, the FUNDING row of a
  refund), notifications and logging, notes and receipts, paging, and all queries.

### Modules

| Module | What it is |
|---|---|
| `JobEscrow` | jobs, applications, escrows, ledger, wallets, the cron: state machine, fairness, properties |
| `JobEscrowMoney` | sums over `JobEscrow` and the refinement mapping to `EscrowPromise` |
| `EscrowPromise` | abstract: money held once per job, from a purse that has it, released once to the worker it was held for |
| `Payments` | top-ups with gateway and webhook, withdraw methods, withdrawals: state machine, properties |
| `PaymentsMoney` | sums over `Payments` |
| `Accounts` | accounts, mailed links, sessions, the admin's actions on accounts: state machine, properties |
| `Photos` | files on the disk and the rows that name them, handlers that stop between two steps: state machine, properties |
| `Pool` | who holds and who waits for a database connection while jobs are approved: state machine, fairness, properties |
| `MCJobEscrow`, `MCPayments`, `MCAccounts`, `MCPhotos` | symmetry sets for TLC |
| `JobEscrowProofs`, `PaymentsProofs` | theorems about every interleaving |
| `JobEscrowSerial`, `PaymentsMoneyProofs` | theorems about handlers that do not overlap, about the sums, and the refinement of `EscrowPromise` |
| `AccountsProofs`, `PhotosProofs`, `PoolProofs` | theorems about these modules |
| `Sums` | lemmas about sums over finite functions |

The state machines share no variable. Where one service writes a table of
another part, both models have that effect as their environment: deposits of the payment
side are `Topup` in `JobEscrow`, suspending, activating and deleting an account writes
the account in `Accounts`, the wallet in `JobEscrow` and the picture in `Photos`. `Pool` is the
approval of `JobEscrow` seen from below, with its rows left out.

### JobEscrow

| Code | Actions |
|---|---|
| `createJob` | `CreateJobCheck` (wallet status), `CreateJobCommit` |
| `updateJob` | `UpdateJobRead`, `UpdateJobCommit` |
| `deleteJob` | `DeleteJobRead`, `DeleteJobCommit` |
| `updateWorkerJobStatus` | `WorkerStatusRead`, `WorkerStatusCommit` |
| `updateEmployerJobStatus` | `CancelJob…`, `RejectJob…`, `ApproveJobRead`, `…Commit` |
| `applyJob` | `ApplyFindJob`, `ApplyFindDuplicate`, `ApplyFindWallet`, `ApplyCreate` |
| `updateApplicationStatus` | `ReviewRead`, `ReviewCommit`; `AcceptRead`, `AcceptReadJob`, `AcceptCheckBalance`, `AcceptCommit` |
| `cancelApplication` | `CancelApplicationRead`, `CancelApplicationCommit` |
| `handleAutoApproveJobs` | `CronFetch`, `CronPay`, `CronStop` |
| `addBalance`, `suspendUserWallet`, `activateUserWallet`, `deleteUser` | `Topup`, `SuspendWallet`, `ActivateWallet`, `CloseWallet` |

`aged` stands for `updated_at < now - 24h`; every write of the job's row clears it
(`@updatedAt`), and `Age` sets it on a COMPLETED job. The timer fires every ten minutes and
nothing keeps it from starting a loop while earlier ones run: `Loops` are the loops that may
run at the same time. `cron[l].queue` is what loop `l` has fetched and not yet paid, job and worker as they were
then, `cron[l].at` the row whose transaction is under way; the query has no `orderBy`, so the next one is any. The
transaction pays the fetched worker and looks at no status. An exception in it is not
caught inside the loop and ends it (`CronStop`, also the death of the process): the job
or a row is gone, or the wallet is too full (`Payable`, `Fits`).

**Fee and rounding.** An approval adds the net amount to the worker's wallet and the fee to the
platform's, both unrounded; each column keeps two decimals. Where the fee ends in half a
cent (10 cents at 5 %), both are rounded up, and the two wallets get a cent more than
the escrow held. `MoneyIsConserved` allows exactly these cents, `EscrowPromise` at most one
per release. A worker's wallet is never negative here, so rounding "half away from zero" is
rounding half up. `FeePercent` is the seeded value or any other whole number of
per cents; nothing updates the table after seeding.

The wallet actions of the admin are one step: their reads of other tables decide
nothing here. No refund exists in the code for an escrow that is HELD: `REFUNDED` is a value of
the enum that nothing writes, so rejected work can only be taken up again.

### Payments

The gateway is external. `gateway[t]` is what it knows of the order made for a FUNDING
row: `charged` when the order was created, `settled` when the user has paid. From then
on the webhook may be delivered any number of times, also concurrently. A failed
`createTransaction` leaves the PENDING row behind (`Abort` at step `charge`); a call
that worked although its answer was lost is `Charge`.

The amount leaves the wallet when the withdrawal is requested; the fee goes to the
platform at the same moment and is taken back by a rejection. `booked[w]` is the status of the WITHDRAWAL row
written with request `w`. The row has no reference to the request, so `send`
completes all PENDING rows with the same wallet and amount (`Book`), including those of other
requests. The code validates a minimum of 10 000 per withdrawal and the seeded fee is
smaller; `Amounts` are larger than `WithdrawFee`. The fee is a constant: nothing updates
the table after seeding.

**Fractions of a cent.** The validation asks for positive numbers and limits no decimals, so
`Amounts` are tenths of a cent, which tell less than a half, a half and more apart. A
withdrawal compares and decrements the balance with the amount as sent, and stores it in two
rows; balance and rows are rounded each by its column. Where the amount ends in half a
cent both are rounded up, so the wallet keeps a cent that the request pays out too; a
balance that stays negative is rounded the other way. The webhook credits the amount of
the row, which is whole; an admin's deposit has the two roundings again. `halves` is a history variable: it
counts the withdrawals and the admin's deposits that ended in half a cent, and `MoneyAddsUp` and
`NobodyLosesMoney` are exact up to these.

### Accounts

| Code | Actions |
|---|---|
| `register` | `RegisterRead`, `RegisterCommit`, then the mail |
| `sendVerificationEmail` | `Revoke`, `CreateToken`, `Mail` |
| `sendVerificationEmailByEmail`, `requestChangeEmail` | `ForgotPassword`, `RequestChangeEmail`, then the mail |
| `resendVerificationEmail` | `Resend`, `ResendFindChange`, then the mail |
| `verifyEmail` | `VerifyRead`, `VerifyCommit` |
| `verifyAndResetPassword` | `ResetRead`, `ResetCommit` |
| `login` | `LoginRead`, `CreateSession` |
| `refresh` | `RefreshRead`, `RotateDelete`, `CreateSession` |
| `logout` | `Logout` |
| `updateVerificationStatus`, `suspendUserAccount`, `activateUserAccount`, `deleteUser` | `UpdateVerification`, `SuspendAccount`, `ActivateAccount`, `DeleteUser` |
| `createAdmin`, `updateAdmin`, `deleteAdmin` | `CreateAdminRead`, `CreateAdminCommit`; `UpdateAdminRead`, `UpdateAdminCommit`; `DeleteAdmin` |
| the clock | `ExpireToken` (24 h), `ExpireSession` (7 d) |

A row of `email_verifications` is `created` when only the table knows it, `mailed` when
its owner can click on it, then `expired`, `revoked` or `used`. A row of
`refresh_tokens` remembers in `login` the first row of its chain of refreshes: a ghost
that says which sessions go back to the same login. `deleteUser` replaces the address
by one that nobody has (`None`).

Three things the code does, and the model with it: `updateVerificationStatus` validates the values
`UNVERIFIED`, `PENDING`, `VERIFIED` and `REJECTED`, of which the column's enum has only
the first, so an admin can only take a verification back; `login` asks neither for
suspension nor for deletion; `deleteUser` leaves mailed links alone, so a change of address
confirmed afterwards gives the deleted account an address again. `DeletedStayNameless` says
that nothing else does.

`Staff` are the users that are admins. They are created by the super admin, verified from the
start, and their address is changed without a mail, so `VerifiedMeansConfirmed` is about
everybody else; they share the table and its unique address, log in, and may reset
their password. The routes for changing one's own address and for resending a mail are closed to them. An
`updateAdmin` without an address writes nothing that is modelled. It checks that the admin is
there and updates by id alone: a deletion in between leaves the deleted admin an address.

### Photos

| Code | Actions |
|---|---|
| `addPhoto` | `AddPhotoRead`, `WritePhoto`, `CreatePhoto` |
| `editPhotoDescription` | `EditPhotoRead`, `EditPhotoCommit` |
| `deletePhoto` | `DeletePhotoRead`, `UnlinkPhoto`, `DeletePhotoCommit` |
| `uploadProfilePicture` | `UploadPictureRead`, `UnlinkReplaced`, `WritePicture`, `SetPicture` |
| `deleteProfilePicture` | `DeletePictureRead`, `UnlinkPicture`, `ClearPicture` |
| `deleteUser`, `deleteAdmin` | `DeleteAccount` |

Nothing rolls the disk back. `Abort` may end a handler after any step, and an `unlink` may fail,
which the code logs and forgets. What a handler has removed or written by then is collected in the history
variable `abandoned`, together with the files that other handlers lose: `deleteUser` clears
the URL and leaves the file; of two uploads at the same time the later one overwrites the URL
of the earlier one, whose file stays; a deletion that read the old URL clears the new one.
The properties compare disk and rows up to `abandoned`, so they say that there are no other
ways. No action of a photo puts a file there unless it fails: photos are never
overwritten. Two deletions of one photo both unlink it; the second `delete` throws.

### Pool

A job's approval holds the connection of its transaction and asks for the fee through
`this.prismaService` (`job.service.ts:366`): a second connection. `stage` says where each handler is,
`open` whose transaction is open, `queue` who waits. The pool (`pg.Pool` behind the adapter, with its
defaults: ten connections, first come first served, no time limit for waiting) and Prisma's limits of a transaction (2 s
to get its connection, 5 s to finish) are external. A transaction that times out is rolled back
under its handler, which stays where it is and learns of it from its next statement
through `tx`; its statement outside of it goes on as if nothing had happened. Handlers that need one
connection only, in a transaction or not, are `Queries`.

## What the runs check

All runs take seconds to about a minute or two.

**`interleaved`** (one job, two applications, two workers, three handler slots, two loops of the cron;
`MaxInFlight = 5` never limits). What holds in every interleaving: a job has a worker
exactly when it has an escrow for that worker (`HiredJobHasEscrow`); job, escrow and
ledger row agree (`ApprovedJobIsPaid`); at most one application is ever accepted
(`OneHirePerJob`); escrows only move forward (`EscrowMovesForward`); and money reaches only
the worker an escrow was made for, and no more than it holds, although approvals and
loops pay whom they read some time before (`OnlyPayeesArePaid`). One
job suffices because these relate the rows of one job; two applications and three slots
allow two acceptances beside a stale cancellation, deletion or status update, and two loops that
fetched the same job beside them.

**`one_at_a_time`** (`MaxInFlight = 1`; two jobs, three applications, two workers, two
amounts). A handler that has begun finishes or aborts before anything else begins.
Here everything the checks claim holds: nobody overdraws, escrow equals compensation,
cancelled jobs have no worker, one application per worker, hiring closes the other
applications, money is conserved up to the cents of rounding (one of the two amounts
is 10 cents, whose fee is half a cent), jobs keep to their life cycle, blocked wallets neither
post nor apply, no worker earns twice, and the specification implements
`EscrowPromise`. The wallets of the employer and of one worker can be suspended, closed and
re-opened between any two handlers.

**`auto_approve`** (two jobs, two workers, two loops, a handler) is liveness: work delivered 24 hours ago does not
wait for ever although handlers touch the fetched jobs and exceptions end the loops. *Fairness*:
`WF(CronStep(l))` for each loop, because the timer fires for ever and a loop that has begun goes on or
ends; `SF(Pays(j))` for each job, because a payment that is tried on every run
is not hit by a lost connection each time. No user and no admin has to do anything.
The one way out the property allows is that *some* worker's wallet is too full for the
pay that is due: its job throws, and as the order of the result is anybody's guess it may be the first of
each run and end the loop. One would expect that only the full wallet's own worker waits; that
is not so (with one loop, two jobs and two workers TLC finds the other worker waiting for ever), so the
property cannot be stated for each worker alone.

**`payments_interleaved`** (two handlers at a time, two admins, one user, one
deposit, two withdrawals, an amount with half a cent). The rows keep naming who is responsible (`AuditTrail`), and
races never make booked money disappear (`NobodyLosesMoney`), however the columns round. That a deposit meets a
balance that stays below zero afterwards, where rounding goes the other way, takes two deposits of different
amounts and two withdrawals; this case is left to the theorem `NoDepositIsLost`.

**`payments_one_at_a_time`** (two users, two admins, three methods, two amounts, one of them
with half a cent, one handler at a time). No debt, exact sums up to the counted half cents, the limit on methods, and the
legal life of a withdrawal, decided by the admin who locked it. (A 409 answer of `lockWithdrawRequest`
for a PENDING request held by someone else can never be given: `AuditTrail` says that
a PENDING request is unlocked, and this is proved.)

**`accounts_interleaved`** (two handlers at a time; one user, two addresses, two links, three
refresh tokens). Refreshing one token twice at the same time never leaves a login
two sessions (`OneSessionPerLogin`: three rows, for the first session and two rival
successors). What a verified account's address rests on (`VerifiedMeansConfirmed`) while a link
that was read is revoked, used a second time or overtaken by a change of address.

**`accounts_one_at_a_time`** (a user and an admin, two addresses, two links, two refresh tokens). The
same (`VerifiedMeansConfirmed`: a first mail that is used after a change, and everything admins do to the account), what
a new link does to earlier ones (`OneLinkPerPurpose`, `OnlyTheLatestLinkWorks`), how a deleted account may come by
an address (`DeletedStayNameless`), and that nothing is left of a login that was logged out
(`LoggedOutStaysOut`). The last four need handlers that do not overlap: two
resends can leave two links, a link that was read may be revoked before it is
used, an update of an admin may overtake a deletion, and a logout between the delete and the
create of a refresh finds nothing to delete.

**`photos`** (one user, two photos, three files, three handlers at a time, so that two of them race
while a third stops in the middle). `NoBrokenLinks` and `NoStrayFiles`. Three files are an
old picture and two rival new ones, or two photos and a picture. One user suffices: no
handler touches the rows of another user, and files are never shared.

**`pool`** (three connections, four approvals, a query). Three approvals can fill the pool and all
wait for the fee, with a fourth and the query behind them. No connection leaks (`NoLeak`), and
every request is answered (`EveryRequestIsAnswered`). *Fairness*: `WF(Run(h))`, a handler
that has what it waits for goes on; `WF(Grant)`, the pool serves its queue;
`WF(Timeout(h))` and `WF(StartTimeout(h))`, clocks go on. Nobody has to send a request. Without
`Timeout` the property is false: the time limit is all that resolves the deadlock, at the price of
failed approvals and of up to five seconds during which nobody else is served.

Three runs find a violation of something the code says of itself; `PROJECT.json`
quotes the line.

| Run | What happens |
|---|---|
| `overdraft` | two acceptances check the same balance, both decrement it |
| `paid_twice` | two payments of one job, each having seen it COMPLETED, both credit the worker |
| `refund_after_send` | a lock that saw PENDING commits after the request was sent; it is then rejected and refunded |

Other claims of `one_at_a_time` and `payments_one_at_a_time` fail as well when handlers overlap, for the same
reason: a cancellation that saw no worker overwrites an acceptance
(`CancelledJobHasNoWorker`, and the held money is stuck), two deliveries of one settlement both credit the wallet (`MoneyAddsUp`),
an update that found an admin there commits after the deletion and gives the deleted admin an address, with which
login finds it (`DeletedStayNameless`).
The runs with one handler at a time cannot show these hazards: what they show is that the checks suffice without overlap.
No run is kept for these.

`RefundedIsNotSent` also fails without overlap when one user has two withdrawals of the
same amount, because of the `updateMany` by amount; it is therefore no property of a
passing run.

**Bounds.** The number of rows, `Requests`, `MaxInFlight`, and `MaxFunding` (total
deposits of a run), and `Loops`. Each is a constant of the specification; the proofs do not depend
on their values. Amounts are one or two values around a balance that pays for one
job but not for two.

## What is proved

The proof modules prove, for any sets of rows, users and handlers
and any values of the numbers that satisfy the named assumptions of the modules they extend,
that in every interleaving:

| Theorem | Statement |
|---|---|
| `TypeCorrect`, `WorkIsPrepaid`, `PaymentIsConsistent`, `OneHire` | the four invariants of `interleaved` |
| `EscrowsMoveForward`, `OnlyPayeesGetMoney` | its action properties |
| `PaymentsTypeCorrect`, `RowsAreSigned` | type correctness and `AuditTrail` of `Payments` |
| `AccountsTypeCorrect`, `LoginsHaveOneSession`, `VerifiedAreConfirmed` | type correctness, `OneSessionPerLogin`, `VerifiedMeansConfirmed` of `Accounts` |
| `AFeeIsSplitOff` | for every amount and percentage, rounded fee and rounded net amount lie within the amount and add up to it, or to a cent more exactly where the fee ends in half a cent |
| `PhotosTypeCorrect`, `LinksStayWhole`, `FilesAreAccountedFor` | type correctness, `NoBrokenLinks` and `NoStrayFiles` of `Photos` |
| `NoDepositIsLost` | `NobodyLosesMoney` of `Payments` |
| `PoolTypeCorrect`, `NothingLeaks` | `PoolTypeOK` (no more connections are lent than there are) and `NoLeak` of `Pool` |

and, for handlers that run one after the other (`OneAtATime`, that is `MaxInFlight = 1`), that:

| Theorem | Statement |
|---|---|
| `NobodyOverdraws`, `PriceIsHeld`, `CancelledIsFree`, `AppliesOnce`, `HiringDecidesAll` | `NoOverdraft`, `EscrowIsCompensation`, `CancelledJobHasNoWorker`, `OneApplicationPerWorker`, `HiringClosesApplications` |
| `JobsLiveInOrder`, `BlockedStayOut` | the action properties `JobLifecycle` and `BlockedUsersCannotEnter` |
| `NoMoneyVanishes`, `NobodyIsPaidTwice` | `MoneyIsConserved` and `WorkersEarnOnce` |
| `ImplementsPromise` | `JobEscrow` implements `EscrowPromise` (`KeepsPromise`) |
| `NobodyOwes`, `EveryDepositIsOneBalance`, `MethodsStay` | `NoDebt`, `MoneyAddsUp`, `MethodsAreKept` of `Payments` |
| `WithdrawalsLiveInOrder` | the action property `WithdrawalLifecycle` |
| `OneLinkWorks`, `LogoutLasts`, `DeletedAreNameless` | `OneLinkPerPurpose`, `LoggedOutStaysOut` and `DeletedStayNameless` of `Accounts` |
| `OnlyTheLatestIsUsed` | the action property `OnlyTheLatestLinkWorks` |

The second table cannot do without `OneAtATime`: what these claims say fails when
handlers overlap (see the runs that find a violation). What expires or
ages between two steps of a handler, and what the gateway does meanwhile, is not excluded.

*Every interleaving.* 
No property of the first table is inductive alone, because a commit acts on what its handler read
earlier. The inductive invariant `IInv` adds `RowsFilled` (a row that exists has its
references filled in, an unborn row nothing) and `Snapshots`: *of what a handler in
flight has read, this much nobody can take back*. For instance, a handler about to
set a job IN_PROGRESS saw a worker, and a worker is never removed from a row that exists; one
about to send a withdrawal saw an approval, and `admin_approved_by` is never cleared. A stale handler
may overwrite a status, but not break what `Snapshot` says; that
is why the invariants survive although the guards are stale. What a loop of the cron has fetched is such a
snapshot too: a worker who was fetched with a job is the job's worker as long as the job exists,
and with `HiredJobHasEscrow` the payee of its escrow. That is `OnlyPayeesArePaid`.

The proof has one lemma per group of actions. `Snapshots` is carried by one general
lemma (rows evolve in one direction, so the snapshots of all other handlers survive), used for each
action.

`AccountsProofs` rests on two ideas. A login lives on in *one* place, a row of the table or
one handler between its delete and its create (`OneHeir`); a refresh moves it from the
first to the second because `delete` throws for a row that is gone. And an address in
use was either confirmed by a change, or is the one every first mail of the user is for,
those still being sent included (`AddressesHaveOrigin`); so a first-mail link that is used late, which the code does
not compare with the present address, confirms either that address or an account
whose address a change has confirmed already.

`PhotosProofs` adds to the properties that a name not yet given to a file is nowhere (`Fresh`; a name has a
random UUID in it), that two rows never name one file (`OneOwner`), that what a handler has written is on
the disk and nobody else knows of it (`Unrecorded`), that what it is to remove can be named only by the row
it was read from (`Removable`), that past `unlink` the file is gone or abandoned (`Removed`), and that a
created row names a file (`RowsFilled`).

`PoolProofs` says who is in the queue instead of how often (`Once`, and the waiting handlers are
those in it), which one step changes for one handler only; the counts of `NoLeak`
follow. The three ways the queue changes (append, tail, removal in the middle) are lemmas about sequences.

*One after the other.* The inductive invariant `SInv` adds `Turn` to `IInv`: at most one handler is in flight,
and what it has checked, all of it, still holds (`Current`). A first read starts when nobody is in flight;
from then on nobody else writes what was read; so each commit checks and
writes as if at once. In `JobEscrowSerial` that makes each step one
`Operation` on the tables, and every claim is shown to be kept by every operation. `HiringClosesApplications` needs
the acceptance to close the other applications *and* later applications to have
seen the job OPEN; `EscrowIsCompensation` needs an edit to have seen no worker. In `AccountsProofs` the claim about links
becomes `LatestIsPending`: a link that is neither used nor revoked is the newest of its user and purpose,
because links are revoked in the step before one is created. Logging out ends a login for good because nobody is
between its delete and its create then. A deleted account stays without an address because an update of an
admin in flight still has its admin (`Current`), and because a used link stays used (`UsedStay`).

*Sums.* `MoneyIsConserved` and its like add up functions over finite sets of rows (`SumFunction`). `Sums` proves what such a
sum does when one row or two change, by well-founded induction over
the subsets of the domain; `TotalChange` is the lemma used at each write. Each commit is then described by what it adds to
each sum (the lemmas named `…Books` in `PaymentsMoneyProofs`). `MoneyAddsUp` needs the platform's balance to be the sum of
the fees of the requests that were not rejected (`FeesAreEarned`), which also gives `platform >= 0`:
a refund takes back a fee that was earned. Where an amount of tenths of a cent meets a column, two lemmas
say what is stored (`RoundedSum` for deposits, `RoundedRest` for withdrawals): a balance that is not negative and the row
differ by `HalfCent`, and no balance loses more than it. `NobodyLosesMoney` needs no turn: a stale refund or a second delivery only adds to what users have.

*The refinement.* Under the mapping of `JobEscrowMoney` the initial state is the initial state
of `EscrowPromise`; an acceptance is a `Hold` (its purse had the amount: `Current`), an approval or a payment of the
cron a `Release`, a top-up a `Deposit`, everything else a stutter (a job that is deleted has no worker, so its
cascade takes no escrow).

**Assumptions.** The named assumptions of the modules say what kind of values the constants have. That
the sets of rows, users and handlers are finite (`FinitenessAssumption`, `PaymentsFiniteness`,
`AccountsFiniteness`, `PoolAssumption`) is so of any table and server; without it neither a sum nor the number of handlers in
flight means anything. `OneAtATime` is no property of the code but the hypothesis of the second table's theorems.

TLC checked each `IInv` on the constants of the interleaved run of its module, and each `SInv` on
those of the run with one handler at a time, before the proof was written.

**Only model-checked**: liveness (`DeliveredWorkIsSettled`, `EveryRequestIsAnswered`), which is out of the
prover's reach.

## Not modelled

| What | Why |
|---|---|
| `changeAdminPassword`, passwords, access tokens | no property here tells one password from another |
| `editProfile` | writes profile fields that nothing else reads |
| names, phone numbers | a second unique key with the same checks as the address |
| reports | read-only |
| HTTP layer | stateless: routing, validation, roles; what it lets through is what the actions are enabled for |
| the creation of the upload directories | at start-up, before any handler |

Left for later: an abstract payout specification for `Payments`, and which of the claims about handlers that do not
overlap survive when only handlers of different jobs or users do.

## Running

    tlc -workers 2 -config Interleaved.cfg MCJobEscrow
    tlc -workers 2 -config PaymentsInterleaved.cfg MCPayments
    tlc -workers 2 -config AccountsInterleaved.cfg MCAccounts
    tlc -workers 2 -config Photos.cfg MCPhotos
    tlc -workers 2 -config Pool.cfg Pool
    tlapm JobEscrowProofs.tla
    tlapm PaymentsProofs.tla
    tlapm AccountsProofs.tla
    tlapm PhotosProofs.tla
    tlapm PoolProofs.tla
    tlapm Sums.tla
    tlapm JobEscrowSerial.tla
    tlapm PaymentsMoneyProofs.tla
