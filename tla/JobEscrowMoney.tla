--------------------------- MODULE JobEscrowMoney ---------------------------
(***************************************************************************)
(* The money of JobEscrow as a whole: sums over wallets and escrows, and   *)
(* the mapping that shows what the marketplace promises about it.          *)
(***************************************************************************)
EXTENDS JobEscrow, Functions

Balances == [u \in Users |-> wallets[u].balance]
Holdings == [j \in Jobs |-> IF escrows[j].status = "HELD" THEN escrows[j].amount ELSE 0]

\* What a worker was to be paid for each job.
Earnings(w) ==
  [j \in Jobs |-> IF escrows[j].status = "RELEASED" /\ escrows[j].worker = w
                  THEN escrows[j].amount ELSE 0]

\* The cent a paid job may add to the system.
SplitCents ==
  [j \in Jobs |-> IF escrows[j].status = "RELEASED" /\ (escrows[j].amount * FeePercent) % 100 = 50
                  THEN 1 ELSE 0]

\* No money vanishes: what was deposited is in a wallet, held for a running job, or was
\* earned by the platform.  None appears, but for a cent where the fee of a paid job
\* ends in half a cent, and both parts are rounded up.  (Acceptance, approval, the cron.)
MoneyIsConserved ==
  SumFunction(Balances) + SumFunction(Holdings) + platform - funded
    \in 0 .. SumFunction(SplitCents)

\* A worker without deposits owns at most what the jobs that were released to
\* them were worth: no job is paid twice.  (The COMPLETED check before approval.)
WorkersEarnOnce ==
  \A w \in Workers \ Funders : wallets[w].balance <= SumFunction(Earnings(w))

Promise == INSTANCE EscrowPromise WITH
             Employers <- Providers,
             FeeOf     <- EscrowFee,
             deal      <- escrows,
             purse     <- Balances,
             fees      <- platform

\* One after the other, the handlers and the cron implement the promise.
KeepsPromise == Promise!Spec
=============================================================================
