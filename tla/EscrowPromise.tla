--------------------------- MODULE EscrowPromise ---------------------------
(***************************************************************************)
(* What the marketplace promises its two sides about money, with nothing   *)
(* of how it is done: an employer's deposit is held for one worker per     *)
(* job, only if the employer has it; it stays as it is; and it is paid     *)
(* out once, to that worker, in full or less the platform's fee.           *)
(***************************************************************************)
EXTENDS Integers

CONSTANTS Jobs, Employers, Workers, Amounts, None, FeeOf(_)

VARIABLES
  deal,    \* per job: nothing, money held for a worker, money released to it
  purse,   \* what each user can spend
  fees     \* what the platform earned

NoDeal == [status |-> "none", amount |-> 0, worker |-> None]

Init ==
  /\ deal = [j \in Jobs |-> NoDeal]
  /\ purse = [u \in Employers \cup Workers |-> 0]
  /\ fees = 0

Deposit(u, amount) ==
  /\ purse' = [purse EXCEPT ![u] = @ + amount]
  /\ UNCHANGED <<deal, fees>>

Hold(j, e, w, amount) ==
  /\ deal[j] = NoDeal
  /\ purse[e] >= amount
  /\ deal' = [deal EXCEPT ![j] = [status |-> "HELD", amount |-> amount, worker |-> w]]
  /\ purse' = [purse EXCEPT ![e] = @ - amount]
  /\ UNCHANGED fees

\* Rounding may add a cent to what the worker gets.
Release(j, fee, cent) ==
  /\ deal[j].status = "HELD"
  /\ deal' = [deal EXCEPT ![j].status = "RELEASED"]
  /\ purse' = [purse EXCEPT ![deal[j].worker] = @ + deal[j].amount - fee + cent]
  /\ fees' = fees + fee

Next ==
  \/ \E u \in Employers \cup Workers, amount \in Amounts : Deposit(u, amount)
  \/ \E j \in Jobs, e \in Employers, w \in Workers, amount \in Amounts : Hold(j, e, w, amount)
  \/ \E j \in Jobs : \E fee \in {0, FeeOf(deal[j].amount)}, cent \in {0, 1} :
       cent <= fee /\ Release(j, fee, cent)

Spec == Init /\ [][Next]_<<deal, purse, fees>>
=============================================================================
