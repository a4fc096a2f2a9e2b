-------------------------------- MODULE Pool --------------------------------
(***************************************************************************)
(* The pool of database connections under the approvals of jobs.           *)
(*                                                                         *)
(* An approval keeps one connection for its transaction and, half way      *)
(* through, reads the fee through `this.prismaService' instead of `tx':    *)
(* a second connection of the same pool.  When every connection belongs to *)
(* an approval that waits for its second one, nobody moves until a         *)
(* transaction times out.  The rows are in JobEscrow; here is who holds a  *)
(* connection and who waits for one.                                       *)
(***************************************************************************)
EXTENDS Integers, FiniteSets, Sequences

CONSTANTS
  Approvals,   \* handlers that approve a job
  Queries,     \* handlers that need one connection for a moment
  Size         \* connections of the pool

ASSUME PoolAssumption ==
  /\ Approvals \cap Queries = {}
  /\ IsFiniteSet(Approvals \cup Queries)
  /\ Size \in Nat \ {0}

VARIABLES
  stage,   \* where each handler is
  open,    \* approvals whose transaction is open: each holds a connection
  queue    \* handlers that wait for a connection, first come first served

vars == <<stage, open, queue>>

Handlers == Approvals \cup Queries

Waiting == {"begin", "fee", "wait"}   \* for the transaction, for the fee, for a query
Holding == {"readFee", "query"}       \* a connection of its own for one statement
Stage == Waiting \cup Holding \cup {"idle", "update", "pay"}

InUse == Cardinality(open) + Cardinality({h \in Handlers : stage[h] \in Holding})

\* Shape of the state; no more connections are in use than there are.
PoolTypeOK ==
  /\ stage \in [Handlers -> Stage]
  /\ open \subseteq Approvals
  /\ queue \in Seq(Handlers)
  /\ InUse <= Size

Init ==
  /\ stage = [h \in Handlers |-> "idle"]
  /\ open = {}
  /\ queue = <<>>

-----------------------------------------------------------------------------
Go(h, s) == stage' = [stage EXCEPT ![h] = s]

Enqueue(h) == queue' = Append(queue, h)

\* Whoever gives up waiting leaves the queue from where it is.
Leave(h) ==
  \E i \in DOMAIN queue :
    /\ queue[i] = h
    /\ queue' = SubSeq(queue, 1, i - 1) \o SubSeq(queue, i + 1, Len(queue))

\* The first in the queue gets a connection.
Serve ==
  /\ queue # <<>>
  /\ LET h == Head(queue) IN
       \/ stage[h] = "begin" /\ Go(h, "update") /\ open' = open \cup {h}
       \/ stage[h] = "fee"   /\ Go(h, "readFee") /\ UNCHANGED open
       \/ stage[h] = "wait"  /\ Go(h, "query") /\ UNCHANGED open
  /\ queue' = Tail(queue)

\* Slip: a new connection for everybody who asks.
GrantAlways == Serve

Grant == InUse < Size /\ Serve

-----------------------------------------------------------------------------
\* $transaction asks for a connection.
ApproveBegin(h) ==
  /\ stage[h] = "idle"
  /\ Go(h, "begin") /\ Enqueue(h)
  /\ UNCHANGED open

\* Job and escrow are written and read through the transaction; then the fee is asked
\* for outside of it, where nothing tells that the transaction is closed.
AskFee(h) ==
  /\ stage[h] = "update"
  /\ Go(h, "fee") /\ Enqueue(h)
  /\ UNCHANGED open

ReadFee(h) ==
  /\ stage[h] = "readFee"
  /\ Go(h, "pay")
  /\ UNCHANGED <<open, queue>>

\* Wallets and ledger, through the transaction, and its commit.
Commit(h) ==
  /\ stage[h] = "pay" /\ h \in open
  /\ Go(h, "idle")
  /\ open' = open \ {h}
  /\ UNCHANGED queue

\* Slip: the error is answered, the transaction stays open.
FailKeepsConnection(h) ==
  /\ stage[h] \in {"update", "readFee", "pay"}
  /\ Go(h, "idle")
  /\ UNCHANGED <<open, queue>>

\* No escrow, no fee, an error of the database, a transaction closed meanwhile: the
\* exception rolls back.
Fail(h) ==
  /\ stage[h] \in {"update", "readFee", "pay"}
  /\ Go(h, "idle")
  /\ open' = open \ {h}
  /\ UNCHANGED queue

\* Slip: transactions have no time limit.
NoTimeout(h) == h \in open /\ UNCHANGED vars

\* The time limit of a transaction: it is rolled back under the handler, which learns of
\* it from the next statement it sends.
Timeout(h) ==
  /\ h \in open
  /\ open' = open \ {h}
  /\ UNCHANGED <<stage, queue>>

\* The time limit for getting the connection of a transaction.
StartTimeout(h) ==
  /\ stage[h] = "begin"
  /\ Go(h, "idle")
  /\ Leave(h)
  /\ UNCHANGED open

\* Any other statement; it waits without limit.
QueryBegin(h) ==
  /\ stage[h] = "idle"
  /\ Go(h, "wait") /\ Enqueue(h)
  /\ UNCHANGED open

QueryEnd(h) ==
  /\ stage[h] = "query"
  /\ Go(h, "idle")
  /\ UNCHANGED <<open, queue>>

-----------------------------------------------------------------------------
\* What a handler does by itself once it has what it waits for.
Run(h) ==
  \/ h \in Approvals /\ (AskFee(h) \/ ReadFee(h) \/ Commit(h) \/ Fail(h))
  \/ h \in Queries /\ QueryEnd(h)

Expire(h) == Timeout(h) \/ StartTimeout(h)

Next ==
  \/ \E h \in Approvals : ApproveBegin(h) \/ Expire(h)
  \/ \E h \in Queries : QueryBegin(h)
  \/ \E h \in Handlers : Run(h)
  \/ Grant

\* Handlers run, the pool serves, clocks go on; nobody has to send a request.
Fairness ==
  /\ \A h \in Handlers : WF_vars(Run(h))
  /\ \A h \in Approvals : WF_vars(Timeout(h)) /\ WF_vars(StartTimeout(h))
  /\ WF_vars(Grant)

Spec == Init /\ [][Next]_vars

FairSpec == Spec /\ Fairness

-----------------------------------------------------------------------------
\* A connection never leaks: a transaction is open only while its handler is in it, and
\* the queue holds exactly the handlers that wait.  (However an approval ends: by its
\* commit, by an exception, or by a time limit while it does something else.)
NoLeak ==
  /\ \A h \in open : stage[h] \in {"update", "fee", "readFee", "pay"}
  /\ \A h \in Handlers :
       Cardinality({i \in DOMAIN queue : queue[i] = h}) = (IF stage[h] \in Waiting THEN 1 ELSE 0)

\* Every request is answered, approvals and everybody else's queries behind them, even
\* when each connection belongs to an approval that waits for another one.
EveryRequestIsAnswered == \A h \in Handlers : stage[h] # "idle" ~> stage[h] = "idle"
=============================================================================
