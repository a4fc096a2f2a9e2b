----------------------------- MODULE PoolProofs -----------------------------
(***************************************************************************)
(* Proofs, for any number of handlers and connections, that the pool never *)
(* lends more connections than it has and never loses one.                 *)
(***************************************************************************)
EXTENDS Pool, SequenceTheorems, FiniteSetTheorems, TLAPS

InTransaction == {"update", "fee", "readFee", "pay"}

\* The stages of a handler that opens no transaction.
QueryStage == {"idle", "wait", "query"}

Borrowing == {h \in Handlers : stage[h] \in Holding}

InQueue(h) == \E i \in DOMAIN queue : queue[i] = h

\* Nobody stands in the queue twice.
Once == \A i, j \in DOMAIN queue : queue[i] = queue[j] => i = j

\* NoLeak in terms of who is in the queue rather than of how often.
IInv ==
  /\ PoolTypeOK
  /\ \A h \in open : stage[h] \in InTransaction
  /\ Once
  /\ \A h \in Handlers : InQueue(h) <=> stage[h] \in Waiting
  /\ \A h \in Queries : stage[h] \in QueryStage

-----------------------------------------------------------------------------
(***************************************************************************)
(* The queue.                                                              *)
(***************************************************************************)

\* The first in the queue gets its connection and is no longer in it.
LEMMA FirstLeaves ==
  ASSUME queue \in Seq(Handlers), Once, queue # <<>>, queue' = Tail(queue)
  PROVE  /\ Head(queue) \in Handlers /\ queue' \in Seq(Handlers) /\ Once'
         /\ \A v : InQueue(v)' <=> InQueue(v) /\ v # Head(queue)
<1>1. PICK q \in Seq(Handlers), p \in Seq(Handlers) : q = queue /\ p = queue'
  BY HeadTailProperties
<1>2. /\ Len(q) \in Nat \ {0} /\ Len(p) = Len(q) - 1
      /\ DOMAIN q = 1 .. Len(q) /\ DOMAIN p = 1 .. Len(p)
      /\ \A i \in 1 .. Len(p) : p[i] = q[i + 1]
  BY <1>1, EmptySeq, LenProperties, HeadTailProperties
<1>3. Head(queue) = q[1] /\ Head(queue) \in Handlers
  BY <1>1, HeadTailProperties
<1>4. \A i, j \in DOMAIN q : q[i] = q[j] => i = j
  BY <1>1 DEF Once
<1>5. ASSUME NEW i \in DOMAIN p, NEW j \in DOMAIN p, p[i] = p[j]  PROVE i = j
  <2>1. i + 1 \in DOMAIN q /\ j + 1 \in DOMAIN q /\ q[i + 1] = q[j + 1]
    BY <1>2, <1>5
  <2>2. i + 1 = j + 1
    BY <1>4, <2>1
  <2>. QED  BY <1>2, <2>2
<1>6. ASSUME NEW v
      PROVE  (\E i \in DOMAIN p : p[i] = v) <=> (\E i \in DOMAIN q : q[i] = v) /\ v # q[1]
  <2>1. ASSUME NEW i \in DOMAIN p, p[i] = v
        PROVE  (\E j \in DOMAIN q : q[j] = v) /\ v # q[1]
    <3>1. i + 1 \in DOMAIN q /\ 1 \in DOMAIN q /\ i + 1 # 1 /\ q[i + 1] = v
      BY <1>2, <2>1
    <3>. QED  BY <1>4, <3>1
  <2>2. ASSUME NEW j \in DOMAIN q, q[j] = v, v # q[1]  PROVE \E i \in DOMAIN p : p[i] = v
    <3>1. j - 1 \in DOMAIN p /\ p[j - 1] = q[j]
      BY <1>2, <2>2
    <3>. QED  BY <2>2, <3>1
  <2>. QED  BY <2>1, <2>2
<1>. QED  BY <1>1, <1>3, <1>5, <1>6 DEF Once, InQueue

\* Whoever asks for a connection stands in the queue, once.
LEMMA LastJoins ==
  ASSUME queue \in Seq(Handlers), Once, NEW h \in Handlers, ~ InQueue(h), Enqueue(h)
  PROVE  /\ queue' \in Seq(Handlers) /\ Once'
         /\ \A v : InQueue(v)' <=> InQueue(v) \/ v = h
<1>1. PICK q \in Seq(Handlers), p \in Seq(Handlers) : q = queue /\ p = queue' /\ p = Append(q, h)
  BY DEF Enqueue
<1>2. /\ Len(q) \in Nat /\ Len(p) = Len(q) + 1
      /\ DOMAIN q = 1 .. Len(q) /\ DOMAIN p = 1 .. Len(p)
      /\ \A i \in 1 .. Len(q) : p[i] = q[i]
      /\ p[Len(p)] = h
  BY <1>1, LenProperties
<1>3. /\ \A i, j \in DOMAIN q : q[i] = q[j] => i = j
      /\ \A i \in DOMAIN q : q[i] # h
  BY <1>1 DEF Once, InQueue
<1>4. ASSUME NEW i \in DOMAIN p, NEW j \in DOMAIN p, p[i] = p[j]  PROVE i = j
  BY <1>2, <1>3, <1>4
<1>5. ASSUME NEW v
      PROVE  (\E i \in DOMAIN p : p[i] = v) <=> (\E i \in DOMAIN q : q[i] = v) \/ v = h
  BY <1>2
<1>. QED  BY <1>1, <1>4, <1>5 DEF Once, InQueue

\* Whoever gives up waiting is no longer in the queue; the others keep their order.
LEMMA WaiterLeaves ==
  ASSUME queue \in Seq(Handlers), Once, NEW h \in Handlers, Leave(h)
  PROVE  /\ queue' \in Seq(Handlers) /\ Once'
         /\ \A v : InQueue(v)' <=> InQueue(v) /\ v # h
<1>1. PICK q \in Seq(Handlers), n \in DOMAIN queue :
        /\ q = queue /\ q[n] = h
        /\ queue' = SubSeq(q, 1, n - 1) \o SubSeq(q, n + 1, Len(q))
  BY DEF Leave
<1>2. Len(q) \in Nat /\ DOMAIN q = 1 .. Len(q) /\ n \in 1 .. Len(q)
      /\ \A i \in 1 .. Len(q) : q[i] \in Handlers
  BY <1>1, LenProperties, ElementOfSeq
<1>3. PICK a, b : a = SubSeq(q, 1, n - 1) /\ b = SubSeq(q, n + 1, Len(q))
  OBVIOUS
<1>4. /\ a \in Seq(Handlers) /\ Len(a) = n - 1
      /\ \A i \in 1 .. n - 1 : a[i] = q[i]
  BY <1>2, <1>3, SubSeqProperties
<1>5. /\ b \in Seq(Handlers) /\ Len(b) = Len(q) - n
      /\ \A i \in 1 .. Len(q) - n : b[i] = q[n + i]
  BY <1>2, <1>3, SubSeqProperties
<1>6. PICK p \in Seq(Handlers) :
        /\ p = queue' /\ Len(p) = Len(q) - 1 /\ DOMAIN p = 1 .. Len(q) - 1
        /\ \A i \in 1 .. Len(q) - 1 : p[i] = IF i < n THEN q[i] ELSE q[i + 1]
  <2>1. /\ a \o b \in Seq(Handlers) /\ Len(a \o b) = Len(q) - 1
        /\ \A i \in 1 .. Len(q) - 1 : (a \o b)[i] = IF i <= n - 1 THEN a[i] ELSE b[i - (n - 1)]
    <3>1. Len(a) + Len(b) = Len(q) - 1
      BY <1>2, <1>4, <1>5
    <3>2. /\ a \o b \in Seq(Handlers) /\ Len(a \o b) = Len(a) + Len(b)
          /\ \A i \in 1 .. Len(a) + Len(b) :
               (a \o b)[i] = IF i <= Len(a) THEN a[i] ELSE b[i - Len(a)]
      BY <1>4, <1>5, ConcatProperties
    <3>3. PICK c : c = a \o b
      OBVIOUS
    <3>. QED  BY <1>4, <3>1, <3>2, <3>3
  <2>2. DOMAIN (a \o b) = 1 .. Len(q) - 1
    BY <2>1, LenProperties
  <2>3. ASSUME NEW i \in 1 .. Len(q) - 1
        PROVE  (a \o b)[i] = IF i < n THEN q[i] ELSE q[i + 1]
    <3>1. CASE i < n
      BY <1>2, <1>4, <2>1, <3>1
    <3>2. CASE ~ (i < n)
      <4>1. i - (n - 1) \in 1 .. Len(q) - n /\ n + (i - (n - 1)) = i + 1
        BY <1>2, <3>2
      <4>2. (a \o b)[i] = b[i - (n - 1)]
        BY <1>2, <2>1, <3>2
      <4>. QED  BY <1>5, <3>2, <4>1, <4>2
    <3>. QED  BY <3>1, <3>2
  <2>. QED  BY <1>1, <1>3, <2>1, <2>2, <2>3
<1>7. \A i, j \in DOMAIN q : q[i] = q[j] => i = j
  BY <1>1 DEF Once
<1>8. ASSUME NEW i \in DOMAIN p, NEW j \in DOMAIN p, p[i] = p[j]  PROVE i = j
  <2>1. PICK k \in DOMAIN q, l \in DOMAIN q :
          /\ k = IF i < n THEN i ELSE i + 1
          /\ l = IF j < n THEN j ELSE j + 1
    BY <1>2, <1>6
  <2>2. q[k] = q[l]
    BY <1>6, <1>8, <2>1
  <2>3. k = l
    BY <1>7, <2>2
  <2>. QED  BY <1>2, <1>6, <2>1, <2>3
<1>9. ASSUME NEW v
      PROVE  (\E i \in DOMAIN p : p[i] = v) <=> (\E i \in DOMAIN q : q[i] = v) /\ v # h
  <2>1. ASSUME NEW i \in DOMAIN p, p[i] = v  PROVE (\E j \in DOMAIN q : q[j] = v) /\ v # h
    <3>1. PICK j \in DOMAIN q : j # n /\ q[j] = v
      BY <1>2, <1>6, <2>1
    <3>. QED  BY <1>1, <1>7, <3>1
  <2>2. ASSUME NEW j \in DOMAIN q, q[j] = v, v # h  PROVE \E i \in DOMAIN p : p[i] = v
    <3>1. CASE j < n
      BY <1>2, <1>6, <2>2, <3>1
    <3>2. CASE j > n
      <4>1. j - 1 \in DOMAIN p /\ p[j - 1] = q[j]
        BY <1>2, <1>6, <3>2
      <4>. QED  BY <2>2, <4>1
    <3>. QED  BY <1>1, <1>2, <2>2, <3>1, <3>2
  <2>. QED  BY <2>1, <2>2
<1>10. q = queue /\ p = queue'
  BY <1>1, <1>6
<1>. QED  BY <1>8, <1>9, <1>10 DEF Once, InQueue

-----------------------------------------------------------------------------
(***************************************************************************)
(* The connections.                                                        *)
(***************************************************************************)

\* Counts of connections are numbers.
LEMMA CountsAreNumbers ==
  ASSUME open \subseteq Approvals
  PROVE  /\ IsFiniteSet(open) /\ IsFiniteSet(Borrowing)
         /\ Cardinality(open) \in Nat /\ Cardinality(Borrowing) \in Nat
<1>1. IsFiniteSet(Handlers) /\ open \in SUBSET Handlers /\ Borrowing \in SUBSET Handlers
  BY PoolAssumption DEF Handlers, Borrowing
<1>. QED  BY <1>1, FS_Subset, FS_CardinalityType

\* Returning connections does not add to those in use.
LEMMA FewerInUse ==
  ASSUME PoolTypeOK, open' \subseteq open, Borrowing' \subseteq Borrowing
  PROVE  InUse' <= Size
<1>1. PICK o, b, p, c : o = open /\ b = Borrowing /\ p = open' /\ c = Borrowing'
  OBVIOUS
<1>2. /\ IsFiniteSet(o) /\ IsFiniteSet(b) /\ Cardinality(o) \in Nat /\ Cardinality(b) \in Nat
  BY <1>1, CountsAreNumbers DEF PoolTypeOK
<1>3. /\ Cardinality(p) \in Nat /\ Cardinality(p) <= Cardinality(o)
      /\ Cardinality(c) \in Nat /\ Cardinality(c) <= Cardinality(b)
  BY <1>1, <1>2, FS_Subset, FS_CardinalityType
<1>4. Cardinality(o) + Cardinality(b) <= Size
  BY <1>1 DEF PoolTypeOK, InUse, Borrowing
<1>5. Cardinality(p) + Cardinality(c) <= Size
  BY <1>2, <1>3, <1>4, PoolAssumption
<1>. QED  BY <1>1, <1>5 DEF InUse, Borrowing

\* A connection goes to one handler, while there is one to give.
LEMMA OneMoreInUse ==
  ASSUME PoolTypeOK, InUse < Size, NEW h,
         \/ open' = open \cup {h} /\ Borrowing' = Borrowing
         \/ open' = open /\ Borrowing' = Borrowing \cup {h}
  PROVE  InUse' <= Size
<1>1. PICK o, b, p, c : o = open /\ b = Borrowing /\ p = open' /\ c = Borrowing'
  OBVIOUS
<1>2. /\ IsFiniteSet(o) /\ IsFiniteSet(b) /\ Cardinality(o) \in Nat /\ Cardinality(b) \in Nat
  BY <1>1, CountsAreNumbers DEF PoolTypeOK
<1>3. \/ c = b /\ Cardinality(p) \in {Cardinality(o), Cardinality(o) + 1}
      \/ p = o /\ Cardinality(c) \in {Cardinality(b), Cardinality(b) + 1}
  BY <1>1, <1>2, FS_AddElement
<1>4. Cardinality(o) + Cardinality(b) < Size
  BY <1>1 DEF InUse, Borrowing
<1>5. Cardinality(p) + Cardinality(c) <= Size
  BY <1>2, <1>3, <1>4, PoolAssumption
<1>. QED  BY <1>1, <1>5 DEF InUse, Borrowing

\* A handler moves on to stage s; whether it waits and whether its transaction is
\* open fits the stage.
LEMMA MoveKeepsIInv ==
  ASSUME IInv, NEW h \in Handlers, NEW s \in Stage, Go(h, s),
         open' \subseteq Approvals, InUse' <= Size, queue' \in Seq(Handlers), Once',
         \A v \in Handlers \ {h} : InQueue(v)' <=> InQueue(v),
         InQueue(h)' <=> s \in Waiting,
         open' \subseteq open \cup {h},
         h \in open' => s \in InTransaction, h \in Queries => s \in QueryStage
  PROVE  IInv'
<1>1. /\ stage' \in [Handlers -> Stage] /\ stage'[h] = s
      /\ \A v \in Handlers : v # h => stage'[v] = stage[v]
  BY DEF Go, IInv, PoolTypeOK
<1>2. PoolTypeOK'
  BY <1>1 DEF PoolTypeOK
<1>3. \A v \in Handlers : InQueue(v)' <=> stage'[v] \in Waiting
  BY <1>1 DEF IInv
<1>4. \A v \in open' : stage'[v] \in InTransaction
  BY <1>1 DEF IInv, Handlers
<1>5. \A v \in Queries : stage'[v] \in QueryStage
  BY <1>1 DEF IInv, Handlers
<1>. QED  BY <1>2, <1>3, <1>4, <1>5 DEF IInv

\* Steps of a handler that neither waited nor will: it returns what it does not need.
LEMMA RunKeepsIInv ==
  ASSUME IInv, NEW h \in Handlers, NEW s \in Stage, Go(h, s), stage[h] \notin Waiting,
         s \notin Waiting \cup Holding, UNCHANGED queue, open' \subseteq open,
         h \in open' => s \in InTransaction, h \in Queries => s \in QueryStage
  PROVE  IInv'
<1>1. Borrowing' \subseteq Borrowing
  BY DEF Go, IInv, PoolTypeOK, Borrowing
<1>2. InUse' <= Size
  BY <1>1, FewerInUse DEF IInv
<1>3. \A v \in Handlers : InQueue(v)' <=> InQueue(v)
  BY DEF InQueue
<1>4. Once' /\ queue' \in Seq(Handlers) /\ open' \subseteq Approvals
  BY DEF IInv, PoolTypeOK, Once
<1>5. ~ InQueue(h)' /\ s \notin Waiting
  BY <1>3 DEF IInv
<1>. QED  BY <1>2, <1>3, <1>4, <1>5, MoveKeepsIInv

\* Steps of a handler that will wait.
LEMMA AskKeepsIInv ==
  ASSUME IInv, NEW h \in Handlers, NEW s \in Waiting, Go(h, s), stage[h] \notin Waiting,
         Enqueue(h), UNCHANGED open, h \in open => s \in InTransaction,
         h \in Queries => s \in QueryStage
  PROVE  IInv'
<1>0. s \in Stage /\ s \notin Holding
  BY DEF Stage, Waiting, Holding
<1>1. Borrowing' \subseteq Borrowing
  BY <1>0 DEF Go, IInv, PoolTypeOK, Borrowing
<1>2. InUse' <= Size
  BY <1>1, FewerInUse DEF IInv
<1>3. ~ InQueue(h) /\ queue \in Seq(Handlers) /\ Once
  BY DEF IInv, PoolTypeOK
<1>4. /\ queue' \in Seq(Handlers) /\ Once'
      /\ \A v : InQueue(v)' <=> InQueue(v) \/ v = h
  BY <1>3, LastJoins
<1>5. open' \subseteq Approvals /\ open' \subseteq open \cup {h}
  BY DEF IInv, PoolTypeOK
<1>. QED  BY <1>0, <1>2, <1>4, <1>5, MoveKeepsIInv

\* The pool lends a connection to the first that waits.
LEMMA GrantKeepsIInv ==
  ASSUME IInv, Grant
  PROVE  IInv'
<1>1. PICK h : h = Head(queue)
  OBVIOUS
<1>2. /\ InUse < Size /\ queue # <<>> /\ queue' = Tail(queue)
      /\ \/ stage[h] = "begin" /\ Go(h, "update") /\ open' = open \cup {h}
         \/ stage[h] = "fee"   /\ Go(h, "readFee") /\ UNCHANGED open
         \/ stage[h] = "wait"  /\ Go(h, "query") /\ UNCHANGED open
  BY <1>1 DEF Grant, Serve
<1>3. /\ h \in Handlers /\ queue' \in Seq(Handlers) /\ Once'
      /\ \A v : InQueue(v)' <=> InQueue(v) /\ v # h
  BY <1>1, <1>2, FirstLeaves DEF IInv, PoolTypeOK
<1>4. /\ stage \in [Handlers -> Stage] /\ PoolTypeOK
      /\ h \in open => stage[h] \in InTransaction
      /\ h \in Queries => stage[h] \in QueryStage
  BY <1>3 DEF IInv, PoolTypeOK
<1>5. ~ InQueue(h)' /\ \A v \in Handlers \ {h} : InQueue(v)' <=> InQueue(v)
  BY <1>3
<1>6. CASE stage[h] = "begin" /\ Go(h, "update") /\ open' = open \cup {h}
  <2>1. Borrowing' = Borrowing
    BY <1>3, <1>4, <1>6 DEF Go, Borrowing, Holding
  <2>2. InUse' <= Size
    BY <1>2, <1>4, <1>6, <2>1, OneMoreInUse
  <2>3. h \in Approvals /\ h \notin Queries /\ open' \subseteq Approvals
    BY <1>3, <1>4, <1>6, PoolAssumption DEF Handlers, QueryStage, PoolTypeOK
  <2>4. "update" \in Stage /\ "update" \notin Waiting /\ "update" \in InTransaction
    BY DEF Stage, Waiting, InTransaction
  <2>. QED  BY <1>3, <1>5, <1>6, <2>2, <2>3, <2>4, MoveKeepsIInv
<1>7. ASSUME NEW s \in Holding, Go(h, s), UNCHANGED open, h \in open => s \in InTransaction,
             h \in Queries => s \in QueryStage
      PROVE  IInv'
  <2>1. Borrowing' = Borrowing \cup {h}
    BY <1>3, <1>4, <1>7 DEF Go, Borrowing
  <2>2. InUse' <= Size
    BY <1>2, <1>4, <1>7, <2>1, OneMoreInUse
  <2>3. s \in Stage /\ s \notin Waiting /\ open' \subseteq Approvals /\ open' \subseteq open \cup {h}
    BY <1>4, <1>7 DEF Stage, Waiting, Holding, PoolTypeOK
  <2>. QED  BY <1>3, <1>5, <1>7, <2>2, <2>3, MoveKeepsIInv
<1>8. CASE stage[h] = "fee" /\ Go(h, "readFee") /\ UNCHANGED open
  BY <1>4, <1>7, <1>8 DEF Holding, InTransaction, QueryStage
<1>9. CASE stage[h] = "wait" /\ Go(h, "query") /\ UNCHANGED open
  BY <1>4, <1>7, <1>9 DEF Holding, InTransaction, QueryStage
<1>. QED  BY <1>2, <1>6, <1>8, <1>9

\* A transaction is rolled back under its handler.
LEMMA TimeoutKeepsIInv ==
  ASSUME IInv, NEW h \in Approvals, Timeout(h)
  PROVE  IInv'
<1>1. UNCHANGED <<stage, queue>> /\ open' \subseteq open
  BY DEF Timeout
<1>2. InUse' <= Size
  BY <1>1, FewerInUse DEF Borrowing, IInv
<1>3. PoolTypeOK'
  BY <1>1, <1>2 DEF IInv, PoolTypeOK
<1>. QED  BY <1>1, <1>3 DEF IInv, Once, InQueue

\* An approval that gets no connection in time stops waiting.
LEMMA StartTimeoutKeepsIInv ==
  ASSUME IInv, NEW h \in Approvals, StartTimeout(h)
  PROVE  IInv'
<1>1. stage[h] = "begin" /\ Go(h, "idle") /\ Leave(h) /\ UNCHANGED open /\ h \in Handlers
  BY DEF StartTimeout, Handlers
<1>2. Borrowing' \subseteq Borrowing
  BY <1>1 DEF Go, IInv, PoolTypeOK, Borrowing, Holding
<1>3. InUse' <= Size
  BY <1>1, <1>2, FewerInUse DEF IInv
<1>4. /\ queue' \in Seq(Handlers) /\ Once'
      /\ \A v : InQueue(v)' <=> InQueue(v) /\ v # h
  BY <1>1, WaiterLeaves DEF IInv, PoolTypeOK
<1>5. "idle" \in Stage /\ "idle" \notin Waiting /\ "idle" \in QueryStage
  BY DEF Stage, Waiting, QueryStage
<1>6. open' \subseteq Approvals /\ open' \subseteq open \cup {h} /\ h \notin open'
  BY <1>1 DEF IInv, PoolTypeOK, InTransaction
<1>. QED  BY <1>1, <1>3, <1>4, <1>5, <1>6, MoveKeepsIInv

\* IInv is inductive.
LEMMA NextKeepsIInv ==
  ASSUME IInv, [Next]_vars
  PROVE  IInv'
<1>1. CASE UNCHANGED vars
  BY <1>1 DEF vars, IInv, PoolTypeOK, InUse, Once, InQueue
<1>2. ASSUME NEW h \in Approvals  PROVE h \in Handlers /\ h \notin Queries
  BY PoolAssumption DEF Handlers
<1>3. ASSUME NEW h \in Approvals, ApproveBegin(h)  PROVE IInv'
  <2>1. h \notin open
    BY <1>3 DEF ApproveBegin, IInv, InTransaction
  <2>. QED  BY <1>2, <1>3, <2>1, AskKeepsIInv DEF ApproveBegin, Waiting
<1>4. ASSUME NEW h \in Queries, QueryBegin(h)  PROVE IInv'
  <2>1. h \notin open /\ h \in Handlers
    BY <1>4 DEF QueryBegin, IInv, InTransaction, Handlers
  <2>. QED  BY <1>4, <2>1, AskKeepsIInv DEF QueryBegin, Waiting, QueryStage
<1>5. ASSUME NEW h \in Approvals, AskFee(h)  PROVE IInv'
  BY <1>2, <1>5, AskKeepsIInv DEF AskFee, Waiting, InTransaction
<1>6. ASSUME NEW h \in Approvals, ReadFee(h)  PROVE IInv'
  BY <1>2, <1>6, RunKeepsIInv DEF ReadFee, Stage, Waiting, Holding, InTransaction
<1>7. ASSUME NEW h \in Approvals, Commit(h) \/ Fail(h)  PROVE IInv'
  <2>1. /\ stage[h] \in {"update", "readFee", "pay"} /\ Go(h, "idle")
        /\ open' = open \ {h} /\ UNCHANGED queue
    BY <1>7 DEF Commit, Fail
  <2>. QED  BY <1>2, <2>1, RunKeepsIInv DEF Stage, Waiting, Holding
<1>8. ASSUME NEW h \in Queries, QueryEnd(h)  PROVE IInv'
  <2>1. h \notin open /\ h \in Handlers
    BY <1>8 DEF QueryEnd, IInv, InTransaction, Handlers
  <2>. QED  BY <1>8, <2>1, RunKeepsIInv DEF QueryEnd, Stage, Waiting, Holding, QueryStage
<1>. QED  BY <1>1, <1>3, <1>4, <1>5, <1>6, <1>7, <1>8, GrantKeepsIInv, TimeoutKeepsIInv,
             StartTimeoutKeepsIInv DEF Next, Run, Expire

\* Every connection is free.
LEMMA InitIInv ==
  ASSUME Init
  PROVE  IInv
<1>1. Borrowing = {} /\ open = {}
  BY DEF Init, Borrowing, Holding
<1>2. InUse = 0
  BY <1>1, FS_EmptySet DEF InUse, Borrowing
<1>3. queue \in Seq(Handlers) /\ DOMAIN queue = {}
  BY EmptySeq DEF Init
<1>4. PoolTypeOK
  BY <1>2, <1>3, PoolAssumption DEF Init, PoolTypeOK, Stage
<1>. QED  BY <1>1, <1>3, <1>4 DEF Init, IInv, Once, InQueue, Waiting, QueryStage, Handlers

\* However approvals and queries meet and whatever times out.
THEOREM PoolInvariant == Spec => []IInv
<1>1. Init => IInv
  BY InitIInv
<1>2. IInv /\ [Next]_vars => IInv'
  BY NextKeepsIInv
<1>. QED  BY <1>1, <1>2, PTL DEF Spec

\* No more connections are lent than there are.
THEOREM PoolTypeCorrect == Spec => []PoolTypeOK
BY PoolInvariant, PTL DEF IInv

\* A place in the queue is counted once.
LEMMA PlacesInQueue ==
  ASSUME queue \in Seq(Handlers), Once, NEW h
  PROVE  Cardinality({i \in DOMAIN queue : queue[i] = h}) = IF InQueue(h) THEN 1 ELSE 0
<1>. DEFINE P == {i \in DOMAIN queue : queue[i] = h}
<1>1. CASE InQueue(h)
  <2>1. PICK i \in DOMAIN queue : queue[i] = h
    BY <1>1 DEF InQueue
  <2>2. P = {i}
    BY <2>1 DEF Once
  <2>3. Cardinality(P) = 1
    BY <2>2, FS_Singleton
  <2>. QED  BY <1>1, <2>3
<1>2. CASE ~ InQueue(h)
  <2>1. P = {}
    BY <1>2 DEF InQueue
  <2>2. Cardinality(P) = 0
    BY <2>1, FS_EmptySet
  <2>. QED  BY <1>2, <2>2
<1>. QED  BY <1>1, <1>2

\* Every transaction that is open belongs to a handler that is in it, and every place in
\* the queue to one that waits: errors and time limits return what an approval held.
THEOREM NothingLeaks == Spec => []NoLeak
<1>1. IInv => NoLeak
  <2>. SUFFICES ASSUME IInv  PROVE NoLeak
    OBVIOUS
  <2>1. \A h \in Handlers :
          Cardinality({i \in DOMAIN queue : queue[i] = h}) = IF stage[h] \in Waiting THEN 1 ELSE 0
    BY PlacesInQueue DEF IInv, PoolTypeOK
  <2>. QED  BY <2>1 DEF IInv, InTransaction, NoLeak
<1>. QED  BY <1>1, PoolInvariant, PTL
=============================================================================
