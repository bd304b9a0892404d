------------------------- MODULE EventStoreProofs -------------------------
(***************************************************************************)
(* Proofs about EventStore for every number of callers, every queue and    *)
(* batch size and every bound.                                             *)
(*                                                                         *)
(* None of the properties is inductive by itself: the order of the rows    *)
(* and the join counter need to know when the writer's batch is empty      *)
(* (WriterShape), and the claim about a finished flush needs both.         *)
(***************************************************************************)
EXTENDS EventStore, SequenceTheorems, TLAPS

----------------------------------------------------------------------------
(* The inductive invariant, one part per idea.                             *)

\* The ring is never empty, so a push to a full one has a row to evict.
RingFilled == ring # <<>>

\* Where the batch is empty, where an error is known, and that the store lets
\* go of the writer only after its thread has ended.
WriterShape ==
    /\ wpc \in {"start", "lastack", "drain", "exited", "dead"} => pending = <<>>
    /\ wpc \in {"failed", "drain"} => werr
    /\ werr => wpc \in {"failed", "drain", "exited"}
    /\ ~writerOpen => wpc \in {"exited", "dead"}
    /\ pc[Closer] \in {"closeconn", "closed"} => wpc \in {"exited", "dead"}

\* The counter covers the rows in the queue and in the batch, exactly so
\* while there is no error (a sentinel taken by a failing last batch is never
\* acknowledged).
Counter ==
    /\ unfinished >= Len(queue) + Len(pending) + SentinelUnacked
    /\ JoinCounterExact

\* A caller that has flushed, and still holds the lock, waited for all of its
\* rows.
Flushed ==
    \A t \in Callers :
        /\ pc[t] \in {"flush", "locked"} => local[t] <= Len(puts)
        /\ pc[t] = "locked" /\ ~werr /\ wpc # "dead" =>
              \A i \in 1..local[t] : BeforeSentinel(i) => i <= Len(stored)

IInv == TypeOK /\ RingFilled /\ WriterShape /\ Counter
        /\ PutsReachDatabaseInOrder /\ LockOwnerInside /\ Flushed

----------------------------------------------------------------------------
(* Sequences of rows.                                                      *)

\* A push keeps the ring a non-empty sequence.
LEMMA PushType ==
    ASSUME NEW s \in Seq(Nat), NEW e \in Nat, s # <<>>
    PROVE  Push(s, e) \in Seq(Nat) /\ Push(s, e) # <<>>
BY HeadTailProperties, AppendProperties DEF Push

\* Appending to the second of two concatenated sequences appends to both.
LEMMA RowsAppend ==
    ASSUME NEW a \in Seq(Nat), NEW b \in Seq(Nat), NEW e \in Nat
    PROVE  Append(a \o b, e) = a \o Append(b, e)
<1> DEFINE u == <<e>>
<1>1. a \o b \in Seq(Nat) /\ u \in Seq(Nat)
  OBVIOUS
<1>2. Append(a \o b, e) = (a \o b) \o u
  BY <1>1, AppendIsConcat, Zenon
<1>3. b \o u = Append(b, e)
  BY AppendIsConcat, Zenon
<1> HIDE DEF u
<1>4. (a \o b) \o u = a \o (b \o u)
  BY <1>1
<1> QED BY <1>2, <1>3, <1>4, Zenon

\* Committed rows, the writer's batch, the sentinel it has taken, the queue.
Pipeline(a, b, c, q) == a \o (b \o (c \o q))

\* A row more at the end.
Enqueued(s, e) == Append(s, e)

\* A row put in the queue is at the end of the pipeline.
LEMMA PipelinePut ==
    ASSUME NEW a \in Seq(Nat), NEW b \in Seq(Nat), NEW c \in Seq(Nat),
           NEW q \in Seq(Nat), NEW e \in Nat
    PROVE  Enqueued(Pipeline(a, b, c, q), e) = Pipeline(a, b, c, Enqueued(q, e))
<1> DEFINE cq == c \o q
           bcq == b \o cq
<1>1. Append(cq, e) = c \o Append(q, e)
  BY RowsAppend, Zenon
<1>2. cq \in Seq(Nat)
  OBVIOUS
<1> HIDE DEF cq
<1>3. Append(bcq, e) = b \o Append(cq, e)
  BY <1>2, RowsAppend, Zenon
<1>4. bcq \in Seq(Nat)
  BY <1>2
<1> HIDE DEF bcq
<1>5. Append(a \o bcq, e) = a \o Append(bcq, e)
  BY <1>4, RowsAppend, Zenon
<1> QED BY <1>1, <1>3, <1>5, Zenon DEF cq, bcq, Pipeline, Enqueued

\* Moving the head of the queue to the end of the batch changes nothing.
LEMMA PipelineGet ==
    ASSUME NEW a \in Seq(Nat), NEW b \in Seq(Nat), NEW q \in Seq(Nat), q # <<>>
    PROVE  Pipeline(a, b, <<>>, q) = Pipeline(a, Append(b, Head(q)), <<>>, Tail(q))
<1>1. b \o (<<>> \o q) = Append(b, Head(q)) \o (<<>> \o Tail(q))
  OBVIOUS
<1> QED BY <1>1, Zenon DEF Pipeline

\* Nor does taking the sentinel out of the queue.
LEMMA PipelineSentinel ==
    ASSUME NEW a \in Seq(Nat), NEW b \in Seq(Nat), NEW q \in Seq(Nat), q # <<>>
    PROVE  Pipeline(a, b, <<>>, q) = Pipeline(a, b, <<Head(q)>>, Tail(q))
<1>1. <<>> \o q = <<Head(q)>> \o Tail(q)
  OBVIOUS
<1> QED BY <1>1, Zenon DEF Pipeline

\* Nor does committing the batch.
LEMMA PipelineCommit ==
    ASSUME NEW a \in Seq(Nat), NEW b \in Seq(Nat), NEW c \in Seq(Nat),
           NEW q \in Seq(Nat)
    PROVE  Pipeline(a, b, c, q) = Pipeline(a \o b, <<>>, c, q)
<1> DEFINE cq == c \o q
<1>1. cq \in Seq(Nat)
  OBVIOUS
<1> HIDE DEF cq
<1>2. a \o (b \o cq) = (a \o b) \o cq
  BY <1>1
<1>3. <<>> \o cq = cq
  BY <1>1
<1> QED BY <1>2, <1>3, Zenon DEF cq, Pipeline

----------------------------------------------------------------------------
(* The shape of a step.                                                    *)

\* A caller changes the queue only by putting one row at its end, and never
\* changes what the writer owns.
CallerQueueStep ==
    /\ UNCHANGED writerVars
    /\ \/ UNCHANGED queueVars
       \/ \E row \in Nat : Put(row)

\* A lifecycle report touches the queue like a caller does: it puts a row or
\* leaves the queue alone.
LEMMA EmitIsQueueStep ==
    ASSUME TypeOK, EmitLifecycle
    PROVE  UNCHANGED queueVars \/ \E row \in Nat : Put(row)
BY DEF TypeOK, EmitLifecycle

\* Every step is a step of the writer, or leaves the writer alone.
LEMMA StepKinds ==
    ASSUME TypeOK, [Next]_vars
    PROVE  CallerQueueStep \/ (WriterStep /\ UNCHANGED storeSide)
<1> USE DEF CallerQueueStep
<1>1. CASE \E p \in Producers : AppendValid(p)
  BY <1>1 DEF AppendValid
<1>2. CASE \E p \in Producers : AppendInvalid(p)
  BY <1>2, EmitIsQueueStep DEF AppendInvalid
<1>3. ASSUME NEW p \in Producers, ProducerStep(p) PROVE CallerQueueStep
  <2>1. CASE PutRow(p)
    BY <2>1 DEF PutRow, TypeOK, Callers
  <2>2. CASE ReportLag(p) \/ ReportDrops(p) \/ ReportRetention(p)
    BY <2>2, EmitIsQueueStep DEF ReportLag, ReportDrops, ReportRetention
  <2>3. CASE \/ CheckWriter(p) \/ PutRefused(p) \/ PutAfterClose(p)
             \/ SkipReport(p) \/ Retain(p) \/ RetentionNotDue(p)
             \/ DeleteRows(p) \/ EnterFlush(p) \/ FlushDone(p)
    BY <2>3 DEF CheckWriter, PutRefused, PutAfterClose, SkipReport, Retain,
                RetentionNotDue, DeleteRows, EnterFlush, FlushDone
  <2> QED BY <1>3, <2>1, <2>2, <2>3 DEF ProducerStep
<1>4. ASSUME NEW r \in Readers, BeginQuery(r) \/ ReaderStep(r)
      PROVE  CallerQueueStep
  BY <1>4 DEF BeginQuery, ReaderStep, EnterFlush, FlushDone, Select
<1>5. CASE BeginClose \/ CloseFlushed \/ JoinWriter \/ CloseConn
  BY <1>5 DEF BeginClose, CloseFlushed, JoinWriter, CloseConn
<1>6. CASE PutSentinel
  BY <1>6 DEF PutSentinel, Sentinel
<1>7. CASE WriterStep
  BY <1>7 DEF WriterStep, WriterConnect, WriterGet, WriterTimeout,
      WriterGetSentinel, WriterCommit, WriterAck, WriterExit, WriterFail,
      WriterFailAck, WriterDrain, WriterDrained
<1>8. CASE UNCHANGED vars
  BY <1>8 DEF vars
<1> QED BY <1>1, <1>2, <1>3, <1>4, <1>5, <1>6, <1>7, <1>8 DEF Next, CloserStep
----------------------------------------------------------------------------
(* Each part of the invariant is preserved.                                *)

\* The invariant holds once __init__ has opened the database.
LEMMA InitIInv == Init => IInv
<1> SUFFICES ASSUME Init PROVE IInv OBVIOUS
<1> USE DEF Init
<1>1. TypeOK
  <2>1. <<1>> \in Seq(Nat) /\ <<>> \in Seq(Nat)
    OBVIOUS
  <2>2. /\ ring \in Seq(Nat) /\ queue \in Seq(Nat) /\ puts \in Seq(Nat)
        /\ pending \in Seq(Nat) /\ stored \in Seq(Nat)
    BY <2>1, Zenon
  <2>3. pc \in [Callers -> CallerLabels] /\ local \in [Callers -> Nat]
    BY DEF CallerLabels
  <2>4. /\ wpc \in WriterLabels /\ werr \in BOOLEAN
        /\ writerOpen \in BOOLEAN /\ connOpen \in BOOLEAN
        /\ sqlLock \in Callers \cup {NoOwner}
    BY DEF WriterLabels
  <2>5. nextId \in Nat \ {0} /\ appends \in Nat /\ unfinished \in Nat
        /\ dropped \in Nat
    OBVIOUS
  <2> QED BY <2>2, <2>3, <2>4, <2>5, Zenon DEF TypeOK
<1>2. RingFilled /\ WriterShape /\ LockOwnerInside
  BY EventStoreAssumption
     DEF RingFilled, WriterShape, LockOwnerInside, Callers, NoOwner
<1>3. Counter
  BY DEF Counter, JoinCounterExact, SentinelUnacked
<1>4. PutsReachDatabaseInOrder
  BY DEF PutsReachDatabaseInOrder, Uncommitted, TakenSentinel
<1>5. Flushed
  BY DEF Flushed
<1> QED BY <1>1, <1>2, <1>3, <1>4, <1>5 DEF IInv

\* The order of the rows: the writer moves them along, a caller adds at the end.
LEMMA OrderStep ==
    ASSUME IInv, CallerQueueStep \/ WriterStep
    PROVE  PutsReachDatabaseInOrder'
<1> DEFINE pipe == Pipeline(stored, Uncommitted, TakenSentinel, queue)
<1>0. /\ queue \in Seq(Nat) /\ pending \in Seq(Nat) /\ stored \in Seq(Nat)
      /\ Uncommitted \in Seq(Nat) /\ TakenSentinel \in Seq(Nat)
      /\ WriterShape
  BY DEF IInv, TypeOK, Uncommitted, TakenSentinel, Sentinel
<1>1. ~werr => puts = pipe
  BY Zenon DEF IInv, PutsReachDatabaseInOrder, Pipeline
<1>2. SUFFICES ~werr' => puts' = pipe'
  BY <1>2, Zenon DEF PutsReachDatabaseInOrder, Pipeline
<1>3. CASE CallerQueueStep
  <2>1. /\ Uncommitted' = Uncommitted /\ TakenSentinel' = TakenSentinel
        /\ stored' = stored /\ werr' = werr
    BY <1>3 DEF CallerQueueStep, Uncommitted, TakenSentinel, writerVars
  <2>2. CASE UNCHANGED queueVars
    BY <1>1, <2>1, <2>2, Zenon DEF queueVars
  <2>3. ASSUME NEW row \in Nat, Put(row)
        PROVE  ~werr' => puts' = pipe'
    <3>1. queue' = Enqueued(queue, row) /\ puts' = Enqueued(puts, row)
      BY <2>3 DEF Put, Enqueued
    <3>2. Enqueued(pipe, row)
            = Pipeline(stored, Uncommitted, TakenSentinel, Enqueued(queue, row))
      BY <1>0, <2>3, PipelinePut
    <3> QED BY <1>1, <2>1, <3>1, <3>2, Zenon
  <2> QED BY <1>3, <2>2, <2>3 DEF CallerQueueStep
<1>4. CASE WriterGet
  <2>1. pending' = Append(pending, Head(queue)) /\ queue' = Tail(queue)
        /\ stored' = stored /\ puts' = puts /\ werr' = werr /\ queue # <<>>
    BY <1>4 DEF WriterGet
  <2>2. Uncommitted = pending /\ Uncommitted' = pending'
        /\ TakenSentinel = <<>> /\ TakenSentinel' = <<>>
    BY <1>4 DEF WriterGet, Uncommitted, TakenSentinel
  <2>3. Pipeline(stored, pending, <<>>, queue)
          = Pipeline(stored, Append(pending, Head(queue)), <<>>, Tail(queue))
    BY <1>0, <2>1, PipelineGet
  <2> QED BY <1>1, <2>1, <2>2, <2>3, Zenon
<1>5. CASE WriterGetSentinel
  <2>1. pending' = pending /\ queue' = Tail(queue) /\ Head(queue) = Sentinel
        /\ stored' = stored /\ puts' = puts /\ werr' = werr /\ queue # <<>>
    BY <1>5 DEF WriterGetSentinel
  <2>2. Uncommitted = pending /\ Uncommitted' = pending'
        /\ TakenSentinel = <<>> /\ TakenSentinel' = <<Head(queue)>>
    BY <1>5 DEF WriterGetSentinel, Uncommitted, TakenSentinel
  <2>3. Pipeline(stored, pending, <<>>, queue)
          = Pipeline(stored, pending, <<Head(queue)>>, Tail(queue))
    BY <1>0, <2>1, PipelineSentinel
  <2> QED BY <1>1, <2>1, <2>2, <2>3, Zenon
<1>6. CASE WriterCommit
  <2>1. stored' = stored \o pending /\ queue' = queue /\ puts' = puts
        /\ werr' = werr
    BY <1>6 DEF WriterCommit, queueVars
  <2>2. Uncommitted = pending /\ Uncommitted' = <<>>
        /\ TakenSentinel' = TakenSentinel
    BY <1>6 DEF WriterCommit, Uncommitted, TakenSentinel
  <2>3. Pipeline(stored, pending, TakenSentinel, queue)
          = Pipeline(stored \o pending, <<>>, TakenSentinel, queue)
    BY <1>0, PipelineCommit
  <2> QED BY <1>1, <2>1, <2>2, <2>3, Zenon
<1>7. CASE WriterConnect \/ WriterTimeout \/ WriterAck \/ WriterExit
  <2>1. queue' = queue /\ puts' = puts /\ werr' = werr /\ stored' = stored
    BY <1>7 DEF WriterConnect, WriterTimeout, WriterAck, WriterExit, queueVars
  <2>2. Uncommitted' = Uncommitted /\ TakenSentinel' = TakenSentinel
    BY <1>0, <1>7 DEF WriterConnect, WriterTimeout, WriterAck, WriterExit,
                Uncommitted, TakenSentinel, WriterShape
  <2> QED BY <1>1, <2>1, <2>2, Zenon
<1>8. CASE WriterFail \/ WriterFailAck \/ WriterDrain \/ WriterDrained
  <2>1. werr' = TRUE
    BY <1>0, <1>8 DEF WriterFail, WriterFailAck, WriterDrain, WriterDrained,
                WriterShape, writerVars
  <2> QED BY <2>1
<1> QED BY <1>3, <1>4, <1>5, <1>6, <1>7, <1>8 DEF WriterStep

\* The counter: put adds one, task_done takes off what was taken.
LEMMA CounterStep ==
    ASSUME IInv, CallerQueueStep \/ WriterStep
    PROVE  Counter' /\ unfinished' \in Nat
<1> DEFINE covered == Len(queue) + Len(pending) + SentinelUnacked
<1>0. /\ queue \in Seq(Nat) /\ pending \in Seq(Nat) /\ unfinished \in Nat
      /\ WriterShape /\ unfinished >= covered
      /\ Len(queue) \in Nat /\ Len(pending) \in Nat
  BY DEF IInv, TypeOK, Counter
<1>1. ~werr => unfinished = covered
  BY DEF IInv, Counter, JoinCounterExact
<1>2. SUFFICES /\ unfinished' \in Nat /\ unfinished' >= covered'
               /\ ~werr' => unfinished' = covered'
  BY <1>2 DEF Counter, JoinCounterExact
<1>3. CASE UNCHANGED <<queueVars, writerVars>>
  BY <1>0, <1>1, <1>3 DEF queueVars, writerVars, SentinelUnacked
<1>4. ASSUME NEW row \in Nat, Put(row), UNCHANGED writerVars
      PROVE  /\ unfinished' \in Nat /\ unfinished' >= covered'
             /\ ~werr' => unfinished' = covered'
  <2>1. /\ Len(queue') = Len(queue) + 1 /\ unfinished' = unfinished + 1
        /\ Len(pending') = Len(pending) /\ SentinelUnacked' = SentinelUnacked
    BY <1>0, <1>4 DEF Put, writerVars, SentinelUnacked
  <2>2. werr' = werr
    BY <1>4 DEF writerVars
  <2>3. SentinelUnacked \in Nat
    BY DEF SentinelUnacked
  <2>4. covered' = covered + 1 /\ covered \in Nat
    BY <1>0, <2>1, <2>3
  <2> HIDE DEF covered
  <2> QED BY <1>0, <1>1, <2>1, <2>2, <2>4
<1>5. CASE WriterGet
  <2>1. Len(queue') = Len(queue) - 1 /\ Len(pending') = Len(pending) + 1
    BY <1>0, <1>5 DEF WriterGet
  <2>2. SentinelUnacked = 0 /\ SentinelUnacked' = 0 /\ unfinished' = unfinished
    BY <1>5 DEF WriterGet, SentinelUnacked
  <2>3. werr' = werr
    BY <1>5 DEF WriterGet
  <2>4. covered' = covered
    BY <1>0, <2>1, <2>2
  <2> HIDE DEF covered
  <2> QED BY <1>0, <1>1, <2>2, <2>3, <2>4
<1>6. CASE WriterGetSentinel
  BY <1>0, <1>1, <1>6 DEF WriterGetSentinel, SentinelUnacked
<1>7. CASE WriterConnect \/ WriterTimeout \/ WriterCommit
  BY <1>0, <1>1, <1>7
     DEF WriterConnect, WriterTimeout, WriterCommit, queueVars, SentinelUnacked
<1>8. CASE WriterAck \/ WriterExit
  BY <1>0, <1>1, <1>8 DEF WriterAck, WriterExit, WriterShape, SentinelUnacked
<1>9. CASE WriterFail \/ WriterFailAck
  BY <1>0, <1>9
     DEF WriterFail, WriterFailAck, WriterShape, queueVars, SentinelUnacked
<1>10. CASE WriterDrain \/ WriterDrained
  BY <1>0, <1>10 DEF WriterDrain, WriterDrained, WriterShape, queueVars,
      writerVars, SentinelUnacked
<1> QED BY <1>3, <1>4, <1>5, <1>6, <1>7, <1>8, <1>9, <1>10
        DEF WriterStep, CallerQueueStep

\* The types of what the writer and the queue own.
LEMMA QueueTypesStep ==
    ASSUME IInv, CallerQueueStep \/ WriterStep
    PROVE  /\ queue' \in Seq(Nat) /\ puts' \in Seq(Nat)
           /\ pending' \in Seq(Nat) /\ stored' \in Seq(Nat)
<1>0. /\ queue \in Seq(Nat) /\ puts \in Seq(Nat) /\ <<>> \in Seq(Nat)
      /\ pending \in Seq(Nat) /\ stored \in Seq(Nat)
  BY DEF IInv, TypeOK
<1>1. CASE CallerQueueStep
  <2>1. pending' = pending /\ stored' = stored
    BY <1>1 DEF CallerQueueStep, writerVars
  <2>2. CASE UNCHANGED queueVars
    BY <1>0, <2>1, <2>2, Zenon DEF queueVars
  <2>3. ASSUME NEW row \in Nat, Put(row)
        PROVE  queue' \in Seq(Nat) /\ puts' \in Seq(Nat)
    BY <1>0, <2>3 DEF Put
  <2> QED BY <1>0, <1>1, <2>1, <2>2, <2>3, Zenon DEF CallerQueueStep
<1>2. CASE WriterGet
  <2>1. Append(pending, Head(queue)) \in Seq(Nat) /\ Tail(queue) \in Seq(Nat)
    BY <1>0, <1>2 DEF WriterGet
  <2> QED BY <1>0, <1>2, <2>1, Zenon DEF WriterGet
<1>3. CASE WriterGetSentinel
  <2>1. Tail(queue) \in Seq(Nat)
    BY <1>0, <1>3 DEF WriterGetSentinel
  <2> QED BY <1>0, <1>3, <2>1, Zenon DEF WriterGetSentinel
<1>4. CASE WriterCommit
  <2>1. stored \o pending \in Seq(Nat)
    BY <1>0
  <2> QED BY <1>0, <1>4, <2>1, Zenon DEF WriterCommit, queueVars
<1>5. CASE WriterConnect \/ WriterTimeout \/ WriterAck \/ WriterExit
  BY <1>0, <1>5, Zenon DEF WriterConnect, WriterTimeout, WriterAck, WriterExit,
                    queueVars
<1>6. CASE WriterFail \/ WriterFailAck \/ WriterDrained
  BY <1>0, <1>6, Zenon DEF WriterFail, WriterFailAck, WriterDrained, queueVars
<1>7. CASE WriterDrain
  <2>1. Tail(queue) \in Seq(Nat)
    BY <1>0, <1>7 DEF WriterDrain
  <2> QED BY <1>0, <1>7, <2>1, Zenon DEF WriterDrain, writerVars
<1> QED BY <1>1, <1>2, <1>3, <1>4, <1>5, <1>6, <1>7 DEF WriterStep

\* The writer's place and error flag.
LEMMA WriterTypesStep ==
    ASSUME IInv, CallerQueueStep \/ WriterStep
    PROVE  wpc' \in WriterLabels /\ werr' \in BOOLEAN
<1>0. wpc \in WriterLabels /\ werr \in BOOLEAN
  BY DEF IInv, TypeOK
<1>1. werr' \in {werr, TRUE}
  BY DEF CallerQueueStep, WriterStep, WriterConnect, WriterGet, WriterTimeout,
      WriterGetSentinel, WriterCommit, WriterAck, WriterExit, WriterFail,
      WriterFailAck, WriterDrain, WriterDrained, writerVars
<1>2. wpc' \in WriterLabels
  BY <1>0 DEF CallerQueueStep, WriterStep, WriterConnect, WriterGet,
      WriterTimeout, WriterGetSentinel, WriterCommit, WriterAck, WriterExit,
      WriterFail, WriterFailAck, WriterDrain, WriterDrained, writerVars,
      WriterLabels
<1> QED BY <1>0, <1>1, <1>2, Zenon

\* How a step moves the callers: not at all, one caller elsewhere than in the
\* lock, into it, on from its flush, or out of it.
Outside == CallerLabels \ {"flush", "locked"}

CallerMove ==
    \/ UNCHANGED <<callerVars, sqlLock>>
    \/ \E t \in Callers : \E l \in Outside : \E v \in Nat :
          pc[t] \in Outside /\ Goto(t, l, v) /\ UNCHANGED sqlLock
    \/ \E t \in Callers : EnterFlush(t)
    \/ \E t \in Callers : FlushDone(t)
    \/ \E t \in Callers : \E l \in Outside :
          pc[t] = "locked" /\ Goto(t, l, 0) /\ sqlLock' = NoOwner

\* Every step is one of the moves of a caller listed in CallerMove.
LEMMA MoveKinds ==
    ASSUME IInv, [Next]_vars
    PROVE  CallerMove
<1>0. local \in [Callers -> Nat] /\ nextId \in Nat /\ Len(puts) \in Nat
  BY DEF IInv, TypeOK
<1> USE DEF CallerMove, Outside, CallerLabels
<1>1. ASSUME NEW p \in Producers, AppendValid(p) \/ AppendInvalid(p)
      PROVE  CallerMove
  BY <1>0, <1>1 DEF AppendValid, AppendInvalid, MayCall, Callers
<1>2. ASSUME NEW p \in Producers, ProducerStep(p) PROVE CallerMove
  <2>0. p \in Callers
    BY <1>2 DEF Callers
  <2>1. CASE CheckWriter(p) \/ PutRow(p) \/ PutRefused(p) \/ PutAfterClose(p)
    BY <1>0, <2>0, <2>1 DEF CheckWriter, PutRow, PutRefused, PutAfterClose
  <2>2. CASE \/ ReportLag(p) \/ ReportDrops(p) \/ SkipReport(p) \/ Retain(p)
             \/ RetentionNotDue(p) \/ ReportRetention(p)
    BY <2>0, <2>2 DEF ReportLag, ReportDrops, SkipReport, Retain,
                      RetentionNotDue, ReportRetention
  <2>3. CASE DeleteRows(p)
    BY <2>0, <2>3 DEF DeleteRows
  <2>4. CASE EnterFlush(p) \/ FlushDone(p)
    BY <2>0, <2>4
  <2> QED BY <1>2, <2>1, <2>2, <2>3, <2>4 DEF ProducerStep
<1>3. ASSUME NEW r \in Readers, BeginQuery(r) \/ ReaderStep(r) PROVE CallerMove
  <2>0. r \in Callers
    BY <1>3 DEF Callers
  <2>1. CASE BeginQuery(r)
    BY <2>0, <2>1 DEF BeginQuery, MayCall
  <2>2. CASE EnterFlush(r) \/ FlushDone(r)
    BY <2>0, <2>2
  <2>3. CASE Select(r)
    BY <2>0, <2>3 DEF Select
  <2> QED BY <1>3, <2>1, <2>2, <2>3 DEF ReaderStep
<1>4. CASE BeginClose \/ CloserStep
  BY <1>0, <1>4 DEF BeginClose, CloserStep, CloseFlushed, PutSentinel,
                    JoinWriter, CloseConn, Callers
<1>5. CASE WriterStep
  BY <1>5 DEF WriterStep, WriterConnect, WriterGet, WriterTimeout,
      WriterGetSentinel, WriterCommit, WriterAck, WriterExit, WriterFail,
      WriterFailAck, WriterDrain, WriterDrained, storeSide
<1>6. CASE UNCHANGED vars
  BY <1>6 DEF vars
<1> QED BY <1>1, <1>2, <1>3, <1>4, <1>5, <1>6 DEF Next

\* The lock is owned by the caller inside, and callers stay in their types.
LEMMA LockStep ==
    ASSUME IInv, CallerMove
    PROVE  /\ LockOwnerInside'
           /\ pc' \in [Callers -> CallerLabels] /\ local' \in [Callers -> Nat]
           /\ sqlLock' \in Callers \cup {NoOwner}
<1>0. /\ pc \in [Callers -> CallerLabels] /\ local \in [Callers -> Nat]
      /\ sqlLock \in Callers \cup {NoOwner} /\ LockOwnerInside
      /\ Len(puts) \in Nat /\ NoOwner \notin Callers
  BY EventStoreAssumption DEF IInv, TypeOK, NoOwner, Callers
<1>1. CASE UNCHANGED <<callerVars, sqlLock>>
  BY <1>0, <1>1 DEF LockOwnerInside, callerVars
<1>2. ASSUME NEW t \in Callers, NEW l \in Outside, NEW v \in Nat,
             pc[t] \in Outside, Goto(t, l, v), UNCHANGED sqlLock
      PROVE  /\ LockOwnerInside'
             /\ pc' \in [Callers -> CallerLabels] /\ local' \in [Callers -> Nat]
             /\ sqlLock' \in Callers \cup {NoOwner}
  BY <1>0, <1>2 DEF LockOwnerInside, Goto, Outside
<1>3. ASSUME NEW t \in Callers, EnterFlush(t)
      PROVE  /\ LockOwnerInside'
             /\ pc' \in [Callers -> CallerLabels] /\ local' \in [Callers -> Nat]
             /\ sqlLock' \in Callers \cup {NoOwner}
  BY <1>0, <1>3 DEF LockOwnerInside, Goto, EnterFlush, CallerLabels
<1>4. ASSUME NEW t \in Callers, FlushDone(t)
      PROVE  /\ LockOwnerInside'
             /\ pc' \in [Callers -> CallerLabels] /\ local' \in [Callers -> Nat]
             /\ sqlLock' \in Callers \cup {NoOwner}
  BY <1>0, <1>4 DEF LockOwnerInside, Goto, FlushDone, CallerLabels
<1>5. ASSUME NEW t \in Callers, NEW l \in Outside, pc[t] = "locked",
             Goto(t, l, 0), sqlLock' = NoOwner
      PROVE  /\ LockOwnerInside'
             /\ pc' \in [Callers -> CallerLabels] /\ local' \in [Callers -> Nat]
             /\ sqlLock' \in Callers \cup {NoOwner}
  BY <1>0, <1>5 DEF LockOwnerInside, Goto, Outside
<1> QED BY <1>1, <1>2, <1>3, <1>4, <1>5 DEF CallerMove

\* What the store object itself owns.
LEMMA EmitTypes ==
    ASSUME IInv, EmitLifecycle
    PROVE  ring' \in Seq(Nat) /\ ring' # <<>> /\ nextId' \in Nat \ {0}
<1>1. ring \in Seq(Nat) /\ ring # <<>> /\ nextId \in Nat \ {0}
  BY DEF IInv, TypeOK, RingFilled
<1>2. ring' = Push(ring, nextId) /\ nextId' = nextId + 1
  BY DEF EmitLifecycle
<1>3. Push(ring, nextId) \in Seq(Nat) /\ Push(ring, nextId) # <<>>
  BY <1>1, PushType
<1>4. nextId' \in Nat \ {0}
  BY <1>1, <1>2
<1> QED BY <1>2, <1>3, <1>4, Zenon

\* The ring, the counters and the open flags keep their types.
LEMMA StoreTypesStep ==
    ASSUME IInv, [Next]_vars
    PROVE  /\ ring' \in Seq(Nat) /\ ring' # <<>> /\ nextId' \in Nat \ {0}
           /\ appends' \in Nat /\ dropped' \in Nat
           /\ writerOpen' \in BOOLEAN /\ connOpen' \in BOOLEAN
<1> DEFINE Goal == /\ ring' \in Seq(Nat) /\ ring' # <<>>
                   /\ nextId' \in Nat \ {0}
                   /\ appends' \in Nat /\ dropped' \in Nat
                   /\ writerOpen' \in BOOLEAN /\ connOpen' \in BOOLEAN
<1>0. /\ ring \in Seq(Nat) /\ ring # <<>> /\ nextId \in Nat \ {0}
      /\ appends \in Nat /\ dropped \in Nat
      /\ writerOpen \in BOOLEAN /\ connOpen \in BOOLEAN
  BY DEF IInv, TypeOK, RingFilled
<1>1. CASE UNCHANGED <<storeVars, openVars>>
  BY <1>0, <1>1, Zenon DEF storeVars, openVars
<1>2. ASSUME EmitLifecycle, appends' \in Nat, dropped' \in Nat,
             UNCHANGED openVars
      PROVE  Goal
  BY <1>0, <1>2, EmitTypes, Zenon DEF openVars
<1>3. ASSUME NEW p \in Producers, AppendValid(p) PROVE Goal
  <2>1. Push(ring, nextId) \in Seq(Nat) /\ Push(ring, nextId) # <<>>
    BY <1>0, PushType
  <2>2. nextId' \in Nat \ {0} /\ appends' \in Nat /\ dropped' = dropped
    BY <1>0, <1>3 DEF AppendValid
  <2> QED BY <1>0, <1>3, <2>1, <2>2, Zenon DEF AppendValid, openVars
<1>4. ASSUME NEW p \in Producers, AppendInvalid(p) PROVE Goal
  <2>1. appends' \in Nat /\ dropped' = dropped
    BY <1>0, <1>4 DEF AppendInvalid
  <2> QED BY <1>0, <1>2, <1>4, <2>1, Zenon DEF AppendInvalid
<1>5. ASSUME NEW p \in Producers, ProducerStep(p) PROVE Goal
  <2>1. CASE ReportLag(p) \/ ReportDrops(p) \/ ReportRetention(p)
    <3>1. 0 \in Nat
      OBVIOUS
    <3> QED BY <1>0, <1>2, <2>1, <3>1, Zenon
            DEF ReportLag, ReportDrops, ReportRetention
  <2>2. CASE PutRefused(p)
    <3>1. dropped' \in Nat
      BY <1>0, <2>2 DEF PutRefused
    <3> QED BY <1>0, <2>2, <3>1, Zenon DEF PutRefused, openVars
  <2>3. CASE \/ CheckWriter(p) \/ PutRow(p) \/ PutAfterClose(p)
             \/ SkipReport(p) \/ Retain(p) \/ RetentionNotDue(p)
             \/ DeleteRows(p) \/ EnterFlush(p) \/ FlushDone(p)
    BY <1>1, <2>3, Zenon
       DEF CheckWriter, PutRow, PutAfterClose, SkipReport, Retain,
           RetentionNotDue, DeleteRows, EnterFlush, FlushDone
  <2> QED BY <1>5, <2>1, <2>2, <2>3, Zenon DEF ProducerStep
<1>6. ASSUME NEW r \in Readers, BeginQuery(r) \/ ReaderStep(r) PROVE Goal
  BY <1>1, <1>6, Zenon DEF BeginQuery, ReaderStep, EnterFlush, FlushDone, Select
<1>7. CASE BeginClose \/ CloserStep
  BY <1>0, <1>1, <1>7, Zenon DEF BeginClose, CloserStep, CloseFlushed,
      PutSentinel, JoinWriter, CloseConn, storeVars, openVars
<1>8. CASE WriterStep
  BY <1>1, <1>8, Zenon DEF WriterStep, WriterConnect, WriterGet, WriterTimeout,
      WriterGetSentinel, WriterCommit, WriterAck, WriterExit, WriterFail,
      WriterFailAck, WriterDrain, WriterDrained, storeSide
<1>9. CASE UNCHANGED vars
  BY <1>1, <1>9, Zenon DEF vars
<1> QED BY <1>3, <1>4, <1>5, <1>6, <1>7, <1>8, <1>9, Zenon DEF Next

\* The writer's batch is empty where WriterShape says, and only a joined
\* writer is let go.
LEMMA ShapeStep ==
    ASSUME IInv, [Next]_vars
    PROVE  WriterShape'
<1>0. /\ WriterShape /\ wpc \in WriterLabels /\ werr \in BOOLEAN
      /\ pc \in [Callers -> CallerLabels] /\ Closer \in Callers
      /\ writerOpen \in BOOLEAN
  BY DEF IInv, TypeOK, Callers
<1>1. CASE WriterStep
  <2>1. pc' = pc /\ writerOpen' = writerOpen
    BY <1>1 DEF WriterStep, WriterConnect, WriterGet, WriterTimeout,
      WriterGetSentinel, WriterCommit, WriterAck, WriterExit, WriterFail,
      WriterFailAck, WriterDrain, WriterDrained, storeSide, openVars, callerVars
  <2>2. wpc \notin {"exited", "dead"}
    BY <1>1 DEF WriterStep, WriterConnect, WriterGet, WriterTimeout,
      WriterGetSentinel, WriterCommit, WriterAck, WriterExit, WriterFail,
      WriterFailAck, WriterDrain, WriterDrained
  <2>3. writerOpen /\ pc[Closer] \notin {"closeconn", "closed"}
    BY <1>0, <2>2 DEF WriterShape
  <2>4. /\ wpc' \in {"start", "lastack", "drain", "exited", "dead"}
              => pending' = <<>>
        /\ wpc' \in {"failed", "drain"} => werr'
        /\ werr' => wpc' \in {"failed", "drain", "exited"}
    BY <1>0, <1>1 DEF WriterShape, WriterStep, WriterConnect, WriterGet,
      WriterTimeout, WriterGetSentinel, WriterCommit, WriterAck, WriterExit,
      WriterFail, WriterFailAck, WriterDrain, WriterDrained, writerVars
  <2> QED BY <2>1, <2>3, <2>4 DEF WriterShape
<1>2. CASE JoinWriter
  BY <1>0, <1>2 DEF JoinWriter, WriterShape, writerVars
<1>3. CASE CloseConn
  BY <1>0, <1>3 DEF CloseConn, WriterShape, writerVars, Goto
<1>4. ASSUME UNCHANGED writerVars, writerOpen' = writerOpen,
             pc'[Closer] \in {"closeconn", "closed"} =>
                pc[Closer] \in {"closeconn", "closed"}
      PROVE  WriterShape'
  BY <1>0, <1>4 DEF WriterShape, writerVars
<1>5. ASSUME NEW p \in Producers,
             AppendValid(p) \/ AppendInvalid(p) \/ ProducerStep(p)
      PROVE  WriterShape'
  <2>1. p # Closer
    BY <1>5, EventStoreAssumption
  <2>2. UNCHANGED writerVars /\ writerOpen' = writerOpen
    BY <1>5 DEF AppendValid, AppendInvalid, ProducerStep, CheckWriter, PutRow,
        PutRefused, PutAfterClose, ReportLag, ReportDrops, SkipReport, Retain,
        RetentionNotDue, DeleteRows, ReportRetention, EnterFlush, FlushDone,
        openVars
  <2>3. pc'[Closer] = pc[Closer]
    BY <1>0, <1>5, <2>1 DEF AppendValid, AppendInvalid, ProducerStep,
        CheckWriter, PutRow, PutRefused, PutAfterClose, ReportLag, ReportDrops,
        SkipReport, Retain, RetentionNotDue, DeleteRows, ReportRetention,
        EnterFlush, FlushDone, Goto, callerVars
  <2> QED BY <1>4, <2>2, <2>3
<1>6. ASSUME NEW r \in Readers, BeginQuery(r) \/ ReaderStep(r)
      PROVE  WriterShape'
  <2>1. r # Closer
    BY <1>6, EventStoreAssumption
  <2>2. UNCHANGED writerVars /\ writerOpen' = writerOpen
    BY <1>6 DEF BeginQuery, ReaderStep, EnterFlush, FlushDone, Select, openVars
  <2>3. pc'[Closer] = pc[Closer]
    BY <1>0, <1>6, <2>1 DEF BeginQuery, ReaderStep, EnterFlush, FlushDone,
        Select, Goto
  <2> QED BY <1>4, <2>2, <2>3
<1>7. CASE BeginClose \/ CloseFlushed \/ PutSentinel
  <2>1. UNCHANGED writerVars /\ writerOpen' = writerOpen
    BY <1>7 DEF BeginClose, CloseFlushed, PutSentinel, openVars
  <2>2. pc'[Closer] \in {"closeflush", "sentinel", "join"}
    BY <1>0, <1>7 DEF BeginClose, CloseFlushed, PutSentinel, Goto
  <2> QED BY <1>4, <2>1, <2>2
<1>8. CASE UNCHANGED vars
  BY <1>4, <1>8 DEF vars, openVars, callerVars
<1> QED BY <1>1, <1>2, <1>3, <1>5, <1>6, <1>7, <1>8 DEF Next, CloserStep

----------------------------------------------------------------------------
(* What a finished flush means.                                            *)

\* Position k of the pipeline is row k of the database, as far as that goes.
LEMMA PipelineIndex ==
    ASSUME NEW a \in Seq(Nat), NEW b \in Seq(Nat), NEW c \in Seq(Nat),
           NEW q \in Seq(Nat), NEW k \in 1..Len(a)
    PROVE  Pipeline(a, b, c, q)[k] = a[k]
<1> DEFINE rest == b \o (c \o q)
<1>1. rest \in Seq(Nat)
  OBVIOUS
<1> HIDE DEF rest
<1>2. (a \o rest)[k] = a[k]
  BY <1>1
<1> QED BY <1>2, Zenon DEF Pipeline, rest

\* Once the writer has nothing in hand but the sentinel, the position after
\* the database is the sentinel's.
LEMMA PipelineEnded ==
    ASSUME NEW a \in Seq(Nat), NEW q \in Seq(Nat)
    PROVE  /\ Pipeline(a, <<>>, <<Sentinel>>, q)[Len(a) + 1] = Sentinel
           /\ Pipeline(a, <<>>, <<>>, <<>>) = a
<1> DEFINE rest == <<>> \o (<<Sentinel>> \o q)
<1>1. rest \in Seq(Nat) /\ rest[1] = Sentinel /\ Len(rest) >= 1
  BY DEF Sentinel
<1> HIDE DEF rest
<1>2. (a \o rest)[Len(a) + 1] = rest[1]
  BY <1>1
<1>3. a \o (<<>> \o (<<>> \o <<>>)) = a
  OBVIOUS
<1>4. Pipeline(a, <<>>, <<Sentinel>>, q) = a \o rest
  BY Zenon DEF Pipeline, rest
<1> QED BY <1>1, <1>2, <1>3, <1>4, Zenon DEF Pipeline

\* With no task unfinished, or the writer let go or ended, everything put before the
\* sentinel has been committed.
LEMMA AllStored ==
    ASSUME IInv, ~werr, wpc # "dead",
           unfinished = 0 \/ ~writerOpen \/ wpc = "exited"
    PROVE  \A i \in 1..Len(puts) : BeforeSentinel(i) => i <= Len(stored)
<1>0. /\ queue \in Seq(Nat) /\ pending \in Seq(Nat) /\ stored \in Seq(Nat)
      /\ puts \in Seq(Nat) /\ WriterShape /\ wpc \in WriterLabels
      /\ Len(queue) \in Nat /\ Len(pending) \in Nat /\ Len(stored) \in Nat
  BY DEF IInv, TypeOK
<1>1. puts = Pipeline(stored, Uncommitted, TakenSentinel, queue)
  BY Zenon DEF IInv, PutsReachDatabaseInOrder, Pipeline
<1>2. CASE wpc = "exited"
  <2>1. Uncommitted = <<>> /\ TakenSentinel = <<Sentinel>>
    BY <1>0, <1>2 DEF WriterShape, Uncommitted, TakenSentinel
  <2>2. puts[Len(stored) + 1] = Sentinel
    BY <1>0, <1>1, <2>1, PipelineEnded
  <2> QED BY <1>0, <2>2 DEF BeforeSentinel
<1>3. CASE wpc # "exited"
  <2>1. unfinished = 0
    BY <1>0, <1>3 DEF WriterShape
  <2>2. unfinished = Len(queue) + Len(pending) + SentinelUnacked
    BY DEF IInv, Counter, JoinCounterExact
  <2>3. SentinelUnacked = 0 /\ Len(queue) = 0 /\ Len(pending) = 0
    BY <1>0, <2>1, <2>2 DEF SentinelUnacked
  <2>4. queue = <<>> /\ pending = <<>>
    BY <1>0, <2>3
  <2>5. Uncommitted = <<>> /\ TakenSentinel = <<>>
    BY <1>3, <2>3, <2>4 DEF Uncommitted, TakenSentinel, SentinelUnacked
  <2>6. puts = stored
    BY <1>0, <1>1, <2>4, <2>5, PipelineEnded
  <2> QED BY <1>0, <2>6
<1> QED BY <1>2, <1>3

\* Nothing put is taken back, nothing committed is, and neither an error nor
\* a dead writer goes away.
LEMMA Monotone ==
    ASSUME IInv, CallerQueueStep \/ WriterStep
    PROVE  /\ Len(puts) <= Len(puts') /\ \A k \in 1..Len(puts) : puts'[k] = puts[k]
           /\ Len(stored) <= Len(stored')
           /\ ~werr' => ~werr
           /\ wpc' # "dead" => wpc # "dead"
<1>0. /\ puts \in Seq(Nat) /\ stored \in Seq(Nat) /\ pending \in Seq(Nat)
      /\ Len(puts) \in Nat /\ Len(stored) \in Nat
  BY DEF IInv, TypeOK
<1>1. Len(puts) <= Len(puts') /\ \A k \in 1..Len(puts) : puts'[k] = puts[k]
  <2>1. CASE puts' = puts
    BY <1>0, <2>1
  <2>2. ASSUME NEW row \in Nat, puts' = Append(puts, row)
        PROVE  /\ Len(puts) <= Len(puts')
               /\ \A k \in 1..Len(puts) : puts'[k] = puts[k]
    BY <1>0, <2>2
  <2> QED BY <2>1, <2>2 DEF CallerQueueStep, Put, queueVars, WriterStep,
          WriterConnect, WriterGet, WriterTimeout, WriterGetSentinel,
          WriterCommit, WriterAck, WriterExit, WriterFail, WriterFailAck,
          WriterDrain, WriterDrained
<1>2. Len(stored) <= Len(stored')
  <2>1. stored' = stored \/ stored' = stored \o pending
    BY DEF CallerQueueStep, writerVars, WriterStep,
          WriterConnect, WriterGet, WriterTimeout, WriterGetSentinel,
          WriterCommit, WriterAck, WriterExit, WriterFail, WriterFailAck,
          WriterDrain, WriterDrained
  <2> QED BY <1>0, <2>1
<1>3. ~werr' => ~werr
  BY DEF CallerQueueStep, writerVars, WriterStep, WriterConnect, WriterGet,
      WriterTimeout, WriterGetSentinel, WriterCommit, WriterAck, WriterExit,
      WriterFail, WriterFailAck, WriterDrain, WriterDrained
<1>4. wpc' # "dead" => wpc # "dead"
  BY DEF CallerQueueStep, writerVars, WriterStep, WriterConnect, WriterGet,
      WriterTimeout, WriterGetSentinel, WriterCommit, WriterAck, WriterExit,
      WriterFail, WriterFailAck, WriterDrain, WriterDrained
<1> QED BY <1>1, <1>2, <1>3, <1>4

\* A caller that has flushed keeps what it waited for, and one that ends its
\* flush has waited for all of it.
LEMMA FlushedStep ==
    ASSUME IInv, CallerMove, CallerQueueStep \/ WriterStep
    PROVE  Flushed'
<1>0. /\ pc \in [Callers -> CallerLabels] /\ local \in [Callers -> Nat]
      /\ puts \in Seq(Nat) /\ stored \in Seq(Nat) /\ Flushed
      /\ Len(puts) \in Nat /\ Len(stored) \in Nat
  BY DEF IInv, TypeOK
<1>1. /\ queue' \in Seq(Nat) /\ puts' \in Seq(Nat) /\ stored' \in Seq(Nat)
      /\ Len(puts') \in Nat /\ Len(stored') \in Nat
  BY QueueTypesStep
<1>2. \A i \in 1..Len(puts) : BeforeSentinel(i)' => BeforeSentinel(i)
  BY <1>0, Monotone DEF BeforeSentinel
<1>3. SUFFICES ASSUME NEW u \in Callers
               PROVE  /\ pc'[u] \in {"flush", "locked"} => local'[u] <= Len(puts')
                      /\ pc'[u] = "locked" /\ ~werr' /\ wpc' # "dead" =>
                           \A i \in 1..local'[u] :
                              BeforeSentinel(i)' => i <= Len(stored')
  BY <1>3 DEF Flushed
<1>4. CASE pc'[u] = pc[u] /\ local'[u] = local[u]
  <2>1. /\ Len(puts) <= Len(puts') /\ Len(stored) <= Len(stored')
        /\ ~werr' => ~werr
        /\ wpc' # "dead" => wpc # "dead"
    BY Monotone
  <2>2. pc[u] \in {"flush", "locked"} => local[u] <= Len(puts)
    BY <1>0 DEF Flushed
  <2>3. local[u] \in Nat
    BY <1>0
  <2>4. pc'[u] \in {"flush", "locked"} => local'[u] <= Len(puts')
    BY <1>0, <1>1, <1>4, <2>1, <2>2, <2>3
  <2>5. ASSUME pc'[u] = "locked", ~werr', wpc' # "dead",
               NEW i \in 1..local'[u], BeforeSentinel(i)'
        PROVE  i <= Len(stored')
    <3>1. pc[u] = "locked" /\ ~werr /\ wpc # "dead" /\ i \in 1..local[u]
      BY <1>4, <2>1, <2>5
    <3>2. i \in 1..Len(puts)
      BY <1>0, <2>2, <2>3, <3>1
    <3>3. BeforeSentinel(i)
      BY <1>2, <2>5, <3>2
    <3>4. i <= Len(stored)
      BY <1>0, <3>1, <3>3 DEF Flushed
    <3> QED BY <1>0, <1>1, <2>1, <3>2, <3>4
  <2> QED BY <2>4, <2>5
<1>5. CASE pc'[u] \in Outside
  BY <1>5 DEF Outside
<1>6. CASE EnterFlush(u)
  <2>1. /\ local'[u] = Len(puts) /\ puts' = puts /\ stored' = stored
        /\ werr' = werr /\ wpc' = wpc
        /\ pc'[u] = IF writerOpen THEN "flush" ELSE "locked"
    BY <1>0, <1>6 DEF EnterFlush, Goto, queueVars, writerVars
  <2>2. ~writerOpen /\ ~werr /\ wpc # "dead" =>
          \A i \in 1..Len(puts) : BeforeSentinel(i) => i <= Len(stored)
    BY AllStored
  <2> QED BY <1>0, <1>2, <2>1, <2>2
<1>7. CASE FlushDone(u)
  <2>1. /\ local'[u] = local[u] /\ puts' = puts /\ stored' = stored
        /\ werr' = werr /\ wpc' = wpc /\ pc[u] = "flush" /\ unfinished = 0
    BY <1>0, <1>7 DEF FlushDone, Goto, queueVars, writerVars
  <2>2. local[u] <= Len(puts)
    BY <2>1, <1>0 DEF Flushed
  <2>3. ~werr /\ wpc # "dead" =>
          \A i \in 1..Len(puts) : BeforeSentinel(i) => i <= Len(stored)
    BY <2>1, AllStored
  <2> QED BY <1>0, <1>2, <2>1, <2>2, <2>3
<1> QED BY <1>0, <1>4, <1>5, <1>6, <1>7
        DEF CallerMove, EnterFlush, FlushDone, Goto, callerVars

----------------------------------------------------------------------------
(* The theorems.                                                           *)

\* The invariant is inductive.
LEMMA IInvStep == IInv /\ [Next]_vars => IInv'
<1> SUFFICES ASSUME IInv, [Next]_vars PROVE IInv'
  OBVIOUS
<1>1. CallerQueueStep \/ WriterStep
  BY StepKinds DEF IInv
<1>2. CallerMove
  BY MoveKinds
<1>3. TypeOK' /\ RingFilled'
  BY <1>1, <1>2, QueueTypesStep, WriterTypesStep, LockStep, StoreTypesStep,
     CounterStep, Zenon DEF TypeOK, RingFilled
<1>4. Counter' /\ PutsReachDatabaseInOrder' /\ LockOwnerInside' /\ Flushed'
  BY <1>1, <1>2, CounterStep, OrderStep, LockStep, FlushedStep
<1> QED BY <1>3, <1>4, ShapeStep DEF IInv

\* ... and so holds in every reachable state.
LEMMA AlwaysIInv == Spec => []IInv
BY InitIInv, IInvStep, PTL DEF Spec

\* Every variable keeps its type; Queue.task_done() is never called too often.
THEOREM TypeCorrect == Spec => []TypeOK
<1>1. IInv => TypeOK
  BY DEF IInv
<1> QED BY <1>1, AlwaysIInv, PTL

\* No accepted row is lost, duplicated or reordered on its way to SQLite.
THEOREM RowsInOrder == Spec => []PutsReachDatabaseInOrder
<1>1. IInv => PutsReachDatabaseInOrder
  BY DEF IInv
<1> QED BY <1>1, AlwaysIInv, PTL

\* queue.join() waits for exactly the rows not yet committed.
THEOREM JoinCounter == Spec => []JoinCounterExact
<1>1. IInv => JoinCounterExact
  BY DEF IInv, Counter
<1> QED BY <1>1, AlwaysIInv, PTL

\* The SQLite lock is held by exactly the caller inside the guarded section.
THEOREM LockDiscipline == Spec => []LockOwnerInside
<1>1. IInv => LockOwnerInside
  BY DEF IInv
<1> QED BY <1>1, AlwaysIInv, PTL

\* A row position up to the length of the database holds a committed row.
LEMMA PrefixStored ==
    ASSUME IInv, ~werr, NEW i \in 1..Len(puts), i <= Len(stored)
    PROVE  puts[i] \in Range(stored)
<1>0. /\ queue \in Seq(Nat) /\ stored \in Seq(Nat) /\ Len(stored) \in Nat
      /\ Uncommitted \in Seq(Nat) /\ TakenSentinel \in Seq(Nat)
  BY DEF IInv, TypeOK, Uncommitted, TakenSentinel, Sentinel
<1>1. puts = Pipeline(stored, Uncommitted, TakenSentinel, queue)
  BY Zenon DEF IInv, PutsReachDatabaseInOrder, Pipeline
<1>2. i \in 1..Len(stored)
  BY <1>0
<1>3. Pipeline(stored, Uncommitted, TakenSentinel, queue)[i] = stored[i]
  BY <1>0, <1>2, PipelineIndex
<1>4. i \in DOMAIN stored
  BY <1>0, <1>2
<1> QED BY <1>1, <1>3, <1>4, Zenon DEF Range

\* A query, stats or retention pass that has flushed sees what was accepted.
THEOREM FlushIsComplete == Spec => []FlushSeesAcceptedRows
<1>1. IInv => FlushSeesAcceptedRows
  <2> SUFFICES ASSUME IInv, NEW t \in Callers, pc[t] = "locked", ~werr,
                      wpc # "dead", NEW i \in 1..local[t], BeforeSentinel(i)
               PROVE  puts[i] \in Range(stored)
    BY DEF FlushSeesAcceptedRows
  <2>1. local[t] <= Len(puts) /\ i <= Len(stored)
    BY DEF IInv, Flushed
  <2>2. i \in 1..Len(puts)
    BY <2>1 DEF IInv, TypeOK
  <2> QED BY <2>1, <2>2, PrefixStored
<1> QED BY <1>1, AlwaysIInv, PTL

\* close() leaves no accepted row behind.
THEOREM CloseIsComplete == Spec => []CloseKeepsAcceptedRows
<1>1. IInv => CloseKeepsAcceptedRows
  <2> SUFFICES ASSUME IInv, pc[Closer] \in {"closeconn", "closed"}, ~werr,
                      wpc # "dead", NEW i \in 1..Len(puts), BeforeSentinel(i)
               PROVE  puts[i] \in Range(stored)
    BY DEF CloseKeepsAcceptedRows
  <2>1. wpc = "exited"
    BY DEF IInv, WriterShape
  <2>2. i <= Len(stored)
    BY <2>1, AllStored
  <2> QED BY <2>2, PrefixStored
<1> QED BY <1>1, AlwaysIInv, PTL

----------------------------------------------------------------------------
(* The database implements DurableLog.                                     *)

\* Rows that are not the sentinel.
Real(s) == \A i \in 1..Len(s) : s[i] # Sentinel

\* A batch holds rows only, at most BatchSize of them, has room while the
\* writer takes rows, and is not empty when it is committed.
Batches ==
    /\ Real(pending) /\ Real(stored)
    /\ Len(pending) <= BatchSize
    /\ wpc = "get" => Len(pending) < BatchSize
    /\ wpc \in {"commit", "lastcommit"} => pending # <<>>

\* Rows joined to rows are rows.
LEMMA RealJoined ==
    ASSUME NEW a \in Seq(Nat), NEW b \in Seq(Nat), Real(a), Real(b)
    PROVE  Real(a \o b)
<1> SUFFICES ASSUME NEW i \in 1..Len(a \o b) PROVE (a \o b)[i] # Sentinel
  BY DEF Real
<1>1. CASE i <= Len(a)
  BY <1>1 DEF Real
<1>2. CASE i > Len(a)
  <2>1. (a \o b)[i] = b[i - Len(a)] /\ i - Len(a) \in 1..Len(b)
    BY <1>2
  <2> QED BY <2>1 DEF Real
<1> QED BY <1>1, <1>2

\* A row more that is not the sentinel.
LEMMA RealAppend ==
    ASSUME NEW a \in Seq(Nat), NEW e \in Nat, Real(a), e # Sentinel
    PROVE  Real(Append(a, e))
BY DEF Real

\* The batches keep their bounds: the get loop commits a batch as soon as it
\* is full, and acknowledging it empties it.
LEMMA BatchesStep ==
    ASSUME IInv, Batches, CallerQueueStep \/ WriterStep
    PROVE  Batches'
<1>0. /\ queue \in Seq(Nat) /\ pending \in Seq(Nat) /\ stored \in Seq(Nat)
      /\ Len(pending) \in Nat /\ WriterShape /\ BatchSize \in Nat \ {0}
  BY EventStoreAssumption DEF IInv, TypeOK
<1>1. Real(<<>>) /\ Len(<<>>) = 0
  BY DEF Real
<1>2. CASE CallerQueueStep
  BY <1>2 DEF CallerQueueStep, writerVars, Batches, Real
<1>3. CASE WriterGet
  <2>1. /\ wpc = "get" /\ queue # <<>> /\ Head(queue) # Sentinel
        /\ pending' = Append(pending, Head(queue)) /\ stored' = stored
        /\ wpc' = IF Len(pending') >= BatchSize THEN "commit" ELSE "get"
    BY <1>3 DEF WriterGet
  <2>2. Head(queue) \in Nat
    BY <1>0, <2>1
  <2>3. Real(pending')
    BY <1>0, <2>1, <2>2, RealAppend DEF Batches
  <2>4. Len(pending') = Len(pending) + 1 /\ pending' # <<>>
    BY <1>0, <2>1, <2>2
  <2>5. Len(pending) < BatchSize
    BY <2>1 DEF Batches
  <2>6. Real(stored')
    BY <2>1 DEF Batches
  <2> QED BY <1>0, <2>1, <2>3, <2>4, <2>5, <2>6 DEF Batches
<1>4. CASE WriterCommit
  <2>1. Real(stored')
    BY <1>0, <1>4, RealJoined DEF WriterCommit, Batches
  <2> QED BY <1>4, <2>1 DEF WriterCommit, Batches
<1>5. CASE WriterAck \/ WriterFailAck
  <2>1. pending' = <<>> /\ stored' = stored
        /\ wpc' \in {"get", "lastack", "drain"}
    BY <1>5 DEF WriterAck, WriterFailAck
  <2>2. Real(stored') /\ Real(pending') /\ Len(pending') = 0
    BY <1>1, <2>1 DEF Batches
  <2> QED BY <1>0, <2>1, <2>2 DEF Batches
<1>6. CASE WriterConnect
  <2>1. pending = <<>>
    BY <1>0, <1>6 DEF WriterConnect, WriterShape
  <2>2. pending' = pending /\ stored' = stored /\ wpc' \in {"get", "dead"}
    BY <1>6 DEF WriterConnect
  <2>3. Len(pending) = 0
    BY <1>1, <2>1
  <2>4. Real(pending') /\ Real(stored')
    BY <2>2 DEF Batches
  <2> QED BY <1>0, <2>2, <2>3, <2>4 DEF Batches
<1>7. CASE WriterTimeout \/ WriterGetSentinel
  BY <1>7 DEF WriterTimeout, WriterGetSentinel, Batches, Real
<1>8. CASE WriterExit \/ WriterFail \/ WriterDrain \/ WriterDrained
  BY <1>8 DEF WriterExit, WriterFail, WriterDrain, WriterDrained, writerVars,
              Batches, Real
<1> QED BY <1>2, <1>3, <1>4, <1>5, <1>6, <1>7, <1>8 DEF WriterStep

\* Sequences of accepted rows: a longer prefix is what was there and a batch.
LEMMA LongerPrefix ==
    ASSUME NEW a \in Seq(Nat), NEW b \in Seq(Nat), NEW c \in Seq(Nat),
           NEW q \in Seq(Nat)
    PROVE  LET all == Pipeline(a, b, c, q)
           IN  /\ Len(a) + Len(b) <= Len(all)
               /\ SubSeq(all, 1, Len(a) + Len(b)) = a \o b
<1> DEFINE ab == a \o b
           rest == c \o q
           n == Len(a) + Len(b)
<1>1. ab \in Seq(Nat) /\ rest \in Seq(Nat) /\ Len(ab) = n
  OBVIOUS
<1> HIDE DEF rest
<1>2. Pipeline(a, b, c, q) = ab \o rest
  <2>1. (a \o b) \o rest = a \o (b \o rest)
    BY <1>1
  <2> QED BY <2>1, Zenon DEF Pipeline, rest
<1> HIDE DEF ab
<1>3. Len(ab \o rest) = Len(ab) + Len(rest) /\ ab \o rest \in Seq(Nat)
  BY <1>1, ConcatProperties, Zenon
<1>4. n \in Nat /\ Len(rest) \in Nat
  BY <1>1
<1>5. SubSeq(ab \o rest, 1, n) = ab
  <2>1. \A i \in 1..n : (ab \o rest)[i] = ab[i]
    BY <1>1, <1>4
  <2>2. /\ SubSeq(ab \o rest, 1, n) \in Seq(Nat)
        /\ Len(SubSeq(ab \o rest, 1, n)) = n
        /\ \A i \in 1..n : SubSeq(ab \o rest, 1, n)[i] = (ab \o rest)[i]
    BY <1>1, <1>3, <1>4
  <2> QED BY <1>1, <1>4, <2>1, <2>2, SeqEqual
<1> QED BY <1>2, <1>1, <1>3, <1>4, <1>5 DEF ab

\* The row appended is the last one.
LEMMA LastAppended ==
    \A s \in Seq(Nat), e \in Nat :
        /\ Append(s, e) # <<>> /\ Len(Append(s, e)) = Len(s) + 1
        /\ Append(s, e)[Len(s) + 1] = e
BY AppendProperties

\* Every step of the store is a step of DurableLog or leaves it alone.
LEMMA StepKeepsLog ==
    ASSUME IInv, Batches, CallerQueueStep \/ WriterStep
    PROVE  [Log!Next]_<<puts, stored, wpc \in {"failed", "drain", "exited", "dead"}>>
<1> DEFINE Sealed == wpc \in {"failed", "drain", "exited", "dead"}
<1>0. /\ queue \in Seq(Nat) /\ pending \in Seq(Nat) /\ stored \in Seq(Nat)
      /\ puts \in Seq(Nat) /\ WriterShape /\ BatchSize \in Nat \ {0}
      /\ Len(pending) \in Nat /\ Len(stored) \in Nat
      /\ Uncommitted \in Seq(Nat) /\ TakenSentinel \in Seq(Nat)
  BY EventStoreAssumption
     DEF IInv, TypeOK, Uncommitted, TakenSentinel, Sentinel
<1>1. CASE CallerQueueStep
  <2>1. stored' = stored /\ wpc' = wpc
    BY <1>1 DEF CallerQueueStep, writerVars
  <2>2. CASE UNCHANGED queueVars
    BY <2>1, <2>2 DEF queueVars
  <2>3. ASSUME NEW row \in Nat, Put(row) PROVE Log!Accept
    <3>1. puts' = Append(puts, row)
      BY <2>3 DEF Put
    <3>2. /\ Append(puts, row) # <<>> /\ Len(Append(puts, row)) = Len(puts) + 1
          /\ Append(puts, row)[Len(puts) + 1] = row
      BY <1>0, LastAppended
    <3>3. puts' # <<>> /\ puts'[Len(puts')] = row
      BY <3>1, <3>2, Zenon
    <3> QED BY <2>1, <3>1, <3>3 DEF Log!Accept
  <2> QED BY <1>1, <2>2, <2>3 DEF CallerQueueStep, Log!Next
<1>2. CASE WriterCommit
  <2>1. /\ wpc \in {"commit", "lastcommit"} /\ stored' = stored \o pending
        /\ wpc' \in {"ack", "lastbatchack"} /\ puts' = puts
    BY <1>2 DEF WriterCommit, queueVars
  <2>2. ~werr /\ Uncommitted = pending
    BY <1>0, <2>1 DEF WriterShape, Uncommitted
  <2>3. puts = Pipeline(stored, pending, TakenSentinel, queue)
    BY <2>2, Zenon DEF IInv, PutsReachDatabaseInOrder, Pipeline
  <2>4. /\ Len(stored) + Len(pending) <= Len(puts)
        /\ SubSeq(puts, 1, Len(stored) + Len(pending)) = stored \o pending
    BY <1>0, <2>3, LongerPrefix
  <2>5. pending # <<>> /\ Len(pending) <= BatchSize
    BY <2>1 DEF Batches
  <2>6. Len(pending) \in 1..BatchSize
    BY <1>0, <2>5
  <2>7. Real(stored \o pending)
    BY <1>0, RealJoined DEF Batches
  <2>8. \A i \in 1..Len(stored') : stored'[i] # Sentinel
    BY <2>1, <2>7 DEF Real
  <2>9. \E n \in 1..BatchSize : /\ Len(stored) + n <= Len(puts)
                                /\ stored' = SubSeq(puts, 1, Len(stored) + n)
    BY <2>1, <2>4, <2>6, Zenon
  <2>10. ~Sealed /\ Sealed' = Sealed
    BY <2>1
  <2> QED BY <2>1, <2>8, <2>9, <2>10 DEF Log!Next, Log!Commit
<1>3. CASE WriterStep /\ ~WriterCommit
  <2>1. puts' = puts /\ stored' = stored
    BY <1>3 DEF WriterStep, WriterConnect, WriterGet, WriterTimeout,
        WriterGetSentinel, WriterAck, WriterExit, WriterFail,
        WriterFailAck, WriterDrain, WriterDrained, queueVars, writerVars
  <2>2. Sealed => Sealed'
    BY <1>3 DEF WriterStep, WriterConnect, WriterGet, WriterTimeout,
        WriterGetSentinel, WriterAck, WriterExit, WriterFail,
        WriterFailAck, WriterDrain, WriterDrained, writerVars
  <2>3. CASE Sealed' = Sealed
    BY <2>1, <2>3
  <2>4. CASE ~Sealed /\ Sealed'
    BY <2>1, <2>4 DEF Log!Next, Log!Seal
  <2> QED BY <2>2, <2>3, <2>4
<1> QED BY <1>1, <1>2, <1>3

\* The bounds of the batches hold in every reachable state.
LEMMA AlwaysBatches == Spec => []Batches
<1>1. Init => Batches
  BY EventStoreAssumption DEF Init, Batches, Real
<1>2. IInv /\ Batches /\ [Next]_vars => Batches'
  BY StepKinds, BatchesStep DEF IInv
<1> QED BY <1>1, <1>2, AlwaysIInv, PTL DEF Spec

\* The store implements DurableLog: whatever the producers, the batching, a
\* failing writer and close() do, its database is a prefix of what append_row
\* has accepted, grows by whole batches and stops growing for good.
THEOREM StoreIsDurableLog == Spec => DatabaseIsPrefix
<1>1. Init => Log!Init
  BY DEF Init, Log!Init
<1>2. IInv /\ Batches /\ [Next]_vars =>
        [Log!Next]_<<puts, stored, wpc \in {"failed", "drain", "exited", "dead"}>>
  BY StepKinds, StepKeepsLog DEF IInv
<1> QED BY <1>1, <1>2, AlwaysIInv, AlwaysBatches, PTL
        DEF Spec, DatabaseIsPrefix, Log!Spec

\* What a reader of the database relies on, also after a failed batch: the
\* rows in it are the first ones accepted, none of them the sentinel.
THEOREM DatabaseHoldsPrefix == Spec => []Log!RowsArePrefix
<1> DEFINE logVars == <<puts, stored, wpc \in {"failed", "drain", "exited", "dead"}>>
<1>1. Init => Log!RowsArePrefix
  BY DEF Init, Log!RowsArePrefix
<1>2. TypeOK /\ TypeOK' /\ Log!RowsArePrefix /\ [Log!Next]_logVars => Log!RowsArePrefix'
  <2> SUFFICES ASSUME TypeOK, TypeOK', Log!RowsArePrefix, [Log!Next]_logVars
               PROVE  Log!RowsArePrefix'
    OBVIOUS
  <2>0. puts \in Seq(Nat) /\ stored \in Seq(Nat) /\ puts' \in Seq(Nat)
    BY DEF TypeOK
  <2>1. CASE Log!Accept
    <3>1. stored' = stored /\ puts' = Append(puts, puts'[Len(puts')])
          /\ puts' # <<>>
      BY <2>1 DEF Log!Accept
    <3>2. puts'[Len(puts')] \in Nat
      BY <2>0, <3>1
    <3>3. \A e \in Nat : /\ Len(Append(puts, e)) = Len(puts) + 1
                        /\ \A i \in 1..Len(puts) : Append(puts, e)[i] = puts[i]
      BY <2>0
    <3>4. /\ Len(puts') = Len(puts) + 1
          /\ \A i \in 1..Len(puts) : puts'[i] = puts[i]
      BY <3>1, <3>2, <3>3, Zenon
    <3> QED BY <2>0, <3>1, <3>4 DEF Log!RowsArePrefix
  <2>2. CASE Log!Commit
    <3>1. PICK n \in 1..BatchSize : /\ Len(stored) + n <= Len(puts)
                                    /\ stored' = SubSeq(puts, 1, Len(stored) + n)
      BY <2>2 DEF Log!Commit
    <3>2. puts' = puts /\ \A i \in 1..Len(stored') : stored'[i] # Sentinel
      BY <2>2 DEF Log!Commit
    <3>3. n \in Nat
      BY EventStoreAssumption
    <3>4. /\ Len(stored') = Len(stored) + n
          /\ \A i \in 1..Len(stored') : stored'[i] = puts[i]
      BY <2>0, <3>1, <3>3
    <3> QED BY <2>0, <3>1, <3>2, <3>4 DEF Log!RowsArePrefix
  <2>3. CASE Log!Seal \/ UNCHANGED logVars
    BY <2>3 DEF Log!Seal, Log!RowsArePrefix
  <2> QED BY <2>1, <2>2, <2>3 DEF Log!Next
<1>3. IInv /\ Batches /\ [Next]_vars => [Log!Next]_logVars
  BY StepKinds, StepKeepsLog DEF IInv
<1>4. IInv => TypeOK
  BY DEF IInv
<1> QED BY <1>1, <1>2, <1>3, <1>4, AlwaysIInv, AlwaysBatches, PTL DEF Spec
=============================================================================
