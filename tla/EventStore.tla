---------------------------- MODULE EventStore ----------------------------
(***************************************************************************)
(* The durable EventStore of q_core_agent/core/event_store.py with its     *)
(* SQLite backend: producer threads call append(), reader threads call     *)
(* query() or stats(), one thread calls close(), and the writer thread     *)
(* _SQLiteEventWriter._run moves rows from a bounded queue.Queue into the  *)
(* database in batches.                                                    *)
(*                                                                         *)
(* An event is the number of its creation; payloads, filters and clocks    *)
(* are abstracted: "is a report due yet" and "which rows are too old" are  *)
(* nondeterministic choices.                                               *)
(***************************************************************************)
EXTENDS Integers, Sequences, Functions

CONSTANTS
    Producers,      \* threads that call append()
    Readers,        \* threads that call query() / stats()
    Closer,         \* the thread that calls close()
    MaxLen,         \* maxlen of the in-memory ring
    QueueMax,       \* capacity of the writer's queue
    LagMark,        \* int(queue_max * 0.8), the depth that reports a lag
    BatchSize,      \* rows per transaction
    Strict,         \* the store's strict flag
    QuietClose,     \* whether close() is only called once the others are done
    WriterMayFail,  \* whether SQLite may raise in the writer thread
    MaxAppends      \* bound: number of append() calls

ASSUME EventStoreAssumption ==
    /\ QueueMax \in Nat \ {0}
    /\ BatchSize \in Nat \ {0}
    /\ MaxLen \in Nat \ {0}
    /\ LagMark \in Nat
    /\ MaxAppends \in Nat
    /\ Strict \in BOOLEAN
    /\ WriterMayFail \in BOOLEAN
    /\ QuietClose \in BOOLEAN
    /\ Closer \notin Producers \cup Readers
    /\ Producers \cap Readers = {}
    /\ "none" \notin Producers \cup Readers \cup {Closer}

VARIABLES
    ring,        \* self._events, the newest MaxLen events
    nextId,      \* the number of the next event
    appends,     \* append() calls so far (bound)
    queue,       \* writer._queue
    unfinished,  \* the queue's unfinished_tasks counter: join() waits for 0
    wpc,         \* where the writer thread is
    pending,     \* its local batch
    werr,        \* writer._error is not None
    writerOpen,  \* store._sqlite_writer is not None
    connOpen,    \* store._sqlite_conn is not None
    sqlLock,     \* owner of store._sqlite_lock, or NoOwner
    dropped,     \* store._sqlite_dropped
    pc,          \* where each caller is
    local,       \* its local: the event it appends, then, as history, Len(puts)
                 \* when it entered flush(); 0 outside both
    puts,        \* history: everything ever put in the queue, in order
    stored       \* history: rows committed, in commit order

storeVars  == <<ring, nextId, appends, dropped>>
queueVars  == <<queue, unfinished, puts>>
writerVars == <<wpc, pending, werr, stored>>
openVars   == <<writerOpen, connOpen>>
callerVars == <<pc, local>>
vars == <<storeVars, queueVars, writerVars, openVars, sqlLock, callerVars>>

Sentinel == 0                       \* the object that ends the writer
NoOwner  == "none"
Callers  == Producers \cup Readers \cup {Closer}

----------------------------------------------------------------------------
(* The in-memory ring and the bounded queue.                               *)

\* deque(maxlen): the oldest event is evicted by an append to a full ring.
Push(s, e) == IF Len(s) < MaxLen THEN Append(s, e) ELSE Append(Tail(s), e)

\* append_row: put_nowait, whose queue.Full is the answer FALSE.
CanPut == Len(queue) < QueueMax

Put(row) ==
    /\ queue' = Append(queue, row)
    /\ unfinished' = unfinished + 1
    /\ puts' = Append(puts, row)

\* _emit_lifecycle_event: into the ring, and best effort into the queue,
\* whatever the state of the writer.
EmitLifecycle ==
    /\ ring' = Push(ring, nextId)
    /\ nextId' = nextId + 1
    /\ IF writerOpen /\ CanPut THEN Put(nextId) ELSE UNCHANGED queueVars

\* Thread t goes on at a label, with v as its local.
Goto(t, label, v) ==
    /\ pc' = [pc EXCEPT ![t] = label]
    /\ local' = [local EXCEPT ![t] = v]

\* A caller may start a call; with QuietClose, none starts once close() has.
MayCall(t) == pc[t] = "idle" /\ (QuietClose => pc[Closer] = "idle")

----------------------------------------------------------------------------
(* append(), by producer p.                                                *)

\* _validate_event_contract accepts the event and the ring takes it.
AppendValid(p) ==
    /\ MayCall(p) /\ appends < MaxAppends
    /\ appends' = appends + 1
    /\ ring' = Push(ring, nextId)
    /\ nextId' = nextId + 1
    /\ Goto(p, "check", nextId)
    /\ UNCHANGED <<queueVars, writerVars, openVars, sqlLock, dropped>>

\* It refuses the event: strict mode raises and changes nothing, otherwise
\* an EVENTSTORE_DROP report replaces the event.
AppendInvalid(p) ==
    /\ MayCall(p) /\ appends < MaxAppends /\ ~Strict
    /\ appends' = appends + 1
    /\ EmitLifecycle
    /\ UNCHANGED <<writerVars, openVars, sqlLock, dropped, callerVars>>

\* _append_sqlite looks at the writer and at its last error.
CheckWriter(p) ==
    /\ pc[p] = "check"
    /\ IF writerOpen /\ ~werr THEN Goto(p, "put", local[p])
       ELSE Goto(p, IF writerOpen /\ Strict THEN "idle" ELSE "retain", 0)
    /\ UNCHANGED <<storeVars, queueVars, writerVars, openVars, sqlLock>>

\* ... then enqueues the row.
PutRow(p) ==
    /\ pc[p] = "put" /\ writerOpen /\ CanPut
    /\ Put(local[p])
    /\ Goto(p, "lag", 0)
    /\ UNCHANGED <<storeVars, writerVars, openVars, sqlLock>>

\* A full queue refuses it: strict mode raises.
PutRefused(p) ==
    /\ pc[p] = "put" /\ writerOpen /\ ~CanPut
    /\ dropped' = dropped + 1
    /\ Goto(p, IF Strict THEN "idle" ELSE "overflow", 0)
    /\ UNCHANGED <<ring, nextId, appends, queueVars, writerVars, openVars,
                   sqlLock>>

\* A close() since the check has set the writer to None: the attribute
\* access raises and append() ends there.
PutAfterClose(p) ==
    /\ pc[p] = "put" /\ ~writerOpen
    /\ Goto(p, "idle", 0)
    /\ UNCHANGED <<storeVars, queueVars, writerVars, openVars, sqlLock>>

\* _maybe_emit_write_lag: at most one report a second, at LagMark or above.
ReportLag(p) ==
    /\ pc[p] = "lag" /\ writerOpen /\ Len(queue) >= LagMark
    /\ EmitLifecycle
    /\ Goto(p, "retain", 0)
    /\ UNCHANGED <<appends, dropped, writerVars, openVars, sqlLock>>

\* The overflow branch of _append_sqlite: at most one report a second; the
\* report carries the drops counted since the last one.
ReportDrops(p) ==
    /\ pc[p] = "overflow"
    /\ dropped' = 0
    /\ EmitLifecycle
    /\ Goto(p, "retain", 0)
    /\ UNCHANGED <<appends, writerVars, openVars, sqlLock>>

SkipReport(p) ==
    /\ pc[p] \in {"lag", "overflow"}
    /\ Goto(p, "retain", 0)
    /\ UNCHANGED <<storeVars, queueVars, writerVars, openVars, sqlLock>>

\* _maybe_run_retention: no connection, no retention.
Retain(p) ==
    /\ pc[p] = "retain"
    /\ Goto(p, IF connOpen THEN "acquire" ELSE "idle", 0)
    /\ UNCHANGED <<storeVars, queueVars, writerVars, openVars, sqlLock>>

\* The retention period is looked at under the lock: not due, it is given back.
RetentionNotDue(p) ==
    /\ pc[p] = "acquire" /\ p \in Producers /\ sqlLock = NoOwner
    /\ Goto(p, "idle", 0)
    /\ UNCHANGED <<storeVars, queueVars, writerVars, openVars, sqlLock>>

\* Mutant: the lock is not released when the DELETE raises.
DeleteRows_LeakLock(p) ==
    /\ pc[p] = "locked" /\ p \in Producers
    /\ sqlLock' = IF connOpen THEN NoOwner ELSE sqlLock
    /\ Goto(p, IF connOpen THEN "emit" ELSE "idle", 0)
    /\ UNCHANGED <<storeVars, queueVars, writerVars, openVars>>

\* The DELETEs (which rows are too old no property tells apart), then the
\* lock is released; a connection closed meanwhile raises out of append().
DeleteRows(p) ==
    /\ pc[p] = "locked" /\ p \in Producers
    /\ sqlLock' = NoOwner
    /\ Goto(p, IF connOpen THEN "emit" ELSE "idle", 0)
    /\ UNCHANGED <<storeVars, queueVars, writerVars, openVars>>

ReportRetention(p) ==
    /\ pc[p] = "emit"
    /\ EmitLifecycle
    /\ Goto(p, "idle", 0)
    /\ UNCHANGED <<appends, dropped, writerVars, openVars, sqlLock>>

----------------------------------------------------------------------------
(* Taking the lock and waiting for the queue: retention, query, stats.     *)

\* query() and stats() start when there is a connection.
BeginQuery(r) ==
    /\ MayCall(r) /\ connOpen
    /\ Goto(r, "acquire", 0)
    /\ UNCHANGED <<storeVars, queueVars, writerVars, openVars, sqlLock>>

\* with self._sqlite_lock: self._flush_sqlite_writer() ...
EnterFlush(t) ==
    /\ pc[t] = "acquire" /\ sqlLock = NoOwner
    /\ sqlLock' = t
    /\ Goto(t, IF writerOpen THEN "flush" ELSE "locked", Len(puts))
    /\ UNCHANGED <<storeVars, queueVars, writerVars, openVars>>

\* ... whose queue.join() returns when every task is done.
FlushDone(t) ==
    /\ pc[t] = "flush" /\ unfinished = 0
    /\ Goto(t, "locked", local[t])
    /\ UNCHANGED <<storeVars, queueVars, writerVars, openVars, sqlLock>>

\* SELECT ... and release the lock (also when the connection is gone and the
\* call raises).
Select(r) ==
    /\ pc[r] = "locked" /\ r \in Readers
    /\ sqlLock' = NoOwner
    /\ Goto(r, "idle", 0)
    /\ UNCHANGED <<storeVars, queueVars, writerVars, openVars>>

----------------------------------------------------------------------------
(* close(): flush, sentinel, join the thread, close the connection.        *)

BeginClose ==
    /\ pc[Closer] = "idle"
    /\ QuietClose => \A t \in Callers : pc[t] = "idle"
    /\ Goto(Closer, "closeflush", Len(puts))
    /\ UNCHANGED <<storeVars, queueVars, writerVars, openVars, sqlLock>>

CloseFlushed ==
    /\ pc[Closer] = "closeflush" /\ unfinished = 0
    /\ Goto(Closer, "sentinel", local[Closer])
    /\ UNCHANGED <<storeVars, queueVars, writerVars, openVars, sqlLock>>

\* put_nowait, or a put that waits for room.
PutSentinel ==
    /\ pc[Closer] = "sentinel" /\ CanPut
    /\ Put(Sentinel)
    /\ Goto(Closer, "join", local[Closer])
    /\ UNCHANGED <<storeVars, writerVars, openVars, sqlLock>>

\* Strict mode raises the writer's error and leaves the connection open.
JoinWriter ==
    /\ pc[Closer] = "join" /\ wpc \in {"exited", "dead"}
    /\ writerOpen' = FALSE
    /\ Goto(Closer, IF werr /\ Strict THEN "closed" ELSE "closeconn",
            local[Closer])
    /\ UNCHANGED <<storeVars, queueVars, writerVars, connOpen, sqlLock>>

CloseConn ==
    /\ pc[Closer] = "closeconn" /\ sqlLock = NoOwner
    /\ connOpen' = FALSE
    /\ Goto(Closer, "closed", local[Closer])
    /\ UNCHANGED <<storeVars, queueVars, writerVars, writerOpen, sqlLock>>

----------------------------------------------------------------------------
(* The writer thread, _run.                                                *)

storeSide == <<storeVars, openVars, sqlLock, callerVars>>

\* connect and the PRAGMAs stand before the try: an error there ends the
\* thread with _error still None.
WriterConnect ==
    /\ wpc = "start"
    /\ wpc' \in IF WriterMayFail THEN {"get", "dead"} ELSE {"get"}
    /\ UNCHANGED <<storeSide, queueVars, pending, werr, stored>>

\* Mutant: task_done() as soon as the row is taken, not after the commit.
WriterGet_DoneAtGet ==
    /\ wpc = "get" /\ queue # <<>> /\ Head(queue) # Sentinel
    /\ queue' = Tail(queue)
    /\ unfinished' = unfinished - 1
    /\ pending' = Append(pending, Head(queue))
    /\ wpc' = IF Len(pending') >= BatchSize THEN "commit" ELSE "get"
    /\ UNCHANGED <<storeSide, puts, werr, stored>>

\* A row joins the batch; a full batch is committed.
WriterGet ==
    /\ wpc = "get" /\ queue # <<>> /\ Head(queue) # Sentinel
    /\ queue' = Tail(queue)
    /\ pending' = Append(pending, Head(queue))
    /\ wpc' = IF Len(pending') >= BatchSize THEN "commit" ELSE "get"
    /\ UNCHANGED <<storeSide, unfinished, puts, werr, stored>>

\* Mutant: the "or item is None" of the batch test forgotten, a partial batch
\* waits for more rows.
WriterTimeout_OnlyFull ==
    /\ wpc = "get" /\ queue = <<>> /\ Len(pending) >= BatchSize
    /\ wpc' = "commit"
    /\ UNCHANGED <<storeSide, queueVars, pending, werr, stored>>

\* The get times out on an empty queue: the partial batch is committed.
WriterTimeout ==
    /\ wpc = "get" /\ queue = <<>> /\ pending # <<>>
    /\ wpc' = "commit"
    /\ UNCHANGED <<storeSide, queueVars, pending, werr, stored>>

\* Mutant: the sentinel ends the loop without the last insert.
WriterGetSentinel_NoLastInsert ==
    /\ wpc = "get" /\ queue # <<>> /\ Head(queue) = Sentinel
    /\ queue' = Tail(queue)
    /\ unfinished' = unfinished - Len(pending)
    /\ pending' = <<>>
    /\ wpc' = "lastack"
    /\ UNCHANGED <<storeSide, puts, werr, stored>>

WriterGetSentinel ==
    /\ wpc = "get" /\ queue # <<>> /\ Head(queue) = Sentinel
    /\ queue' = Tail(queue)
    /\ wpc' = IF pending # <<>> THEN "lastcommit" ELSE "lastack"
    /\ UNCHANGED <<storeSide, unfinished, puts, pending, werr, stored>>

\* _insert_many: one transaction.
WriterCommit ==
    /\ wpc \in {"commit", "lastcommit"}
    /\ stored' = stored \o pending
    /\ wpc' = IF wpc = "commit" THEN "ack" ELSE "lastbatchack"
    /\ UNCHANGED <<storeSide, queueVars, pending, werr>>

\* Mutant: a partial batch is acknowledged as a full one.
WriterAck_FullBatch ==
    /\ wpc \in {"ack", "lastbatchack"}
    /\ unfinished' = unfinished - BatchSize
    /\ pending' = <<>>
    /\ wpc' = IF wpc = "ack" THEN "get" ELSE "lastack"
    /\ UNCHANGED <<storeSide, queue, puts, werr, stored>>

\* Mutant: the batch is kept after its commit.
WriterAck_KeepsBatch ==
    /\ wpc \in {"ack", "lastbatchack"}
    /\ unfinished' = unfinished - Len(pending)
    /\ wpc' = IF wpc = "ack" THEN "get" ELSE "lastack"
    /\ UNCHANGED <<storeSide, queue, puts, pending, werr, stored>>

\* task_done() for each row of the batch (join() only sees the counter at 0,
\* so the loop is one step).
WriterAck ==
    /\ wpc \in {"ack", "lastbatchack"}
    /\ unfinished' = unfinished - Len(pending)
    /\ pending' = <<>>
    /\ wpc' = IF wpc = "ack" THEN "get" ELSE "lastack"
    /\ UNCHANGED <<storeSide, queue, puts, werr, stored>>

\* Mutant: the break after the sentinel forgotten.
WriterExit_NoBreak ==
    /\ wpc = "lastack"
    /\ unfinished' = unfinished - 1
    /\ wpc' = "get"
    /\ UNCHANGED <<storeSide, queue, puts, pending, werr, stored>>

\* task_done() for the sentinel, and the end of the thread.
WriterExit ==
    /\ wpc = "lastack"
    /\ unfinished' = unfinished - 1
    /\ wpc' = "exited"
    /\ UNCHANGED <<storeSide, queue, puts, pending, werr, stored>>

\* _insert_many raises: nothing of the batch is committed.
WriterFail ==
    /\ WriterMayFail /\ wpc \in {"commit", "lastcommit"}
    /\ werr' = TRUE
    /\ wpc' = "failed"
    /\ UNCHANGED <<storeSide, queueVars, pending, stored>>

\* Mutant: the loop goes on after the batch it has lost.
WriterFailAck_GoesOn ==
    /\ wpc = "failed"
    /\ unfinished' = unfinished - Len(pending)
    /\ pending' = <<>>
    /\ wpc' = "get"
    /\ UNCHANGED <<storeSide, queue, puts, werr, stored>>

WriterFailAck ==
    /\ wpc = "failed"
    /\ unfinished' = unfinished - Len(pending)
    /\ pending' = <<>>
    /\ wpc' = "drain"
    /\ UNCHANGED <<storeSide, queue, puts, werr, stored>>

\* The except branch empties the queue and the thread ends.
WriterDrain ==
    /\ wpc = "drain" /\ queue # <<>>
    /\ queue' = Tail(queue)
    /\ unfinished' = unfinished - 1
    /\ UNCHANGED <<storeSide, puts, writerVars>>

WriterDrained ==
    /\ wpc = "drain" /\ queue = <<>>
    /\ wpc' = "exited"
    /\ UNCHANGED <<storeSide, queueVars, pending, werr, stored>>

----------------------------------------------------------------------------
\* __init__: the database is open, the writer thread started and the report
\* EVENTSTORE_DB_OPENED is event 1.
Init ==
    /\ ring = <<1>> /\ nextId = 2 /\ appends = 0
    /\ queue = <<1>> /\ unfinished = 1 /\ puts = <<1>>
    /\ wpc = "start" /\ pending = <<>> /\ werr = FALSE
    /\ writerOpen = TRUE /\ connOpen = TRUE /\ sqlLock = NoOwner
    /\ dropped = 0
    /\ stored = <<>>
    /\ pc = [t \in Callers |-> "idle"]
    /\ local = [t \in Callers |-> 0]

\* What a producer does after it has entered append().
ProducerStep(p) ==
    \/ CheckWriter(p) \/ PutRow(p) \/ PutRefused(p) \/ PutAfterClose(p)
    \/ ReportLag(p) \/ ReportDrops(p) \/ SkipReport(p)
    \/ Retain(p) \/ RetentionNotDue(p) \/ DeleteRows(p) \/ ReportRetention(p)
    \/ EnterFlush(p) \/ FlushDone(p)

ReaderStep(r) == EnterFlush(r) \/ FlushDone(r) \/ Select(r)

CloserStep == CloseFlushed \/ PutSentinel \/ JoinWriter \/ CloseConn

WriterStep ==
    \/ WriterConnect \/ WriterGet \/ WriterTimeout \/ WriterGetSentinel
    \/ WriterCommit \/ WriterAck \/ WriterExit
    \/ WriterFail \/ WriterFailAck \/ WriterDrain \/ WriterDrained

Next ==
    \/ \E p \in Producers : AppendValid(p) \/ AppendInvalid(p) \/ ProducerStep(p)
    \/ \E r \in Readers : BeginQuery(r) \/ ReaderStep(r)
    \/ BeginClose \/ CloserStep
    \/ WriterStep

Spec == Init /\ [][Next]_vars

\* Threads that are in a call keep running; nobody has to make a call.
Fairness ==
    /\ WF_vars(WriterStep)
    /\ \A p \in Producers : WF_vars(ProducerStep(p))
    /\ \A r \in Readers : WF_vars(ReaderStep(r))
    /\ WF_vars(CloserStep)

FairSpec == Spec /\ Fairness

----------------------------------------------------------------------------
(* Properties.                                                             *)

WriterLabels == {"start", "get", "commit", "ack", "lastcommit", "lastbatchack",
                 "lastack", "failed", "drain", "exited", "dead"}
CallerLabels == {"idle", "check", "put", "lag", "overflow", "retain",
                 "acquire", "flush", "locked", "emit", "closeflush",
                 "sentinel", "join", "closeconn", "closed"}

\* Every variable stays within its type; in particular the counter behind
\* join() never goes below 0, which Queue.task_done() answers with ValueError.
TypeOK ==
    /\ ring \in Seq(Nat) /\ nextId \in Nat \ {0} /\ appends \in Nat
    /\ queue \in Seq(Nat) /\ unfinished \in Nat /\ puts \in Seq(Nat)
    /\ wpc \in WriterLabels /\ pending \in Seq(Nat) /\ werr \in BOOLEAN
    /\ writerOpen \in BOOLEAN /\ connOpen \in BOOLEAN
    /\ sqlLock \in Callers \cup {NoOwner}
    /\ dropped \in Nat /\ stored \in Seq(Nat)
    /\ pc \in [Callers -> CallerLabels]
    /\ local \in [Callers -> Nat]

\* The rows the writer has taken and not yet committed, the sentinel once it
\* has taken it, and the task_done() it owes for it.
Uncommitted == IF wpc \in {"ack", "lastbatchack"} THEN <<>> ELSE pending
TakenSentinel == IF wpc \in {"lastcommit", "lastbatchack", "lastack", "exited"}
                 THEN <<Sentinel>> ELSE <<>>
SentinelUnacked == IF wpc \in {"lastcommit", "lastbatchack", "lastack"}
                   THEN 1 ELSE 0

\* As long as SQLite raises nothing, no accepted row is lost, duplicated or
\* reordered between append_row and the database, whatever the batching and
\* the interleaving of producers: what was put is what was committed,
\* followed by what the writer holds, followed by what is queued.
PutsReachDatabaseInOrder ==
    ~werr => puts = stored \o (Uncommitted \o (TakenSentinel \o queue))

\* Whatever fails, the database is at any time a prefix of the accepted rows
\* that grows by one batch per transaction, and after an error, or behind the
\* sentinel of close(), nothing is written any more: DurableLog, where the
\* writer that has failed or ended has sealed the log.
Log == INSTANCE DurableLog
    WITH Opened <- 1, End <- Sentinel, Batch <- BatchSize, log <- puts,
         rows <- stored, sealed <- wpc \in {"failed", "drain", "exited", "dead"}

DatabaseIsPrefix == Log!Spec

\* queue.join() may be trusted: the counter it waits on is exactly the
\* number of rows queued or held by the writer (and the sentinel in hand).
JoinCounterExact ==
    ~werr => unfinished = Len(queue) + Len(pending) + SentinelUnacked

\* Row i was put before any sentinel.
BeforeSentinel(i) == \A j \in 1..i : puts[j] # Sentinel

\* A query(), stats() or retention pass that has flushed sees every row that
\* was accepted before it took the lock (unless the writer failed, or the
\* row was queued behind the sentinel of a concurrent close()).
FlushSeesAcceptedRows ==
    \A t \in Callers :
        (pc[t] = "locked" /\ ~werr /\ wpc # "dead") =>
            \A i \in 1..local[t] : BeforeSentinel(i) => puts[i] \in Range(stored)

\* Once close() has joined the writer, every row accepted before the sentinel
\* is in the database, those accepted during close()'s own flush included,
\* unless the writer failed.
CloseKeepsAcceptedRows ==
    (pc[Closer] \in {"closeconn", "closed"} /\ ~werr /\ wpc # "dead") =>
        \A i \in 1..Len(puts) : BeforeSentinel(i) => puts[i] \in Range(stored)

\* The database lock is held exactly by the caller that flushes, deletes or
\* selects: no path out of append(), query() or stats() leaks it.
LockOwnerInside ==
    \A t \in Callers : (sqlLock = t) <=> (pc[t] \in {"flush", "locked"})

\* Every flush() returns: append() with retention due, query() and stats()
\* never wait for ever.
FlushReturns == \A t \in Callers : pc[t] = "flush" ~> pc[t] # "flush"

\* close() returns.
CloseReturns == pc[Closer] = "closeflush" ~> pc[Closer] = "closed"

\* "drain queue so producers are not blocked forever": once the writer has
\* failed, drained the queue and ended, no producer waits in flush() for ever.
DrainUnblocksProducers ==
    \A p \in Producers :
        (pc[p] = "flush" /\ wpc = "exited" /\ werr) ~> pc[p] # "flush"
=============================================================================
