------------------------ MODULE SessionServerProofs ------------------------
(***************************************************************************)
(* SessionServer implements ControlLease, for any set of clients and       *)
(* connections, any policy, lease length and age of a clock value.         *)
(*                                                                         *)
(* The argument. Three things decide who has control: a request, a         *)
(* heartbeat and the grant to the next in the queue. A request sees a      *)
(* lease as over only with a clock value not newer than now, so it is      *)
(* over; a grant from the queue looks again whether control is free. That  *)
(* a thread in such a section has a client to work on is part of           *)
(* StateTypes, which is inductive.                                         *)
(***************************************************************************)
EXTENDS SessionServer, PruningProofs, SequenceTheorems, TLAPS

JobType == [at : Labels, id : Ids \cup {NoId}, age : 0..MaxAge]

\* A job that may follow a step: well typed, and with a client if it needs one.
GoodJob(j) == j \in JobType /\ (j.at \in ForClient => j.id \in Ids)

\* A deadline computed from an earlier clock value gives at most a lease.
LEMMA LeaseFromRange ==
    ASSUME NEW a \in 0..MaxAge
    PROVE  LeaseFrom(a) \in Floor..Lease
  BY SessionAssumption DEF SessionAssumption, LeaseFrom, Floor

\* A new section: its job is good if its label is and it has its client.
LEMMA GoodNewJob ==
    ASSUME NEW label \in Labels, NEW id \in Ids \cup {NoId},
           label \in ForClient => id \in Ids
    PROVE  GoodJob(Job(label, id))
  BY SessionAssumption DEF SessionAssumption, GoodJob, JobType, Job

\* Replacing the job of one thread by a good one keeps all jobs good.
LEMMA JobsStay ==
    ASSUME StateTypes, NEW th \in Threads, NEW j, GoodJob(j),
           job' = [job EXCEPT ![th] = j]
    PROVE  /\ job' \in [Threads -> JobType]
           /\ \A t \in Threads : job'[t].at \in ForClient => job'[t].id \in Ids
  BY DEF StateTypes, GoodJob, JobType

\* A thread begins a section.
LEMMA BeginGood ==
    ASSUME StateTypes, NEW th \in Threads, NEW label \in Labels,
           NEW id \in Ids \cup {NoId}, label \in ForClient => id \in Ids,
           Begin(th, label, id)
    PROVE  /\ job' \in [Threads -> JobType]
           /\ \A t \in Threads : job'[t].at \in ForClient => job'[t].id \in Ids
  <1>1. GoodJob(Job(label, id))
    BY GoodNewJob
  <1> QED BY <1>1, JobsStay DEF Begin

\* A routine returns.
LEMMA FinishGood ==
    ASSUME StateTypes, NEW th \in Threads, Finish(th)
    PROVE  /\ open' \in [Conns -> BOOLEAN]
           /\ job' \in [Threads -> JobType]
           /\ \A t \in Threads : job'[t].at \in ForClient => job'[t].id \in Ids
  <1>1. "done" \in Labels /\ "idle" \in Labels
        /\ "done" \notin ForClient /\ "idle" \notin ForClient
    BY DEF Labels, ForClient
  <1>2. open' \in [Conns -> BOOLEAN]
    BY DEF Finish, StateTypes
  <1>3. Begin(th, "done", NoId) \/ Begin(th, "idle", NoId)
    BY DEF Finish
  <1> QED BY <1>1, <1>2, <1>3, BeginGood

\* Control is taken away.
LEMMA TakeAwayGood ==
    ASSUME StateTypes, NEW th \in Threads, TakeControlAway(th)
    PROVE  /\ open' \in [Conns -> BOOLEAN]
           /\ job' \in [Threads -> JobType]
           /\ \A t \in Threads : job'[t].at \in ForClient => job'[t].id \in Ids
           /\ controller' = NoId /\ left' = Floor /\ left' \in Floor..Lease
  <1>1. controller' = NoId /\ left' = Floor /\ left' \in Floor..Lease
    BY SessionAssumption DEF SessionAssumption, TakeControlAway, Floor
  <1>2. CASE Policy = "queue"
    <2>1. "take" \in Labels /\ "take" \notin ForClient
      BY DEF Labels, ForClient
    <2>2. Begin(th, "take", NoId) /\ UNCHANGED open
      BY <1>2 DEF TakeControlAway
    <2> QED BY <1>1, <2>1, <2>2, BeginGood DEF StateTypes
  <1>3. CASE Policy # "queue"
    <2>1. Finish(th)
      BY <1>3 DEF TakeControlAway
    <2> QED BY <1>1, <2>1, FinishGood
  <1> QED BY <1>2, <1>3

\* The thread stays with the client it works on.
LEMMA GotoGood ==
    ASSUME StateTypes, NEW th \in Threads, NEW label \in Labels,
           job[th].id \in Ids, Goto(th, label)
    PROVE  /\ job' \in [Threads -> JobType]
           /\ \A t \in Threads : job'[t].at \in ForClient => job'[t].id \in Ids
  BY BeginGood DEF Goto

\* The type of a thread's job, and of its client in a section about one.
LEMMA JobOf ==
    ASSUME StateTypes, NEW th \in Threads
    PROVE  /\ job[th] \in JobType
           /\ job[th].at \in ForClient => job[th].id \in Ids
           /\ job[th].age \in 0..MaxAge
           /\ job[th].id \in Ids \cup {NoId}
  BY DEF StateTypes, JobType

\* Every kind of thread is a thread; no client id is NoId.
LEMMA Kinds ==
    /\ Conns \subseteq Threads /\ Senders \subseteq Threads
    /\ LeaseThread \in Threads /\ NoId \notin Ids
    /\ \A k \in Conns : ClientOf[k] \in Ids
  BY SessionAssumption DEF SessionAssumption, Threads

----------------------------------------------------------------------------
\* The types hold in the initial state.
LEMMA InitTypes == Init => StateTypes
  <1> SUFFICES ASSUME Init PROVE StateTypes
    OBVIOUS
  <1>1. left \in Floor..Lease /\ 0 \in 0..MaxViolations
    BY SessionAssumption DEF SessionAssumption, Init, Floor
  <1>2. \A th \in Threads : GoodJob(job[th])
    <2>1. {"new", "idle"} \subseteq Labels /\ "new" \notin ForClient
          /\ "idle" \notin ForClient
      BY DEF Labels, ForClient
    <2>2. GoodJob(Job("new", NoId)) /\ GoodJob(Job("idle", NoId))
      BY <2>1, GoodNewJob
    <2> QED BY <2>2 DEF Init
  <1>3. job \in [Threads -> JobType]
    BY <1>2 DEF Init, GoodJob
  <1> QED BY <1>1, <1>2, <1>3 DEF Init, StateTypes, GoodJob, JobType

\* The actions of a connection's thread keep the types.
LEMMA ServeTypes ==
    ASSUME StateTypes, NEW k \in Conns,
           \/ Connect(k) \/ Register(k) \/ Receive(k) \/ Heartbeat(k)
           \/ Request(k) \/ Ban(k) \/ Disconnect(k) \/ CheckInput(k)
           \/ ApplyInput(k) \/ EndLoop(k) \/ HangUp(k)
    PROVE  StateTypes'
  <1> USE SessionAssumption
  <1>a. k \in Threads /\ ClientOf[k] \in Ids
    BY Kinds
  <1>b. /\ {"done", "idle", "hello", "pop", "apply", "disconnect"} \subseteq Labels
        /\ {"heartbeat", "request", "release", "input", "admingrant", "ban"}
             \subseteq Labels \cap ForClient
        /\ {"hello", "pop", "apply", "disconnect"} \subseteq ForClient
        /\ "done" \notin ForClient /\ "idle" \notin ForClient
    BY DEF Labels, ForClient, Clocked
  <1>c. NoId \in Ids \cup {NoId} /\ Ids \subseteq Ids \cup {NoId}
    OBVIOUS
  <1>d. job[k].at \in ForClient => job[k].id \in Ids
    BY <1>a, JobOf
  <1>1. CASE Connect(k)
    <2>1. Begin(k, "done", NoId) \/ Begin(k, "hello", ClientOf[k])
      BY <1>1 DEF Connect
    <2>2. /\ job' \in [Threads -> JobType]
          /\ \A t \in Threads : job'[t].at \in ForClient => job'[t].id \in Ids
      BY <1>a, <1>b, <1>c, <2>1, BeginGood
    <2>3. open' \in [Conns -> BOOLEAN]
      BY <1>1 DEF Connect, StateTypes
    <2> QED BY <1>1, <2>2, <2>3 DEF Connect, StateTypes, control, registry, JobType
  <1>2. CASE Register(k)
    <2>1. /\ job' \in [Threads -> JobType]
          /\ \A t \in Threads : job'[t].at \in ForClient => job'[t].id \in Ids
      BY <1>a, <1>b, <1>c, <1>2, BeginGood DEF Register
    <2>2. clients' \in [Ids -> Conns \cup {NoConn}]
      BY <1>2 DEF Register, StateTypes
    <2> QED BY <1>2, <2>1, <2>2 DEF Register, StateTypes, control, JobType
  <1>3. CASE Receive(k)
    <2>1. \E m \in {"heartbeat", "request", "release", "input", "admingrant", "ban"},
             id \in Ids : Begin(k, m, id)
      BY <1>a, <1>3 DEF Receive
    <2>2. /\ job' \in [Threads -> JobType]
          /\ \A t \in Threads : job'[t].at \in ForClient => job'[t].id \in Ids
      BY <1>a, <1>b, <1>c, <2>1, BeginGood
    <2> QED BY <1>3, <2>2 DEF Receive, StateTypes, control, registry, JobType
  <1>4. CASE Heartbeat(k)
    <2>1. left' \in Floor..Lease
      BY <1>a, <1>4, JobOf, LeaseFromRange DEF Heartbeat, StateTypes
    <2> QED BY <1>a, <1>4, <2>1, FinishGood
            DEF Heartbeat, StateTypes, registry, JobType
  <1>5. CASE Request(k)
    <2>1. job[k].id \in Ids
      BY <1>b, <1>d, <1>5 DEF Request
    <2>2. LeaseFrom(job[k].age) \in Floor..Lease
      BY <1>a, JobOf, LeaseFromRange
    <2>3. controller' \in Ids \cup {NoId} /\ left' \in Floor..Lease
      BY <1>5, <2>1, <2>2 DEF Request, StateTypes, control
    <2> QED BY <1>a, <1>5, <2>3, FinishGood DEF Request, StateTypes, registry, JobType
  <1>6. CASE Ban(k)
    <2>1. job[k].id \in Ids
      BY <1>b, <1>d, <1>6 DEF Ban
    <2>2. /\ job' \in [Threads -> JobType]
          /\ \A t \in Threads : job'[t].at \in ForClient => job'[t].id \in Ids
      BY <1>a, <1>b, <1>6, <2>1, GotoGood DEF Ban
    <2> QED BY <1>6, <2>1, <2>2 DEF Ban, StateTypes, control, JobType
  <1>7. CASE Disconnect(k)
    <2>1. job[k].id \in Ids
      BY <1>b, <1>d, <1>7 DEF Disconnect
    <2>2. /\ open' \in [Conns -> BOOLEAN]
          /\ job' \in [Threads -> JobType]
          /\ \A t \in Threads : job'[t].at \in ForClient => job'[t].id \in Ids
      <3>1. CASE clients[job[k].id] = NoConn
        BY <1>a, <1>7, <3>1, FinishGood DEF Disconnect
      <3>2. CASE clients[job[k].id] # NoConn
        <4>1. Goto(k, "pop") /\ open' = [open EXCEPT ![clients[job[k].id]] = FALSE]
          BY <1>7, <3>2 DEF Disconnect
        <4>2. open' \in [Conns -> BOOLEAN]
          BY <4>1 DEF StateTypes
        <4> QED BY <1>a, <1>b, <2>1, <4>1, <4>2, GotoGood
      <3> QED BY <3>1, <3>2
    <2> QED BY <1>7, <2>2 DEF Disconnect, StateTypes, control, registry, JobType
  <1>8. CASE CheckInput(k)
    <2>1. job[k].id \in Ids
      BY <1>b, <1>d, <1>8 DEF CheckInput, RefuseViewer
    <2>2. \/ \E m \in {"pop", "apply", "disconnect"} : Goto(k, m)
          \/ Begin(k, "idle", NoId)
      BY <1>8 DEF CheckInput, RefuseViewer
    <2>3. /\ job' \in [Threads -> JobType]
          /\ \A t \in Threads : job'[t].at \in ForClient => job'[t].id \in Ids
      <3>1. ASSUME NEW m \in {"pop", "apply", "disconnect"}, Goto(k, m)
            PROVE  /\ job' \in [Threads -> JobType]
                   /\ \A t \in Threads : job'[t].at \in ForClient => job'[t].id \in Ids
        BY <1>a, <1>b, <2>1, <3>1, GotoGood
      <3>2. CASE Begin(k, "idle", NoId)
        BY <1>a, <1>b, <1>c, <3>2, BeginGood
      <3> QED BY <2>2, <3>1, <3>2
    <2>4. violations' \in [Conns -> 0..MaxViolations]
      BY <1>8 DEF CheckInput, RefuseViewer, StateTypes
    <2>5. ending' \in [Conns -> BOOLEAN]
      BY <1>8 DEF CheckInput, RefuseViewer, StateTypes
    <2> QED BY <1>8, <2>3, <2>4, <2>5
            DEF CheckInput, RefuseViewer, StateTypes, control, registry, JobType
  <1>9. CASE ApplyInput(k)
    <2>1. /\ job' \in [Threads -> JobType]
          /\ \A t \in Threads : job'[t].at \in ForClient => job'[t].id \in Ids
      BY <1>a, <1>b, <1>c, <1>9, BeginGood DEF ApplyInput
    <2> QED BY <1>9, <2>1 DEF ApplyInput, StateTypes, control, registry, JobType
  <1>10. CASE EndLoop(k)
    <2>1. /\ job' \in [Threads -> JobType]
          /\ \A t \in Threads : job'[t].at \in ForClient => job'[t].id \in Ids
      BY <1>a, <1>b, <1>c, <1>10, BeginGood DEF EndLoop
    <2> QED BY <1>10, <2>1 DEF EndLoop, StateTypes, control, registry, JobType
  <1>11. CASE HangUp(k)
    BY <1>11 DEF HangUp, StateTypes, control, registry, JobType
  <1> QED BY <1>1, <1>2, <1>3, <1>4, <1>5, <1>6, <1>7, <1>8, <1>9, <1>10, <1>11

\* The shared routines keep the types.
LEMMA RoutineTypes ==
    ASSUME StateTypes, NEW th \in Threads, Routine(th)
    PROVE  StateTypes'
  <1> USE SessionAssumption
  <1>a. {"dequeue", "release", "grant"} \subseteq Labels \cap ForClient
        /\ "pop" \in ForClient
    BY DEF Labels, ForClient
  <1>b. job[th].at \in ForClient => job[th].id \in Ids
    BY JobOf
  <1>1. CASE Pop(th)
    <2>1. job[th].id \in Ids
      BY <1>a, <1>b, <1>1 DEF Pop
    <2>2. /\ job' \in [Threads -> JobType]
          /\ \A t \in Threads : job'[t].at \in ForClient => job'[t].id \in Ids
      BY <1>a, <1>1, <2>1, GotoGood DEF Pop
    <2>3. clients' \in [Ids -> Conns \cup {NoConn}]
      BY <1>1 DEF Pop, StateTypes
    <2> QED BY <1>1, <2>2, <2>3 DEF Pop, StateTypes, control, JobType
  <1>2. CASE Dequeue(th)
    <2>1. job[th].id \in Ids
      BY <1>a, <1>b, <1>2 DEF Dequeue
    <2>2. /\ job' \in [Threads -> JobType]
          /\ \A t \in Threads : job'[t].at \in ForClient => job'[t].id \in Ids
      BY <1>a, <1>2, <2>1, GotoGood DEF Dequeue
    <2>3. UNCHANGED <<clients, banned, open, controller, left, violations, ending>>
      BY <1>2 DEF Dequeue, registry
    <2> QED BY <2>2, <2>3 DEF StateTypes, JobType
  <1>3. CASE Release(th)
    <2>1. CASE controller = job[th].id
      BY <1>3, <2>1, TakeAwayGood DEF Release, StateTypes, registry, JobType
    <2>2. CASE controller # job[th].id
      BY <1>3, <2>2, FinishGood DEF Release, StateTypes, registry, JobType
    <2> QED BY <2>1, <2>2
  <1>4. CASE Take(th)
    <2>1. \/ Finish(th)
          \/ UNCHANGED open /\ \E id \in Ids : Begin(th, "grant", id)
      BY <1>4 DEF Take
    <2>2. /\ open' \in [Conns -> BOOLEAN]
          /\ job' \in [Threads -> JobType]
          /\ \A t \in Threads : job'[t].at \in ForClient => job'[t].id \in Ids
      <3>1. CASE Finish(th)
        BY <3>1, FinishGood
      <3>2. CASE UNCHANGED open /\ \E id \in Ids : Begin(th, "grant", id)
        BY <1>a, <3>2, BeginGood DEF StateTypes
      <3> QED BY <2>1, <3>1, <3>2
    <2>3. UNCHANGED <<clients, banned, controller, left, violations, ending>>
      BY <1>4 DEF Take, registry
    <2> QED BY <2>2, <2>3 DEF StateTypes, JobType
  <1>5. CASE GrantNext(th)
    <2>1. job[th].id \in Ids
      BY <1>a, <1>b, <1>5 DEF GrantNext
    <2>2. controller' \in Ids \cup {NoId} /\ left' \in Floor..Lease
      BY <1>5, <2>1 DEF GrantNext, StateTypes, Floor, SessionAssumption
    <2>3. UNCHANGED <<clients, banned, violations, ending>> /\ Finish(th)
      BY <1>5 DEF GrantNext, registry
    <2> QED BY <2>2, <2>3, FinishGood DEF StateTypes, JobType
  <1> QED BY <1>1, <1>2, <1>3, <1>4, <1>5 DEF Routine

\* The lease thread, broadcasts and time keep the types.
LEMMA OtherTypes ==
    ASSUME StateTypes,
           ReadClock \/ Expire \/ Tick \/ (\E s \in Senders : SendFails(s))
    PROVE  StateTypes'
  <1> USE SessionAssumption
  <1>1. CASE ReadClock
    <2>1. "expire" \in Labels /\ "expire" \notin ForClient
      BY DEF Labels, ForClient, Clocked
    <2>2. /\ job' \in [Threads -> JobType]
          /\ \A t \in Threads : job'[t].at \in ForClient => job'[t].id \in Ids
      BY <1>1, <2>1, Kinds, BeginGood DEF ReadClock
    <2> QED BY <1>1, <2>2 DEF ReadClock, StateTypes, control, registry, JobType
  <1>2. CASE Expire
    <2>1. \/ TakeControlAway(LeaseThread)
          \/ Finish(LeaseThread) /\ UNCHANGED <<controller, left>>
      BY <1>2 DEF Expire
    <2>2. UNCHANGED <<clients, banned, violations, ending>>
      BY <1>2 DEF Expire, registry
    <2> QED BY <2>1, <2>2, Kinds, TakeAwayGood, FinishGood DEF StateTypes, JobType
  <1>3. CASE Tick
    <2>1. left' \in Floor..Lease
      BY <1>3 DEF Tick, StateTypes, Floor, SessionAssumption
    <2>2. \A t \in Threads : /\ job'[t] \in JobType
                             /\ job'[t].at \in ForClient => job'[t].id \in Ids
      <3> SUFFICES ASSUME NEW t \in Threads
                   PROVE  /\ job'[t] \in JobType
                          /\ job'[t].at \in ForClient => job'[t].id \in Ids
        OBVIOUS
      <3>1. job[t] \in JobType /\ (job[t].at \in ForClient => job[t].id \in Ids)
        BY JobOf
      <3>2. CASE job[t].at \in Clocked
        <4>1. job[t].age < MaxAge /\ job'[t] = [job[t] EXCEPT !.age = @ + 1]
          BY <1>3, <3>2 DEF Tick
        <4> QED BY <3>1, <4>1 DEF JobType, SessionAssumption
      <3>3. CASE job[t].at \notin Clocked
        BY <1>3, <3>1, <3>3 DEF Tick
      <3> QED BY <3>2, <3>3
    <2>3. job' \in [Threads -> JobType]
      BY <1>3, <2>2 DEF Tick
    <2> QED BY <1>3, <2>1, <2>2, <2>3 DEF Tick, StateTypes, registry, JobType
  <1>4. ASSUME NEW s \in Senders, SendFails(s) PROVE StateTypes'
    <2>1. "pop" \in Labels
      BY DEF Labels
    <2>2. /\ job' \in [Threads -> JobType]
          /\ \A t \in Threads : job'[t].at \in ForClient => job'[t].id \in Ids
      BY <1>4, <2>1, Kinds, BeginGood DEF SendFails
    <2> QED BY <1>4, <2>2 DEF SendFails, StateTypes, control, registry, JobType
  <1> QED BY <1>1, <1>2, <1>3, <1>4

\* Every step keeps the types.
LEMMA StepTypes == StateTypes /\ [Next]_vars => StateTypes'
  <1> SUFFICES ASSUME StateTypes, [Next]_vars PROVE StateTypes'
    OBVIOUS
  <1>1. CASE UNCHANGED vars
    BY <1>1 DEF vars, control, registry, StateTypes
  <1>2. ASSUME NEW k \in Conns, \/ Connect(k) \/ Receive(k) \/ Serve(k)
                                \/ EndLoop(k) \/ HangUp(k)
        PROVE  StateTypes'
    BY <1>2, Kinds, ServeTypes, RoutineTypes DEF Serve
  <1>3. CASE ReadClock \/ Expire \/ Tick \/ (\E s \in Senders : SendFails(s))
    BY <1>3, OtherTypes
  <1>4. CASE Routine(LeaseThread) \/ (\E s \in Senders : Routine(s))
    BY <1>4, Kinds, RoutineTypes
  <1> QED BY <1>1, <1>2, <1>3, <1>4 DEF Next

\* The server's variables keep their types: the lease is never longer than
\* Lease whatever clock values are in use, and every section that works for
\* a client (Pop, Release, GrantNext, ...) has one.
THEOREM TypesHold == Spec => []StateTypes
  BY InitTypes, StepTypes, PTL DEF Spec

\* The queue lists clients: a request adds its target, the end of a client
\* removes it, and only a candidate is put back.
LEMMA StepQueue ==
    ASSUME StateTypes, cqueue \in Seq(Ids), [Next]_vars
    PROVE  cqueue' \in Seq(Ids)
  <1>1. ASSUME NEW k \in Conns, Request(k) PROVE cqueue' \in Seq(Ids)
    <2>1. job[k].id \in Ids
      <3>1. job[k].at \in ForClient
        BY <1>1 DEF Request, ForClient, Labels, Clocked
      <3> QED BY <3>1, Kinds, JobOf
    <2>2. cqueue' \in {cqueue, Append(cqueue, job[k].id)}
      BY <1>1 DEF Request, control
    <2> QED BY <2>1, <2>2
  <1>2. ASSUME NEW th \in Threads, Routine(th) PROVE cqueue' \in Seq(Ids)
    <2>1. CASE Dequeue(th)
      BY <2>1, WithoutType DEF Dequeue
    <2>2. CASE Take(th)
      BY <2>2 DEF Take
    <2>3. CASE GrantNext(th)
      <3>1. job[th].id \in Ids
        <4>1. job[th].at \in ForClient
          BY <2>3 DEF GrantNext, ForClient, Labels
        <4> QED BY <4>1, JobOf
      <3>2. cqueue' \in {cqueue, <<job[th].id>> \o cqueue}
        BY <2>3 DEF GrantNext
      <3>3. <<job[th].id>> \in Seq(Ids)
        BY <3>1
      <3>4. <<job[th].id>> \o cqueue \in Seq(Ids)
        BY <3>3, ConcatProperties
      <3> QED BY <3>2, <3>4
    <2>4. CASE Pop(th) \/ Release(th)
      BY <2>4 DEF Pop, Release, control
    <2> QED BY <1>2, <2>1, <2>2, <2>3, <2>4 DEF Routine
  <1>3. ASSUME NEW k \in Conns,
               \/ Connect(k) \/ Receive(k) \/ EndLoop(k) \/ HangUp(k) \/ Heartbeat(k)
               \/ Register(k) \/ Ban(k) \/ Disconnect(k) \/ CheckInput(k) \/ ApplyInput(k)
        PROVE  cqueue' = cqueue
    <2>1. CASE Connect(k) \/ Receive(k) \/ EndLoop(k) \/ HangUp(k) \/ Heartbeat(k)
      BY <2>1 DEF Connect, Receive, EndLoop, HangUp, Heartbeat, control
    <2>2. CASE Register(k) \/ Ban(k) \/ Disconnect(k) \/ CheckInput(k) \/ ApplyInput(k)
      BY <2>2 DEF Register, Ban, Disconnect, CheckInput, ApplyInput, control
    <2> QED BY <1>3, <2>1, <2>2
  <1>4. CASE ReadClock \/ Expire \/ Tick \/ (\E s \in Senders : SendFails(s)) \/ UNCHANGED vars
    BY <1>4 DEF ReadClock, Expire, Tick, SendFails, control, vars
  <1> QED BY <1>1, <1>2, <1>3, <1>4, Kinds DEF Next, Serve

\* The server's type invariant: with the types above, the waiting queue holds
\* client ids only.
THEOREM TypeCorrect == Spec => []TypeOK
  <1>1. Init => TypeOK
    BY InitTypes DEF Init, TypeOK
  <1>2. TypeOK /\ [Next]_vars => TypeOK'
    BY StepTypes, StepQueue DEF TypeOK
  <1> QED BY <1>1, <1>2, PTL DEF Spec

----------------------------------------------------------------------------
(* Refinement of ControlLease.                                             *)

\* What a step of the server may do to control and its lease.
Kept == UNCHANGED <<controller, left>>

\* A heartbeat renews the lease of the client that has control.
LEMMA HeartbeatKeeps ==
    ASSUME StateTypes, NEW k \in Conns, Heartbeat(k)
    PROVE  Promise!Next \/ Kept
  <1>1. CASE ClientOf[k] = controller
    <2>1. left' \in Floor..Lease /\ controller' = controller
      BY <1>1, Kinds, JobOf, LeaseFromRange DEF Heartbeat
    <2>2. Promise!Renew
      BY <1>1, <2>1, Kinds DEF Promise!Renew, Promise!Term
    <2> QED BY <2>2 DEF Promise!Next
  <1>2. CASE ClientOf[k] # controller
    BY <1>2 DEF Heartbeat, Kept
  <1> QED BY <1>1, <1>2

\* A request grants control only when it is free, the client's own, or its
\* lease is over.
LEMMA RequestKeeps ==
    ASSUME StateTypes, NEW k \in Conns, Request(k)
    PROVE  Promise!Next \/ Kept
  <1>0. /\ job[k].id \in Ids /\ job[k].age \in 0..MaxAge
        /\ LeaseFrom(job[k].age) \in Floor..Lease
    <2>1. job[k].at \in ForClient
      BY DEF Request, ForClient, Labels, Clocked
    <2> QED BY <2>1, Kinds, JobOf, LeaseFromRange
  <1>1. CASE controller' = job[k].id /\ left' = LeaseFrom(job[k].age)
             /\ ~(controller \notin {NoId, job[k].id} /\ Running(job[k].age))
    <2>1. controller \in {NoId, job[k].id} \/ left < 0
      BY <1>0, <1>1, SessionAssumption DEF Running, StateTypes, Floor, SessionAssumption
    <2>2. Promise!Grant(job[k].id)
      BY <1>0, <1>1, <2>1 DEF Promise!Grant, Promise!Term
    <2> QED BY <1>0, <2>2 DEF Promise!Next
  <1>2. CASE Kept
    BY <1>2
  <1> QED BY <1>1, <1>2 DEF Request, Kept, control

\* The shared routines end a holder's control, or give it when it is free.
LEMMA RoutineKeeps ==
    ASSUME StateTypes, NEW th \in Threads, Routine(th)
    PROVE  Promise!Next \/ Kept
  <1>1. CASE Pop(th) \/ Dequeue(th) \/ Take(th)
    BY <1>1 DEF Pop, Dequeue, Take, Kept, control
  <1>2. CASE Release(th)
    <2>1. job[th].id \in Ids
      <3>1. job[th].at \in ForClient
        BY <1>2 DEF Release, ForClient, Labels
      <3> QED BY <3>1, JobOf
    <2>2. CASE controller = job[th].id
      <3>1. controller' = NoId /\ left' = Floor
        BY <1>2, <2>2, TakeAwayGood DEF Release
      <3>2. Promise!End
        BY <2>1, <2>2, <3>1, Kinds DEF Promise!End
      <3> QED BY <3>2 DEF Promise!Next
    <2>3. CASE controller # job[th].id
      BY <1>2, <2>3 DEF Release, Kept
    <2> QED BY <2>2, <2>3
  <1>3. CASE GrantNext(th)
    <2>1. job[th].id \in Ids
      <3>1. job[th].at \in ForClient
        BY <1>3 DEF GrantNext, ForClient, Labels
      <3> QED BY <3>1, JobOf
    <2>2. CASE controller = NoId
      <3>1. Lease \in Floor..Lease
        BY SessionAssumption DEF SessionAssumption, Floor
      <3>2. Promise!Grant(job[th].id)
        BY <1>3, <2>2, <3>1 DEF GrantNext, Promise!Grant, Promise!Term
      <3> QED BY <2>1, <3>2 DEF Promise!Next
    <2>3. CASE controller # NoId
      BY <1>3, <2>3 DEF GrantNext, Kept
    <2> QED BY <2>2, <2>3
  <1> QED BY <1>1, <1>2, <1>3 DEF Routine

\* Every step of the server is a step of ControlLease or leaves it alone.
LEMMA StepKeeps ==
    ASSUME StateTypes, [Next]_vars
    PROVE  [Promise!Next]_<<controller, left>>
  <1>1. CASE UNCHANGED vars
    BY <1>1 DEF vars, control
  <1>2. ASSUME NEW k \in Conns, \/ Connect(k) \/ Receive(k) \/ Serve(k)
                                \/ EndLoop(k) \/ HangUp(k)
        PROVE  Promise!Next \/ Kept
    <2>1. CASE Heartbeat(k)
      BY <2>1, HeartbeatKeeps
    <2>2. CASE Request(k)
      BY <2>2, RequestKeeps
    <2>3. CASE Routine(k)
      BY <2>3, Kinds, RoutineKeeps
    <2>4. CASE Connect(k) \/ Receive(k) \/ EndLoop(k) \/ HangUp(k)
      BY <2>4 DEF Connect, Receive, EndLoop, HangUp, control, Kept
    <2>5. CASE \/ Register(k) \/ Ban(k) \/ Disconnect(k)
               \/ CheckInput(k) \/ ApplyInput(k)
      BY <2>5 DEF Register, Ban, Disconnect, CheckInput, ApplyInput, control, Kept
    <2> QED BY <1>2, <2>1, <2>2, <2>3, <2>4, <2>5 DEF Serve
  <1>3. CASE Routine(LeaseThread) \/ (\E s \in Senders : Routine(s))
    BY <1>3, Kinds, RoutineKeeps DEF Kept
  <1>4. CASE Expire
    <2>1. CASE controller # NoId /\ ~Running(job[LeaseThread].age)
      <3>1. controller' = NoId /\ left' = Floor
        BY <1>4, <2>1, Kinds, TakeAwayGood DEF Expire
      <3> QED BY <2>1, <3>1 DEF Promise!End, Promise!Next
    <2>2. CASE ~(controller # NoId /\ ~Running(job[LeaseThread].age))
      BY <1>4, <2>2 DEF Expire
    <2> QED BY <2>1, <2>2
  <1>5. CASE Tick
    <2>1. CASE left > Floor
      BY <1>5, <2>1 DEF Tick, Promise!Tick, Promise!Next
    <2>2. CASE ~(left > Floor)
      BY <1>5, <2>2 DEF Tick
    <2> QED BY <2>1, <2>2
  <1>6. CASE ReadClock \/ (\E s \in Senders : SendFails(s))
    BY <1>6 DEF ReadClock, SendFails, control
  <1> QED BY <1>1, <1>2, <1>3, <1>4, <1>5, <1>6 DEF Next, Kept

\* The session server implements ControlLease: control changes hands only
\* after a release, a revocation or the end of the lease, whatever the
\* threads of _client_loop, _lease_loop and _broadcast do in between.
THEOREM ServerKeepsPromise == Spec => KeepsPromise
  <1>1. Init => Promise!Init
    BY DEF Init, Promise!Init
  <1>2. StateTypes /\ [Next]_vars => [Promise!Next]_<<controller, left>>
    BY StepKeeps
  <1> QED BY <1>1, <1>2, TypesHold, PTL DEF Spec, KeepsPromise, Promise!Spec
=============================================================================
