--------------------------- MODULE SessionServer ---------------------------
(***************************************************************************)
(* The control side of q_core_agent/core/session_server.py: connections,   *)
(* the client registry, the control lease, its waiting queue and bans.     *)
(*                                                                         *)
(* One thread per connection (_client_loop), the lease thread              *)
(* (_lease_loop) and the broadcasts under way (_broadcast). A step is one  *)
(* critical section of _clients_lock or _control_lock, or the work between *)
(* two of them. What a thread carries from one section to the next is its  *)
(* job: where it is, the client id it works on, and how long ago it read   *)
(* the clock (now_ts).                                                     *)
(*                                                                         *)
(* Abstractions. Message texts, audit events and snapshots are left out.   *)
(* A broadcast that finds a dead client unregisters it in the thread that  *)
(* broadcasts; here each broadcast is a thread of its own (Senders), which *)
(* allows every order the code allows and more. In _grant_next_in_queue    *)
(* the sections that empty the queue and look for a connected candidate    *)
(* are one step: they touch different state.                               *)
(***************************************************************************)
EXTENDS Integers, Sequences, Functions, Pruning

CONSTANTS
    Ids,            \* client ids
    NoId,           \* "" in the code
    Conns,          \* connections, each used once
    NoConn,         \* no entry in the registry
    ClientOf,       \* the client id each connection says HELLO with
    RoleOf,         \* the role it is given: "viewer", "controller", "admin"
    Policy,         \* "first_come", "admin_grants" or "queue"
    Strict,         \* strict_mode
    Lease,          \* lease_ms, in ticks
    MaxAge,         \* bound: ticks between reading the clock and using it
    MaxViolations,  \* max_input_violations
    LeaseThread,    \* the thread of _lease_loop
    Senders         \* broadcasts under way at the same time

ASSUME SessionAssumption ==
    /\ NoId \notin Ids /\ NoConn \notin Conns
    /\ LeaseThread \notin Conns \cup Senders /\ Conns \cap Senders = {}
    /\ ClientOf \in [Conns -> Ids]
    /\ RoleOf \in [Conns -> {"viewer", "controller", "admin"}]
    /\ Policy \in {"first_come", "admin_grants", "queue"}
    /\ Strict \in BOOLEAN
    /\ Lease \in Nat \ {0} /\ MaxAge \in Nat
    /\ MaxViolations \in Nat \ {0}

Threads == Conns \cup Senders \cup {LeaseThread}

VARIABLES
    clients,     \* _clients: client id -> connection
    open,        \* the connection can still be read and written
    controller,  \* _controller_client_id
    left,        \* _controller_deadline - now, not below Floor
    cqueue,      \* _control_queue
    banned,      \* _banned_clients
    violations,  \* input_violations of each connection
    job,         \* what each thread is doing
    ending       \* the connection's thread has left its loop

control  == <<controller, left, cqueue>>
registry == <<clients, banned>>
vars == <<control, registry, open, violations, job, ending>>

\* A lease this long over is over for every clock value still in use.
Floor == -(MaxAge + 1)

\* The sections that use a clock value read before them.
Clocked == {"heartbeat", "request", "admingrant", "expire"}
Labels == Clocked \cup {"new", "hello", "idle", "input", "apply", "ban",
                        "disconnect", "pop", "dequeue", "release", "take",
                        "grant", "done"}

\* The sections about a client.
ForClient == Labels \ {"new", "idle", "done", "expire", "take"}

Job(label, id) == [at |-> label, id |-> id, age |-> 0]

\* The thread's next section, for client id; for the client it works on.
Begin(th, label, id) == job' = [job EXCEPT ![th] = Job(label, id)]
Goto(th, label) == Begin(th, label, job[th].id)

\* The routine returns. A connection whose loop has ended closes its socket.
Finish(th) ==
    IF th \in Conns /\ ending[th]
    THEN Begin(th, "done", NoId) /\ open' = [open EXCEPT ![th] = FALSE]
    ELSE Begin(th, "idle", NoId) /\ UNCHANGED open

\* A deadline computed from a clock value read a ticks ago, and whether with
\* that clock value the lease still runs (now_ts <= deadline).
LeaseFrom(a) == IF Lease - a > Floor THEN Lease - a ELSE Floor
Running(a) == left + a >= 0

----------------------------------------------------------------------------
(* A connection's thread: _client_loop.                                    *)

\* HELLO: refused for a banned id (or a wrong token or role), or accepted.
Connect(k) ==
    /\ job[k].at = "new"
    /\ \/ Begin(k, "done", NoId) /\ UNCHANGED open
       \/ /\ ClientOf[k] \notin banned
          /\ Begin(k, "hello", ClientOf[k])
          /\ open' = [open EXCEPT ![k] = TRUE]
    /\ UNCHANGED <<control, registry, ending, violations>>

\* The registry entry, replacing one of an earlier connection.
Register(k) ==
    /\ job[k].at = "hello"
    /\ clients' = [clients EXCEPT ![ClientOf[k]] = k]
    /\ Begin(k, "idle", NoId)
    /\ UNCHANGED <<control, open, banned, ending, violations>>

\* _handle_client_message: the clock is read, and the message says which
\* section follows and for which client. The messages of an admin are
\* answered with an error when another role sends them.
Receive(k) ==
    /\ job[k].at = "idle" /\ open[k]
    /\ \/ \E m \in {"heartbeat", "request", "release", "input"} :
             Begin(k, m, ClientOf[k])
       \/ /\ RoleOf[k] = "admin"
          /\ \E m \in {"admingrant", "release", "ban"}, id \in Ids : Begin(k, m, id)
    /\ UNCHANGED <<control, registry, open, ending, violations>>

\* Mutant: a heartbeat adds a lease to the deadline instead of setting it.
Heartbeat_Extends(k) ==
    /\ job[k].at = "heartbeat"
    /\ left' = IF ClientOf[k] = controller THEN left + Lease ELSE left
    /\ Finish(k)
    /\ UNCHANGED <<controller, cqueue, registry, ending, violations>>

\* The controller's deadline moves; nobody looks whether it had passed.
Heartbeat(k) ==
    /\ job[k].at = "heartbeat"
    /\ left' = IF ClientOf[k] = controller THEN LeaseFrom(job[k].age) ELSE left
    /\ Finish(k)
    /\ UNCHANGED <<controller, cqueue, registry, ending, violations>>

\* _request_control, for the client itself or for the one an admin names:
\* deny, queue or grant.
Request(k) ==
    LET forced == job[k].at = "admingrant"
        target == job[k].id
        denied == ~forced /\ (RoleOf[k] = "viewer" \/ Policy = "admin_grants")
        busy   == controller \notin {NoId, target} /\ Running(job[k].age)
    IN
    /\ job[k].at \in {"request", "admingrant"}
    /\ \/ denied /\ UNCHANGED control
       \/ /\ ~denied /\ busy
          /\ cqueue' = IF Policy = "queue" /\ target \notin Range(cqueue)
                       THEN Append(cqueue, target) ELSE cqueue
          /\ UNCHANGED <<controller, left>>
       \/ /\ ~denied /\ ~busy
          /\ controller' = target /\ left' = LeaseFrom(job[k].age)
          /\ UNCHANGED cqueue
    /\ Finish(k)
    /\ UNCHANGED <<registry, ending, violations>>

\* CLIENT_BAN: ban the id, then _disconnect_client.
Ban(k) ==
    /\ job[k].at = "ban"
    /\ banned' = banned \cup {job[k].id}
    /\ Goto(k, "disconnect")
    /\ UNCHANGED <<control, clients, open, ending, violations>>

\* The socket of a registered client is shut down; nothing to do otherwise.
Disconnect(k) ==
    LET target == clients[job[k].id] IN
    /\ job[k].at = "disconnect"
    /\ IF target = NoConn THEN Finish(k)
       ELSE open' = [open EXCEPT ![target] = FALSE] /\ Goto(k, "pop")
    /\ UNCHANGED <<control, registry, ending, violations>>

\* INPUT from a viewer is refused; in strict mode the loop ends.
RefuseViewer(k) ==
    /\ RoleOf[k] = "viewer"
    /\ ending' = [ending EXCEPT ![k] = Strict]
    /\ IF Strict THEN Goto(k, "pop") ELSE Begin(k, "idle", NoId)
    /\ UNCHANGED violations

\* _apply_input asks "is this client the controller" in a section of its own;
\* in strict mode repeated violations disconnect the client.
CheckInput(k) ==
    LET count == IF violations[k] < MaxViolations THEN violations[k] + 1
                 ELSE MaxViolations
    IN
    /\ job[k].at = "input"
    /\ \/ RefuseViewer(k)
       \/ /\ RoleOf[k] # "viewer" /\ ClientOf[k] = controller
          /\ violations' = [violations EXCEPT ![k] = 0]
          /\ Goto(k, "apply")
          /\ UNCHANGED ending
       \/ /\ RoleOf[k] # "viewer" /\ ClientOf[k] # controller
          /\ violations' = [violations EXCEPT ![k] = count]
          /\ IF Strict /\ count = MaxViolations THEN Goto(k, "disconnect")
             ELSE Begin(k, "idle", NoId)
          /\ UNCHANGED ending
    /\ UNCHANGED <<control, registry, open>>

\* The view state changes, after the lock was released.
ApplyInput(k) ==
    /\ job[k].at = "apply"
    /\ Begin(k, "idle", NoId)
    /\ UNCHANGED <<control, registry, open, ending, violations>>

\* Mutant: the finally clause closes the socket and forgets the registry.
EndLoop_CloseOnly(k) ==
    /\ job[k].at = "idle"
    /\ ending' = [ending EXCEPT ![k] = TRUE]
    /\ Begin(k, "done", NoId) /\ open' = [open EXCEPT ![k] = FALSE]
    /\ UNCHANGED <<control, registry, violations>>

\* The loop ends: end of stream, a second of silence, a line that is no JSON
\* object, or a rate limit in strict mode. The finally clause unregisters the
\* client id, whichever connection the registry has for it.
EndLoop(k) ==
    /\ job[k].at = "idle"
    /\ ending' = [ending EXCEPT ![k] = TRUE]
    /\ Begin(k, "pop", ClientOf[k])
    /\ UNCHANGED <<control, registry, open, violations>>

\* The peer goes away (external).
HangUp(k) ==
    /\ open[k]
    /\ open' = [open EXCEPT ![k] = FALSE]
    /\ UNCHANGED <<control, registry, violations, job, ending>>

----------------------------------------------------------------------------
(* _unregister_client, _release_control and _grant_next_in_queue, in any   *)
(* thread.                                                                 *)

\* The entry goes. conn.close() leaves the descriptor open as long as the
\* connection's own thread has its reader.
Pop(th) ==
    /\ job[th].at = "pop"
    /\ clients' = [clients EXCEPT ![job[th].id] = NoConn]
    /\ Goto(th, "dequeue")
    /\ UNCHANGED <<control, open, banned, ending, violations>>

Dequeue(th) ==
    /\ job[th].at = "dequeue"
    /\ cqueue' = Without(cqueue, {job[th].id})
    /\ Goto(th, "release")
    /\ UNCHANGED <<controller, left, registry, open, ending, violations>>

\* Control is nobody's; only the queue policy looks for the next client.
TakeControlAway(th) ==
    /\ controller' = NoId /\ left' = Floor
    /\ IF Policy = "queue" THEN Begin(th, "take", NoId) /\ UNCHANGED open
       ELSE Finish(th)

Release(th) ==
    /\ job[th].at = "release"
    /\ IF controller = job[th].id THEN TakeControlAway(th)
       ELSE Finish(th) /\ UNCHANGED <<controller, left>>
    /\ UNCHANGED <<cqueue, registry, ending, violations>>

\* The queue is emptied; its first connected client is the candidate.
Take(th) ==
    LET registered == {id \in Ids : clients[id] # NoConn}
        none == \A i \in DOMAIN cqueue : cqueue[i] \notin registered
    IN
    /\ job[th].at = "take"
    /\ cqueue' = IF controller = NoId THEN <<>> ELSE cqueue
    /\ \/ (controller # NoId \/ none) /\ Finish(th)
       \/ /\ controller = NoId
          /\ \E i \in DOMAIN cqueue :
                /\ cqueue[i] \in registered
                /\ \A j \in 1..(i - 1) : cqueue[j] \notin registered
                /\ Begin(th, "grant", cqueue[i])
          /\ UNCHANGED open
    /\ UNCHANGED <<controller, left, registry, ending, violations>>

\* Mutant: the grant relies on what the first section saw.
GrantNext_NoRecheck(th) ==
    /\ job[th].at = "grant"
    /\ controller' = job[th].id /\ left' = Lease
    /\ Finish(th)
    /\ UNCHANGED <<cqueue, registry, ending, violations>>

\* Control may have been granted since: then the candidate goes back to the
\* head of the queue.
GrantNext(th) ==
    /\ job[th].at = "grant"
    /\ IF controller = NoId
       THEN controller' = job[th].id /\ left' = Lease /\ UNCHANGED cqueue
       ELSE cqueue' = <<job[th].id>> \o cqueue /\ UNCHANGED <<controller, left>>
    /\ Finish(th)
    /\ UNCHANGED <<registry, ending, violations>>

----------------------------------------------------------------------------
(* The lease thread, broadcasts, and time.                                 *)

\* _expire_control_if_needed: the clock is read before the section.
ReadClock ==
    /\ job[LeaseThread].at = "idle"
    /\ Begin(LeaseThread, "expire", NoId)
    /\ UNCHANGED <<control, registry, open, ending, violations>>

\* Mutant: only a client that is connected can run out of its lease.
Expire_Connected ==
    /\ job[LeaseThread].at = "expire"
    /\ IF /\ controller # NoId /\ clients[controller] # NoConn
          /\ ~Running(job[LeaseThread].age)
       THEN TakeControlAway(LeaseThread)
       ELSE Finish(LeaseThread) /\ UNCHANGED <<controller, left>>
    /\ UNCHANGED <<cqueue, registry, ending, violations>>

Expire ==
    /\ job[LeaseThread].at = "expire"
    /\ IF controller # NoId /\ ~Running(job[LeaseThread].age)
       THEN TakeControlAway(LeaseThread)
       ELSE Finish(LeaseThread) /\ UNCHANGED <<controller, left>>
    /\ UNCHANGED <<cqueue, registry, ending, violations>>

\* A broadcast cannot send to a registered client: it is gone, or too slow.
SendFails(s) ==
    /\ job[s].at = "idle"
    /\ \E id \in Ids : clients[id] # NoConn /\ Begin(s, "pop", id)
    /\ UNCHANGED <<control, registry, open, ending, violations>>

\* The clock advances; a clock value in use gets older.
Tick ==
    /\ \A th \in Threads : job[th].at \in Clocked => job[th].age < MaxAge
    /\ job' = [th \in Threads |->
                 IF job[th].at \in Clocked
                 THEN [job[th] EXCEPT !.age = @ + 1] ELSE job[th]]
    /\ left' = IF left > Floor THEN left - 1 ELSE left
    /\ UNCHANGED <<controller, cqueue, registry, open, ending, violations>>

----------------------------------------------------------------------------
Init ==
    /\ clients = [id \in Ids |-> NoConn]
    /\ open = [k \in Conns |-> FALSE]
    /\ controller = NoId /\ left = Floor /\ cqueue = <<>> /\ banned = {}
    /\ violations = [k \in Conns |-> 0]
    /\ job = [th \in Threads |-> Job(IF th \in Conns THEN "new" ELSE "idle", NoId)]
    /\ ending = [k \in Conns |-> FALSE]

\* The shared routines.
Routine(th) == Pop(th) \/ Dequeue(th) \/ Release(th) \/ Take(th) \/ GrantNext(th)

\* What a connection's thread does once it has something to do.
Serve(k) ==
    \/ Register(k) \/ Heartbeat(k) \/ Request(k) \/ Ban(k) \/ Disconnect(k)
    \/ CheckInput(k) \/ ApplyInput(k) \/ Routine(k)

Next ==
    \/ \E k \in Conns : \/ Connect(k) \/ Receive(k) \/ Serve(k)
                        \/ EndLoop(k) \/ HangUp(k)
    \/ ReadClock \/ Expire \/ Routine(LeaseThread)
    \/ \E s \in Senders : SendFails(s) \/ Routine(s)
    \/ Tick

Spec == Init /\ [][Next]_vars

\* Threads run; a thread whose connection is gone reads the end of the stream.
\* Time passes whatever the threads do: Tick is disabled only by its bound.
Fairness ==
    /\ \A k \in Conns : WF_vars(Serve(k)) /\ WF_vars(~open[k] /\ EndLoop(k))
    /\ WF_vars(ReadClock \/ Expire \/ Routine(LeaseThread))
    /\ \A s \in Senders : WF_vars(Routine(s))
    /\ SF_vars(Tick)

FairSpec == Spec /\ Fairness

----------------------------------------------------------------------------
(* Properties.                                                             *)

\* Every variable stays within its type. The lease left is never longer than
\* Lease, although deadlines are computed from clock values read earlier; and
\* a thread in a section about a client has one to work on.
StateTypes ==
    /\ clients \in [Ids -> Conns \cup {NoConn}]
    /\ open \in [Conns -> BOOLEAN]
    /\ controller \in Ids \cup {NoId}
    /\ left \in Floor..Lease
    /\ banned \in SUBSET Ids
    /\ violations \in [Conns -> 0..MaxViolations]
    /\ job \in [Threads -> [at : Labels, id : Ids \cup {NoId}, age : 0..MaxAge]]
    /\ ending \in [Conns -> BOOLEAN]
    /\ \A th \in Threads : job[th].at \in ForClient => job[th].id \in Ids

TypeOK == StateTypes /\ cqueue \in Seq(Ids)

\* The server keeps the promise of ControlLease: control goes from one client
\* to another only through a release, a revocation or an expiry, whatever
\* threads do between the sections of _grant_next_in_queue and with clock
\* values read before a section.
Promise == INSTANCE ControlLease WITH holder <- controller
KeepsPromise == Promise!Spec

\* No client keeps control for ever without renewing its lease, even one that
\* was never there (the target an admin names) or that was gone when control
\* was granted to it (a request that a second connection's end overtakes).
SilentControllerExpires ==
    \A id \in Ids :
        <>[](controller = id) => []<><<left' > left>>_vars

\* A connection that is gone does not stay in the registry.
GoneClientsUnregistered ==
    \A id \in Ids : \A k \in Conns :
        (clients[id] = k /\ ~open[k]) ~> (clients[id] # k)

\* "Input from a client that is not the controller is rejected": an input is
\* not applied while another client has control.
InputsOnlyFromController ==
    [][\A k \in Conns : job[k].at = "apply" /\ job'[k].at = "idle"
                           => controller \in {NoId, ClientOf[k]}]_vars
=============================================================================
