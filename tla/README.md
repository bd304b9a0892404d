# QIKI_DTMP: TLA+ models, model checking and proofs

QIKI_DTMP simulates a spacecraft and its operator console: a simulation
service, an agent (`q_core_agent`) that decides, a bridge over NATS, and
consoles. This directory models the parts of `src/` whose correctness depends on
the order of events: threads, locks, queues, leases, confirmation counters, the
stages of a simulation step and of a tick, cooldowns and garbage collection.

## Inventory

| Component | State | Operations | Interacts with | What is hard |
|---|---|---|---|---|
| EventStore, `q_core_agent/core/event_store.py` | in-memory ring, writer queue, SQLite connection, drop and report clocks | append, query, stats, close, retention; writer thread | every component that records events | producers, readers, close and the writer interleave; writer failure; full queue |
| Session server, `core/session_server.py` | client registry, controller id and deadline, waiting queue, bans | HELLO, HEARTBEAT, CONTROL_REQUEST/RELEASE/GRANT/REVOKE, CLIENT_BAN, INPUT, lease expiry, broadcast | session clients (TCP), EventStore, radar pipeline | one thread per connection, two locks, decisions split over several critical sections |
| Session client, `core/session_client.py` | connection flags, last snapshot | connect, close, requests, reader thread | session server | reader thread against connect/close |
| Ship FSM and actuators, `core/ship_fsm_handler.py`, `core/ship_actuators.py` | ship state, confirmation counters in `context_data`, propulsion mode, last receipt | process_fsm_state; thrust, RCS, stop, sensor commands | ship core, EventStore | counters over long sequences of cycles; receipts that belong to another command |
| AsyncStateStore, `state/store.py` | snapshot, version, subscriber queues (64) | get, set, subscribe, unsubscribe | FSMHandler, tick | slow subscribers |
| Agent tick, `core/agent.py`, `tick_orchestrator.py`, `fsm_handler.py`, `world_model.py` | context, FSM state, radar contacts with their owners, guards | tick phases, sensor ingest, proposals, safe-mode request | data provider (gRPC), state store | one phase failing; state kept from earlier ticks; several radars |
| Bridge: radar, `faststream_bridge/radar_*.py` | tracks, cadence keys | frame to track, guard alert | NATS, simulation, console | flicker at a boundary, lost alerts, garbage collection |
| Bridge: proposals, `faststream_bridge/app.py` | stored proposals, mode | chat request, decision | NATS, intents | redelivery, time to live |
| Incident store, `operator_console/core/incidents.py` | incidents, cooldowns | ingest, ack, clear, refresh | console, bridge | recurrence, cooldown, eviction |
| Simulation, `q_sim_service/` | world (power, docking, RCS, thermal), run state, newest frame and reading, trip memory | tick, readers, control and actuator commands | gRPC, NATS | four stages write one picture; commands and reads between ticks |
| ORION console, intents service, radar pipeline, BIOS, gateway, registrar, shell, chat, shared models | see `PROJECT.json` | | | mostly presentation, numeric code or pure I/O |

What makes the modelled components correct:

* EventStore: an accepted row is written once, in order; a query sees what was
  accepted before it; close() loses nothing; nobody waits for ever.
* Session server: at most one controller, handed over only after a release, a
  revocation or the end of a lease; nobody keeps control by being absent; the
  registry does not keep the dead.
* Ship FSM: SAFE_MODE and docking are confirmed as often, and as consecutively,
  as configured; a flight state needs the receipt of an executed command.
* Simulation: what a step sheds, permits and draws agrees; a fault is the last
  resort; trips act at once; every reader sees one radar picture; burns end.
* Agent: a contact has one owner and its guards die with it; a critical guard
  wins; a command has a cause; nobody is left with an old state.
* Radar alerts: one alert per approach and cooldown, a returning contact is
  reported again, an alert the operator has not seen is not swept away.

`PROJECT.json` lists all components (also those left out, with the reason) and
the hazards, each at its line.

## Modules

| Module | Role |
|---|---|
| `DurableLog` | abstract: what the event store promises about its database |
| `EventStore` | the store and its writer thread; instantiates `DurableLog` |
| `EventStoreProofs` | theorems, among them the refinement of `DurableLog` |
| `Pruning` | removing entries from an ordered collection, as an operator without recursion |
| `PruningProofs` | what removal keeps: types, order, distinctness, entries, length |
| `ControlLease` | abstract: what the session server promises about control |
| `SessionServer` | connections, registry, lease, queue, bans; instantiates `ControlLease` |
| `SessionServerProofs` | theorems, among them the refinement of `ControlLease` |
| `ShipFSM` | the ship's state machine over the actuator controller |
| `ShipFSMProofs` | theorems about it |
| `WorldModel` | one step of the simulated ship, and its setters, as operators on a world record |
| `SimService` | the simulation service around one `WorldModel` |
| `SimServiceProofs` | theorems about both |
| `AgentWorld` | the agent's radar contacts, owners and guards, as operators |
| `AgentTick` | the agent's tick, FSM handler and state store over `AgentWorld` |
| `AgentTickProofs` | theorems about both |
| `RadarAlerts` | tracks, guard cadence, alerts on the wire and the incident store composed |
| `RadarAlertsProofs` | theorems about it |
| `MC*` | instances for TLC: symmetry sets and the functions a cfg cannot write |

Operators whose name has a suffix after an underscore (`WriterAck_KeepsBatch`)
and whose comment starts with "Mutant" are wrong variants of the definition that
follows; no specification uses them. `PROJECT.json` says which property each of
them breaks.

### EventStore

Threads are producers (`append`), readers (`query`, `stats`), one closer and the
writer; `pc` and `wpc` are their program counters, with a label wherever another
thread can come in between: between the check of the writer and the put, between
taking `_sqlite_lock`, the end of `join()` and the statement under the lock,
between taking a row, committing and `task_done()`. `unfinished` is the counter
behind `Queue.join()`. The histories `puts` and `stored` record what the queue
ever took and what the database ever got.

`DurableLog` has the accepted rows, the rows in the database and whether the
database has got its last row. The mapping is `log <- puts`, `rows <- stored`, and
the log is sealed once the writer has failed or ended; a put is an Accept, the
commit of a batch a Commit, everything else a Seal or a stutter. It says more than
the order of rows in `PutsReachDatabaseInOrder`, which is silent after an error:
a failed batch leaves no gap, because nothing is written after it.

Abstractions: an event is its number; "a report is due" (once a second),
"retention is due" and "the event is valid" are free choices; DELETE removes rows
no property looks at. A lifecycle report goes into ring and queue in one step.

### SessionServer and ControlLease

A step is one critical section of `_clients_lock` or `_control_lock`, or the work
between two. A thread's `job` is the section it is about to run, the client it
runs for, and the age of the clock value it carries: `now_ts` is read before the
lock is taken, so decisions are made with values up to `MaxAge` ticks old. Time
is relative: `left` is the deadline minus now. `conn.close()` on another thread's
connection does not end it (its reader keeps the descriptor), so an unregistered
client is still served: this is in the model. `Take` is the one action that joins
two sections, those in which `_grant_next_in_queue` empties the queue and looks for
a registered candidate: the candidate may be gone by the time it is granted anyway, and
`GrantNext` is a step of its own.

A broadcast that finds a dead client unregisters it in the broadcasting thread;
here each broadcast is a thread of `Senders`, which allows every order of the
code and more. `stop()`, snapshots and the event deduplication of
`_broadcast_events` are not modelled.

`ControlLease` has a holder and the rest of its lease. The mapping is
`holder <- controller`; every critical section that changes control is a Grant,
a Renew or an End, everything else stutters.

### ShipFSM

Sequential: commands, the receipts of their execution, and cycles of
`process_fsm_state` in any order. What a cycle reads and does not keep is its
input, chosen freely: a request for SAFE_MODE, the three gates, the systems check
and the verdict on the best station track. The engaged range is taken to be
within the target range (the defaults are 20 m and 5000 m), the track is
evaluated once per cycle, and recording a receipt does not raise. The copy of the
last receipt in `context_data` is read only when the controller has none, as
after a restore from a saved FSM state, which is not modelled.

`_dispatch_command` never answers EXECUTED; the action `Executed` (external)
stands for a channel that does. Without it the flight states are unreachable.
`QCoreAgent` constructs `FSMHandler`, which ignores the safe-mode keys;
`ShipFSMHandler` is used by the ship's own programs and tests.

### WorldModel and SimService

`WorldModel.Step` is the power, docking, RCS and thermal part of `step()`, one
operator per stage in the order the code runs them: `Supervise` (SoC hysteresis
and the trips of the step before), `RcsStep`, `Demand`, `DockStep`, `Pdu`,
`Store`, `ThermalStep`. `SimService` puts it into the asyncio loop of
`grpc_server.py`, where ticks, readers and control commands run one after the
other in any order.

Abstractions: a step lasts one unit; watts, degrees and percent are small
numbers; the shed lists are sets; of the faults only PDU_OVERCURRENT is kept; of
the thermal nodes only core and pdu, the two that switch loads. What physics
feeds into the control (processor load, valve phase, by how much a node warms or
cools) is chosen freely by the environment of a step. Of an RCS axis only matters
whether the ship has a thruster group for it: a command for an axis without one is
accepted, fires nothing and stays set with its time, because `_rcs_step` returns
before it counts the time down. Burns that fire (`RcsFires`) are what `RcsEnds` is
about. Supercapacitor, dock bridge and burst link start as the configuration says
(`CapInit`, `DockInit`, `NblInit`). Port, heading, position, attitude, radiation,
payloads of telemetry and responses are left out.
`frame_stale` and `heard` are history: whether the world has moved since the
newest frame, and what became of the last trip edge. Publishing is best effort:
an edge is dropped without a connection to NATS or on an error, and
`_maybe_publish_thermal_trip_edges` remembers it all the same, so a dropped trip
is never repeated. `TripNewsSettles` promises no more than that: the last edge is
that of the trip that stays, told or dropped. A frame that `GetRadarFrame` makes
afresh in a running simulation is handed to its caller only and is not state;
`OnePicture` is about the frames that are kept.

### AgentWorld and AgentTick

A tick is a row of phases; each phase is an action, with one more for each way
it fails. One `except` has no action, that of `_handle_fsm`: `FSMHandler` raises on
no state of this model, and only another handler could. `storeMode` is QIKI_USE_STATESTORE, read at the start: with it the FSM
is the store's snapshot and `context.fsm_state` stays None. Other tasks of the
event loop (the subscriber) run only where the tick awaits, before phase 3 and
between ticks; time passes anywhere.

Abstractions: a contact is the most severe guard rule it matches; times are ages
up to `DeadAge`; which detection continues which contact is left open (each
detection another one); the up to three sensor reads of a tick are one step,
since a read of another sensor only evicts; version numbers, history and
timestamps are left out, the order of a queue being the order of versions; there
is one subscriber. PAUSED and SHUTDOWN are unreachable here, and so is the
fallback of `_handle_fsm_with_state_store` on an exception. `FSMHandler` never
writes `ship_state_name`, so the SAFE_MODE test of `_make_decision` is never
true: the model has no such branch. In store mode `_switch_to_safe_mode` finds no
FSM state and changes nothing.

### RadarAlerts

Composes both ends of one path: a frame updates the tracks, its best track goes
through the cadence, an alert is put on the wire without waiting, and the console
makes an incident of it or drops it. One guard rule is followed,
UNKNOWN_CONTACT_CLOSE. `Events` are the other events the console gets, each the set
of keys of the incident rules that can match it: POWER_BUS_NEAR_LIMIT and
POWER_BUS_OVERLOAD match the same event. `ingest` applies every rule that matches
and then removes as many incidents as there are too many, in the order of their
places in the sorted list of candidates (`PlaceOut`). An alert may also reach the
console and match nothing (`DeliverUnmatched`): its rule is disabled, or the range is
exactly 70 m, which the guard's `<=` includes and the incident rule's `<` does not.
`AutoClear` are the keys that `refresh` clears.

Abstractions: fusion, association, handoff and signal are left open, so any
known contact may be detected or missed in any zone; hits count up to `MinHits`;
simulation time and wall clock are one clock; an alert arrives or is lost within
a unit of it; a uuid is used again only when nothing remembers it; the age that
makes `refresh` clear an incident is left open; the pending window of incident
rules is left out (an event inside it neither makes an incident nor takes back an
acknowledgement); incidents are ordered by the events that touched them, which
takes the events' timestamps to grow, and the order of incidents touched by the
same event is left open; the bridge's fallback is off, as by default.

## Runs

| Run | Checks | Instance | States |
|---|---|---|---|
| `store_safety` | types, order of rows, join counter, completeness of flush and close, lock, DurableLog | 2 producers (symmetric), 1 reader, queue 2, batch 2, 2 appends, writer may fail, close at any time | 3.8 million |
| `store_liveness` | every flush and close() return | the same with a healthy writer and close() last | |
| `store_deadwriter` | violated: producers wait for ever after a writer failure | batch 1 | |
| `session_queue` | types, ControlLease under the queue policy with an admin, strict mode | 2 clients, lease 1, clock values 1 old | 4.1 million |
| `session_recovery` | gone clients leave the registry, silent holders expire | one id with two connections, first a viewer, then an admin; one broadcast | 302 thousand |
| `session_input` | violated: an input is applied after control was lost | first come, 2 clients | |
| `ship_safety` | types, SAFE_MODE exit, cruise, docking | 2 confirmations each | 36 thousand |
| `ship_docking` | violated: docking confirmed by one track after SAFE_MODE | the same | |
| `sim_safety` | types, shed lists, fault order, one picture, burns, trips, news | battery 0 to 3, tank 3, bus limit 2 to 5 against a demand of 3 and up, 3 operator commands | 429 thousand |
| `agent_safety` | types, owners and guards, sensor slots, ERROR_STATE, causes, recovery, subscriber | 2 contacts, 2 radars for 1 slot, queue 1, dead after 1 | 613 thousand |
| `agent_phantom` | violated: a guard of a dead contact is acted on | the same | |
| `radar_alerts` | types, spacing of alerts, unacknowledged news, eviction, recurrence, garbage collection | 1 contact and 3 other keys, 2 of one event, for 2 places, cooldown 2, 1 missed frame | 133 thousand |

Bounds. A queue of 2 with a batch of 2 reaches the full queue, the full and the
partial batch, a sentinel behind a partial batch and one behind none. The ring,
`LagMark` and `MaxAppends` only bound the number of rows; lifecycle reports add
rows of their own. A lease of 1 tick and clock values of 1 tick reach every
relation of a clock value to a deadline: before, at and after it, for a renewal
before and after the value was read. Two clients suffice for any two threads in
the sections of a handover; a third would only wait behind the second. Two
confirmations tell "in a row" from "in total"; `MaxHits` follows
`docking_confirm_hits` beyond the largest number required, which is 3.

In `sim_safety` the demand of all loads exceeds the limit, that of some does
not, and the limit moves with the battery, so that every branch of the PDU, both
hysteresis loops and the dry tank are reached; three commands suffice to start,
load and disturb a simulation (start, fire, pause; start, link on, reset). In
`agent_safety` two radars compete for one slot and one contact; a queue of 1 is
full after one publication. `radar_alerts` has one contact: a second one takes the
run past a million states. The cadence keeps its keys apart, and that alerts of
several contacts keep their spacing and their news, also when only the best track
of a frame is looked at, is what the theorems show for any number; the choice of
the best track is not exercised by TLC. A store with two places is full with every
mixture of ranks; four keys, two of them of one event, make it exceed its limit by
two and replace everything in it at once.

Deadlock is checked except for EventStore, where all threads may be done.

Fairness. Threads that are inside a call keep running (WF for each thread; a
fair scheduler is all Python assumes); nobody has to make a call, send a message
or fail. A thread whose connection is gone reads the end of its stream
(`WF(~open /\ EndLoop)`). Time passes (`SF(Tick)`): Tick is disabled only by the
bound on the age of a clock value, never by the code, so weak fairness would let
threads that keep reading the clock stop time. The simulation loop ticks for ever
and its events interval is finite, so infinitely many ticks publish the news. The
event loop does not pass over the subscriber for ever although it may run only
where the tick awaits (`SF(Receive)`); that ticks reach the FSM again and again is
a condition in the properties, since the data provider may fail for ever. In
`radar_alerts` frames keep coming, alerts leave the wire, and an alert that is
published again and again is not lost, or refused by the incident rule, every time
(strong fairness of `Deliver`, written with `Deliverable` instead of ENABLED): this
is assumed of NATS, of rules that are enabled and of a contact that does not keep to
the limit's very value; without it no console would ever learn anything.

### What the four violations show

* `store_deadwriter`: after a SQLite error the writer drains its queue "so
  producers are not blocked forever" and ends, but `_emit_lifecycle_event` does
  not look at `last_error` and queues one more row; the next retention pass,
  query or stats waits in `join()` for ever, holding `_sqlite_lock`.
* `session_input`: the controller check and the change of the view are in
  different critical sections, so an input can be applied for a client that has
  lost control in between.
* `ship_docking`: `docking_confirm_hits` survives SAFE_MODE and a new approach.
  `UninterruptedDockingConfirmed` shows that this is the only way: a docking not
  cut short by SAFE_MODE is confirmed in a row.
* `agent_phantom`: the guards of the context are read only after a successful
  sensor read. When the first read of a tick fails or is empty they stay those of
  an earlier tick, also when their contact is long dead, although
  `guard_results` is commented as being read on every tick. `ErrorClears` shows
  that ticks whose reads succeed do get rid of them.

## Proofs

All theorems hold for every value of the constants that satisfies the named
assumption of the module (`EventStoreAssumption`, `SessionAssumption`,
`ShipAssumption`, `WorldAssumption`, `ServiceAssumption`, `AgentWorldAssumption`,
`AgentTickAssumption`, `RadarAlertsAssumption`): any number of threads, any capacities, leases and counts.

* EventStore. The properties are not inductive. `IInv` joins the types, that the
  ring is not empty, `WriterShape` (where the batch is empty and where an error
  is known), the order of rows, the counter as an inequality that also holds
  after an error, the lock discipline and, for every caller that has flushed,
  that its rows lie in the stored prefix of `puts`. The order says that `puts`
  is the concatenation of `stored`, the batch, the sentinel and the queue; the
  counter then says that a counter of 0 leaves nothing but `stored` (and what
  is behind a sentinel), which gives `FlushIsComplete` and `CloseIsComplete`.
  Every action is first reduced to a kind (a put, a writer step, a caller's
  move), so that each part is proved once per kind and not once per action.
  `StoreIsDurableLog` needs `Batches` besides: a batch holds no sentinel, has room
  while the writer takes rows, is at most `BatchSize` long and is not empty when
  it is committed. A commit happens only without an error (`WriterShape`), so the
  order of rows makes the new database a longer prefix of `puts`.
  `DatabaseHoldsPrefix` draws the conclusion for a reader, after an error too.
* Pruning. The list comprehensions and dict deletions of the code are one
  operator, `Without`, which gives each kept index its rank as its new place. What
  it returns is proved without induction over sequences: from a least-number
  principle for sets of numbers (`LeastNumber`) follows that ranks are without
  gaps and that the entry at each place exists and is unique. `WithoutType`,
  `WithoutListed`, `WithoutOrder` and `WithoutDistinct` are what the components cite.
* SessionServer. `TypesHold` is inductive as stated: it includes that the lease
  left is at most `Lease` and that a thread in a client's section has a client;
  `TypeCorrect` adds the waiting queue.
  `ServerKeepsPromise` then shows for each section that it maps to a step of
  `ControlLease` or to a stutter; the crucial cases are `Request` with an old
  clock value (a lease that is over for an older clock value is over now) and
  `GrantNext` with its second look at the controller.
* ShipFSM. `IInv` adds to the types that `exitHits` never exceeds the run of
  open gates in SAFE_MODE, that the mode CRUISE with a main-drive receipt means
  that thrust was asked for or the command was not accepted, and that
  `dockHits` is covered by the run of docked tracks until SAFE_MODE interrupts a
  docking. The action properties follow from it.
* SimService. `IInv` joins the types, `Sound(world)` (the shed set, the
  permissions, the loads, the limit and the burn agree), `OnePicture` and
  `FrameFresh` (with the radar allowed, the newest frame is not stale), which is
  what a pause needs: it freezes whatever frame is there. `Sound` does not hold
  between the stages of a step, so each stage has a lemma that says what it
  establishes for the next, and `Step` chains them.
* AgentTick. The FSM and command properties need what earlier phases left:
  `PhaseFacts` says that a report is present after the provider, also when the BIOS
  phase fails, and that no SAFE_MODE proposal exists before the proposals phase. The consistency of the world is an invariant of its own: for each
  operator of `AgentWorld` a lemma says what it does to owners and contacts.
  `SlotsStayBounded` goes through the same operators with `Fitting`: every sensor
  that owns a contact has a slot, no sensor has two, and the slots keep their
  limit. The eviction of a stale sensor has to drop the slot and the contacts
  together, and a frame may exceed the limit by one until it does. `TypeCorrect`
  rests on it, and on `TickTypes`, which adds that in store mode the snapshot is
  an FSM state.
* RadarAlerts. A cooldown is remembered by a key that may be dropped. The
  invariant is that a contact's cooldown is over, or its key is kept and its
  publish time is not older than the alert: `_gc` waits `GcTtl`, which is at least
  the cooldown (300 s and 60 s in the code), and this is where that assumption is
  used. The incident side is inductive once the news are known to be keys with an
  incident. `ActiveIncidentStays` needs `OrderInv`: the order lists every incident
  once, lists nothing else, and keeps to the limit. An event may exceed the limit
  by any number. The candidates are totally ordered by `GoesBefore`, so their places
  are all different and lie below their number (`PlaceOutOrder`,
  `PlaceOutInjective`); counting the places of those that go and of those that stay
  gives that exactly `MaxIncidents` stay and that whatever goes is before whatever
  stays (`EvictedAreFirst`). An unacknowledged active incident is of the highest
  rank: if it goes, all that stay are active as well and were seen after it, or are
  of the event itself (`Ingested`).

Every invariant and every action property of the runs, and both refinements, are
proved. Only model-checked is liveness, since fairness is out of the prover's
reach: `FlushReturns`, `CloseReturns`, `GoneClientsUnregistered`,
`SilentControllerExpires`, `RcsEnds`, `TripNewsSettles`, `ErrorClears`,
`SubscriberSettles`, `ReturningContactSeen`, `GoneKeysForgotten`. The four
properties of the runs that expect a violation do not hold.

## Not modelled

* The ORION console (`main_orion.py`, `orion_v/`), the shell, chat and TUI:
  layout, wording and key handling. They are a large part of the repository's
  lines, and what they show is a function of state kept elsewhere.
* The intents service: text of questions and answers around calls of a language
  model.
* The numeric side of radar pipeline, fusion and physics: floating-point geometry,
  which the models take as a free choice.
* BIOS service, gateway, registrar: request handlers without state of their own.
* The session client, the proposal store of the bridge, `stop()` and the event
  deduplication of the session server: modelled next, see the plan.

## Plan

In this order; each step adds its runs and theorems to those above.

1. Done: EventStore; SessionServer with ControlLease; ShipFSM.
2. Done: the simulation service and its world step; the agent's tick with
   AsyncStateStore and FSMHandler; the path from radar frames to incidents.
3. The bridge's ProposalStore (a proposal is executed at most once, capacity and
   time to live).
4. SessionClient composed with SessionServer; SessionServer over the ring of
   EventStore (events published once and in order).
5. Procedure engine of the console; bookkeeping of the intents service; the
   confirm-frame counters of the radar situation engine.
