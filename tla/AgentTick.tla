----------------------------- MODULE AgentTick ------------------------------
(* One Q-Core agent process: TickOrchestrator.run_tick / run_tick_async, the   *)
(* phases of QCoreAgent, FSMHandler, RuleEngine, ProposalEvaluator, and the    *)
(* AsyncStateStore with one subscriber.  A tick is a row of phases run by one  *)
(* task; the subscriber's task runs where the tick awaits, time passes at any  *)
(* point.                                                                      *)
(*                                                                             *)
(* With QIKI_USE_STATESTORE the FSM lives in the store and context.fsm_state   *)
(* stays None; without it the store is unused and the FSM is                   *)
(* context.fsm_state.  The two enumerations of FSM states are mapped one to    *)
(* one by the code and carry the agent's names here.                           *)
EXTENDS AgentWorld

CONSTANTS
    QueueMax        \* maxsize of a subscriber's queue

ASSUME AgentTickAssumption == QueueMax \in Nat \ {0}

VARIABLES
    storeMode,   \* QIKI_USE_STATESTORE, read at start
    phase,       \* the phase the running tick is about to enter
    ctx,         \* AgentContext
    world,       \* WorldModel
    quiet,       \* this tick's sensor reads answered, and not with radar data
    snap,        \* state of the store's snapshot
    subscribed,  \* the subscriber has a queue in _subscribers
    queue,       \* the subscriber's asyncio.Queue
    seen         \* the state the subscriber took last

vars == <<storeMode, phase, ctx, world, quiet, snap, subscribed, queue, seen>>
storeVars == <<snap, subscribed, queue, seen>>

FsmStates == {"BOOTING", "IDLE", "ACTIVE", "ERROR_STATE"}
NoState == "none"

\* A BIOS report: every device OK; every reported device OK but one of the
\* hardware profile missing; some device not OK.
Reports == {"go", "partial", "nogo"}

\* proposals: none, some without actions, or the rule engine's SAFE_MODE one.
Contexts == [bios      : Reports \cup {"none"},
             fsm       : FsmStates \cup {NoState},
             proposals : {"none", "plain", "safe"},
             guards    : SUBSET (Tracks \X Severities)]

Phases == {"provider", "sensors", "bios", "fsm", "proposals", "decision"}

Init ==
    /\ storeMode \in BOOLEAN
    /\ phase = "provider"
    /\ ctx = [bios |-> "none", fsm |-> NoState, proposals |-> "none", guards |-> {}]
    /\ world = NewWorld
    /\ quiet = FALSE
    /\ snap = IF storeMode THEN "BOOTING" ELSE NoState
    /\ subscribed = FALSE
    /\ queue = <<>>
    /\ seen = NoState

----------------------------------------------------------------------------
(* FSMHandler.                                                             *)

\* is_bios_ok: all_systems_go of the report as it stands in the context.
BiosOk(c) == c.bios \in {"go", "partial"}

Critical(guards) == \E g \in guards : g[2] = "critical"

ApplyStandardRules(c, state) ==
    CASE state = "BOOTING" -> IF BiosOk(c) THEN "IDLE" ELSE "ERROR_STATE"
      [] state = "IDLE" /\ c.proposals # "none" -> "ACTIVE"
      [] state = "ACTIVE" /\ c.proposals = "none" -> "IDLE"
      [] state = "ERROR_STATE" /\ BiosOk(c) -> "IDLE"
      [] OTHER -> state

ApplyGuardEvent(guards, state) ==
    IF Critical(guards) THEN "ERROR_STATE"
    ELSE IF state = "IDLE" THEN "ACTIVE" ELSE state

\* _select_guard_event: the context's guards, or else the world model's.
SelectGuards(c, w) == IF c.guards # {} THEN c.guards ELSE EvictDead(w).guards

\* Mutant: the standard rules are tried first and a guard only without one.
FsmNext_RulesFirst(c, w, state) ==
    LET next == ApplyStandardRules(c, state) IN
    IF next = state /\ SelectGuards(c, w) # {}
    THEN ApplyGuardEvent(SelectGuards(c, w), state) ELSE next

FsmNext(c, w, state) ==
    IF SelectGuards(c, w) # {} THEN ApplyGuardEvent(SelectGuards(c, w), state)
    ELSE ApplyStandardRules(c, state)

\* most_critical_guard evicts when it is asked.
WorldAfterSelect(c, w) == IF c.guards # {} THEN w ELSE EvictDead(w)

\* _switch_to_safe_mode: without a context FSM only an event is recorded; with
\* one the FSM handler runs once more on the context as it is.
SafeFsm(c, w) == IF c.fsm = NoState THEN NoState ELSE FsmNext(c, w, c.fsm)
SwitchToSafeMode(c, w) == [c EXCEPT !.fsm = SafeFsm(c, w)]
SafeWorld(c, w) == IF c.fsm = NoState THEN w ELSE WorldAfterSelect(c, w)

----------------------------------------------------------------------------
(* AsyncStateStore.                                                        *)

\* Mutant: the queue of a slow subscriber grows.
Notify_NoLimit(state) ==
    queue' = IF subscribed THEN Append(queue, state) ELSE queue

\* _notify_subscribers: a full queue skips the update.
Notify(state) ==
    queue' = IF subscribed /\ Len(queue) < QueueMax THEN Append(queue, state) ELSE queue

\* Mutant: set() returns early when the state has not changed.
StoreSet_OnlyChanges(state) ==
    /\ snap' = state
    /\ IF state = snap THEN queue' = queue ELSE Notify(state)
    /\ UNCHANGED <<subscribed, seen>>

\* set() without enforce_version: an unchanged version is bumped and every
\* subscriber is told, also when the state is the one it was.
StoreSet(state) ==
    /\ snap' = state
    /\ Notify(state)
    /\ UNCHANGED <<subscribed, seen>>

\* Phases 1, 2, 4 and 5 never await: another task of the event loop runs before
\* phase 3 or while the tick sleeps.
Awaiting == phase \in {"provider", "fsm"}

\* subscribe(): a new queue that starts with the current snapshot.
Subscribe ==
    /\ Awaiting /\ storeMode /\ ~subscribed
    /\ subscribed' = TRUE
    /\ queue' = <<snap>>
    /\ UNCHANGED <<storeMode, phase, ctx, world, quiet, snap, seen>>

\* unsubscribe(); the subscriber is forgotten with its queue.
Unsubscribe ==
    /\ Awaiting /\ subscribed
    /\ subscribed' = FALSE
    /\ queue' = <<>>
    /\ seen' = NoState
    /\ UNCHANGED <<storeMode, phase, ctx, world, quiet, snap>>

\* The subscriber's task takes the oldest snapshot of its queue.
Receive ==
    /\ Awaiting /\ queue # <<>>
    /\ seen' = Head(queue)
    /\ queue' = Tail(queue)
    /\ UNCHANGED <<storeMode, phase, ctx, world, quiet, snap, subscribed>>

----------------------------------------------------------------------------
(* Phase 1: _update_context and _update_context_without_fsm.               *)

\* The provider raises, or (legacy) has no FSM state to start from: the tick is
\* abandoned after the safe mode requests of the agent and the orchestrator.
ProviderFails ==
    /\ phase = "provider"
    /\ \E bios \in Reports \cup {ctx.bios} :
         LET c  == [ctx EXCEPT !.bios = bios]
             c1 == IF storeMode THEN c ELSE SwitchToSafeMode(c, world)
             w1 == IF storeMode THEN world ELSE SafeWorld(c, world)
         IN  /\ ctx' = SwitchToSafeMode(c1, w1)
             /\ world' = SafeWorld(c1, w1)
    /\ quiet' = FALSE
    /\ UNCHANGED <<storeMode, phase, storeVars>>

\* Mutant: the context keeps the proposals of the last tick.
UpdateFromProvider_KeepsProposals ==
    /\ phase = "provider" /\ phase' = "sensors"
    /\ \E bios \in Reports :
         ctx' = [ctx EXCEPT !.bios = bios,
                            !.fsm = IF ~storeMode /\ @ = NoState THEN "BOOTING" ELSE @]
    /\ UNCHANGED <<storeMode, world, quiet, storeVars>>

\* update_from_provider: the BIOS report, the first FSM state (legacy) and the
\* provider's own proposals.
UpdateFromProvider ==
    /\ phase = "provider" /\ phase' = "sensors"
    /\ \E bios \in Reports, proposals \in {"none", "plain"} :
         ctx' = [ctx EXCEPT !.bios = bios,
                            !.fsm = IF ~storeMode /\ @ = NoState THEN "BOOTING" ELSE @,
                            !.proposals = proposals]
    /\ UNCHANGED <<storeMode, world, quiet, storeVars>>

\* _ingest_sensor_data, the first read raises: safe mode is requested and the
\* guards of the context stay.
SensorsFail ==
    /\ phase = "sensors" /\ phase' = "bios"
    /\ ctx' = SwitchToSafeMode(ctx, world)
    /\ world' = SafeWorld(ctx, world)
    /\ quiet' = FALSE
    /\ UNCHANGED <<storeMode, storeVars>>

\* The first read returns nothing: the guards of the context stay.
SensorsEmpty ==
    /\ phase = "sensors" /\ phase' = "bios"
    /\ quiet' = FALSE
    /\ UNCHANGED <<storeMode, ctx, world, storeVars>>

\* At least one read succeeded; w is the world after ingest_sensor_data.
Ingested(w) ==
    /\ phase = "sensors" /\ phase' = "bios"
    /\ ctx' = [ctx EXCEPT !.guards = w.guards]
    /\ world' = w
    /\ UNCHANGED <<storeMode, storeVars>>

\* Up to three reads of other sensors, which only evict what is dead.
IngestOther == Ingested(EvictDead(world)) /\ quiet' = TRUE

IngestRadarTrack ==
    /\ \E t \in Tracks, threat \in Threats \cup {"gone"} :
         Ingested(IngestTrack(world, t, threat))
    /\ quiet' = FALSE

IngestRadarFrame ==
    /\ \E s \in Sensors : \E upd \in FrameUpdates(EvictDead(world)) :
         Ingested(IngestFrame(EvictDead(world), s, upd))
    /\ quiet' = FALSE

----------------------------------------------------------------------------
(* Phases 2 to 5.                                                          *)

\* process_bios_status adds the devices the report lacks, with status ERROR.
HandleBios ==
    /\ phase = "bios" /\ phase' = "fsm"
    /\ ctx' = [ctx EXCEPT !.bios = IF @ = "partial" THEN "nogo" ELSE @]
    /\ UNCHANGED <<storeMode, world, quiet, storeVars>>

\* The BIOS handler raises: the report stays as the provider gave it.
HandleBiosFails ==
    /\ phase = "bios" /\ phase' = "fsm"
    /\ ctx' = SwitchToSafeMode(ctx, world)
    /\ world' = SafeWorld(ctx, world)
    /\ UNCHANGED <<storeMode, quiet, storeVars>>

\* _handle_fsm, on the context's snapshot.
HandleFsm ==
    /\ phase = "fsm" /\ ~storeMode
    /\ ctx' = [ctx EXCEPT !.fsm = FsmNext(ctx, world, @)]
    /\ world' = WorldAfterSelect(ctx, world)
    /\ phase' = "proposals"
    /\ UNCHANGED <<storeMode, quiet, storeVars>>

\* _handle_fsm_with_state_store: get, process_fsm_dto, set.
HandleFsmWithStateStore ==
    /\ phase = "fsm" /\ storeMode
    /\ StoreSet(FsmNext(ctx, world, snap))
    /\ world' = WorldAfterSelect(ctx, world)
    /\ phase' = "proposals"
    /\ UNCHANGED <<storeMode, ctx, quiet>>

\* What the neural engine adds: nothing that passes the threshold, a plan, or a
\* SAFETY proposal above the rule engine's priority.
Neural == {"none", "plan", "safety"}

\* RuleEngine.generate_proposals and ProposalEvaluator.evaluate_proposals.
BestProposal(c, neural) ==
    CASE neural = "safety" -> "plain"
      [] neural # "safety" /\ (~BiosOk(c) \/ Critical(c.guards)) -> "safe"
      [] neural = "plan" /\ BiosOk(c) /\ ~Critical(c.guards) -> "plain"
      [] OTHER -> IF c.guards # {} THEN "plain" ELSE "none"

EvaluateProposals ==
    /\ phase = "proposals" /\ phase' = "decision"
    /\ \E neural \in Neural : ctx' = [ctx EXCEPT !.proposals = BestProposal(ctx, neural)]
    /\ UNCHANGED <<storeMode, world, quiet, storeVars>>

\* The neural engine raises what it does not catch: the provider's proposals
\* stay, the rule engine's are lost.
EvaluateProposalsFails ==
    /\ phase = "proposals" /\ phase' = "decision"
    /\ ctx' = SwitchToSafeMode(ctx, world)
    /\ world' = SafeWorld(ctx, world)
    /\ UNCHANGED <<storeMode, quiet, storeVars>>

\* _make_decision without a command to send.  The FSM handler in use never
\* writes ship_state_name, so the SAFE_MODE test is never true.
NothingToSend ==
    /\ phase = "decision" /\ ctx.proposals # "safe"
    /\ phase' = "provider"
    /\ UNCHANGED <<storeMode, ctx, world, quiet, storeVars>>

\* The command is accepted, or rejected with a ValueError.
SendCommand ==
    /\ phase = "decision" /\ ctx.proposals = "safe"
    /\ phase' = "provider"
    /\ UNCHANGED <<storeMode, ctx, world, quiet, storeVars>>

\* Timeout, lost connection or another error: safe mode is requested.
SendCommandFails ==
    /\ phase = "decision" /\ ctx.proposals = "safe"
    /\ ctx' = SwitchToSafeMode(ctx, world)
    /\ world' = SafeWorld(ctx, world)
    /\ phase' = "provider"
    /\ UNCHANGED <<storeMode, quiet, storeVars>>

\* Time passes for the contacts.
Clock ==
    /\ world' = Grow(world)
    /\ world' # world
    /\ UNCHANGED <<storeMode, phase, ctx, quiet, storeVars>>

----------------------------------------------------------------------------

UpdateContext == ProviderFails \/ UpdateFromProvider \/ SensorsFail \/ SensorsEmpty \/ IngestOther
                    \/ IngestRadarTrack \/ IngestRadarFrame

RestOfTick == HandleBios \/ HandleBiosFails \/ HandleFsm \/ HandleFsmWithStateStore
                \/ EvaluateProposals \/ EvaluateProposalsFails
                \/ NothingToSend \/ SendCommand \/ SendCommandFails

Next == UpdateContext \/ RestOfTick \/ Subscribe \/ Unsubscribe \/ Receive \/ Clock

Spec == Init /\ [][Next]_vars

\* The event loop does not pass over the subscriber's task at every await, and
\* time passes for the contacts that can still grow older.  That ticks go on is
\* a condition of the properties, since the provider may fail for ever.
FairSpec ==
    /\ Spec
    /\ SF_vars(Receive)
    /\ WF_vars(Clock)

----------------------------------------------------------------------------
(* Properties.                                                             *)

\* The values the agent's variables take.
TypeOK ==
    /\ storeMode \in BOOLEAN
    /\ phase \in Phases
    /\ ctx \in Contexts
    /\ world \in Worlds
    /\ quiet \in BOOLEAN
    /\ snap \in FsmStates \cup {NoState}
    /\ subscribed \in BOOLEAN
    /\ queue \in Seq(FsmStates) /\ Len(queue) <= QueueMax
    /\ seen \in FsmStates \cup {NoState}

\* WorldModel: whatever the order of frames, track messages, silence and reads,
\* a contact has one owner and no guard outlives its contact.
ContactsConsistent == OneOwner(world) /\ GuardsOfKnown(world)

\* _evict_stale_frame_sensors: however many radars come and go, the slots of
\* frame sensors stay bounded and no sensor that owns a contact lost its slot.
FrameSlotsBounded == SlotsBounded(world)

\* The state of the FSM in use.
Fsm == IF storeMode THEN snap ELSE ctx.fsm

\* FSMHandler: when the tick goes on to its proposals with a critical guard in
\* the context, the FSM is in ERROR_STATE, whatever the BIOS and the proposals.
CriticalHoldsError ==
    phase = "proposals" /\ Critical(ctx.guards) => Fsm = "ERROR_STATE"

\* A SAFE_MODE command has a cause in the context that is acted on: a BIOS that
\* is not all go or a critical guard, also when an earlier phase failed.
CommandsHaveCause ==
    phase = "decision" /\ ctx.proposals = "safe" =>
        ctx.bios = "nogo" \/ Critical(ctx.guards)

\* Tick after tick gets past the FSM.
TicksGoOn == []<>(phase = "provider") /\ []<>(phase = "proposals")

\* The contact of a radar that fell silent dies: with ticks going on, the other
\* sensors still answering and the BIOS all go, the FSM does not stay in
\* ERROR_STATE.
ErrorClears ==
    TicksGoOn /\ <>[](ctx.bios = "go" /\ quiet) => []<>(Fsm # "ERROR_STATE")

\* A subscriber whose queue was full is not left with an old state: while ticks
\* keep reaching the FSM, every one of them publishes the snapshot again, and
\* once the FSM settles the state seen last is the state of the FSM.
SubscriberSettles ==
    /\ TicksGoOn
    /\ <>[][subscribed /\ snap' = snap]_vars
    => <>[](seen = snap \/ ~subscribed)

\* world_model.py says that agent.py reads the guards on every tick, with an
\* ingest or without: the guards a tick goes on with after its sensor phase are
\* never of a contact that has been silent for DeadAge.
NoPhantomGuard ==
    [][phase = "sensors" /\ phase' = "bios" =>
         \A g \in ctx'.guards : world'.age[g[1]] < DeadAge]_vars
=============================================================================
