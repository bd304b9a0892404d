----------------------------- MODULE AgentWorld -----------------------------
(* WorldModel of the Q-Core agent (q_core_agent/core/world_model.py): the      *)
(* radar contacts the agent knows, which radar owns each contact that came     *)
(* from a frame, how long ago each was heard, and the guard results computed   *)
(* from them.  Every operator maps a world record to the next one.             *)
(*                                                                             *)
(* A contact is reduced to the most severe guard rule it matches; the time     *)
(* since it was heard is an age that stops at DeadAge.  The geometry that      *)
(* decides which detection continues which contact is left open.               *)
EXTENDS Naturals, Sequences, FiniteSets, Pruning

CONSTANTS
    Tracks,           \* contact identities (uuid4 values)
    Sensors,          \* sensor ids of radar frames
    DeadAge,          \* RADAR_TRACK_DEAD_S in clock units
    MaxFrameSensors,  \* _MAX_FRAME_SENSORS
    MaxDetections     \* bound: detections of one frame

ASSUME AgentWorldAssumption ==
    /\ DeadAge \in Nat \ {0}
    /\ MaxFrameSensors \in Nat \ {0}
    /\ MaxDetections \in Nat

Severities == {"warning", "critical"}
Threats == Severities \cup {"none"}

Worlds == [threat : [Tracks -> Threats \cup {"gone"}],
           age    : [Tracks -> 0..DeadAge],
           owned  : [Sensors -> SUBSET Tracks],
           order  : Seq(Sensors),
           guards : SUBSET (Tracks \X Severities)]

NewWorld == [threat |-> [t \in Tracks |-> "gone"],
             age    |-> [t \in Tracks |-> 0],
             owned  |-> [s \in Sensors |-> {}],
             order  |-> <<>>,
             guards |-> {}]

Known(w) == {t \in Tracks : w.threat[t] # "gone"}
Owned(w) == UNION {w.owned[s] : s \in Sensors}

\* GuardTable.evaluate_tracks over the known contacts.
EvaluateTracks(threat) ==
    {g \in Tracks \X Severities : threat[g[1]] = g[2]}

\* The contacts of gone leave _radar_tracks and _track_last_ingest_ts.
Forget(w, gone) ==
    [w EXCEPT !.threat = [t \in Tracks |-> IF t \in gone THEN "gone" ELSE @[t]],
              !.age    = [t \in Tracks |-> IF t \in gone THEN 0 ELSE @[t]]]

\* The contacts of ids leave every sensor's set.
Disown(w, ids) ==
    [w EXCEPT !.owned = [s \in Sensors |-> @[s] \ ids]]

\* The dict keeps the keys whose set is not empty, in their order.
DropEmptyKeys(w) ==
    [w EXCEPT !.order = Without(@, {s \in Sensors : w.owned[s] = {}})]

RecalculateGuards(w) == [w EXCEPT !.guards = EvaluateTracks(w.threat)]

Dead(w) == {t \in Known(w) : w.age[t] >= DeadAge}

\* Mutant: age never evicts a contact.
EvictDead_Never(w) == w

\* _evict_dead_tracks, first step of every ingest and of every read.
EvictDead(w) ==
    IF Dead(w) = {} THEN w
    ELSE RecalculateGuards(DropEmptyKeys(Disown(Forget(w, Dead(w)), Dead(w))))

\* ingest_sensor_data with a track message; "gone" stands for status LOST.
IngestTrack(w0, t, threat) ==
    LET w == EvictDead(w0) IN
    RecalculateGuards(
        IF threat = "gone"
        THEN Disown(Forget(w, {t}), {t})
        ELSE [w EXCEPT !.threat = [@ EXCEPT ![t] = threat],
                       !.age    = [@ EXCEPT ![t] = 0]])

\* The outcomes of matching one frame: every detection continues a different
\* owned contact or starts a new one.
FrameUpdates(w) ==
    LET ids == Owned(w) \cup (Tracks \ Known(w)) IN
    UNION {[S -> Threats] : S \in {S \in SUBSET ids : Cardinality(S) <= MaxDetections}}

\* Mutant: the slot of the oldest sensor is reused without a word.
EvictStaleSensors_KeepsContacts(w) ==
    IF Len(w.order) <= MaxFrameSensors THEN w ELSE [w EXCEPT !.order = Tail(@)]

\* _evict_stale_frame_sensors: the sensor that has been silent longest goes.
EvictStaleSensors(w) ==
    IF Len(w.order) <= MaxFrameSensors THEN w
    ELSE LET oldest == {s \in Sensors : s = Head(w.order)}
             lost   == UNION {w.owned[s] : s \in oldest}
         IN  [Forget(w, lost) EXCEPT
                !.owned = [s \in Sensors |-> IF s \in oldest THEN {} ELSE @[s]],
                !.order = Tail(@)]

\* Mutant: a contact matched by another radar keeps its old owner too.
TakeOver_Shared(w, s, ids) ==
    LET others == [w EXCEPT !.order = Without(@, {s})]
        kept   == DropEmptyKeys([others EXCEPT !.owned[s] = {}])
    IN  IF ids = {} THEN kept
        ELSE [kept EXCEPT !.owned[s] = ids, !.order = Append(@, s)]

\* The frame of sensor s decides alone what s owns; what it matched leaves its
\* former owner.
TakeOver(w, s, ids) ==
    LET others == [w EXCEPT !.order = Without(@, {s})]
        kept   == DropEmptyKeys([Disown(others, ids) EXCEPT !.owned[s] = {}])
    IN  IF ids = {} THEN kept
        ELSE [kept EXCEPT !.owned[s] = ids, !.order = Append(@, s)]

\* ingest_sensor_data with a frame of sensor s; upd gives the contacts the
\* frame updated.  w is already rid of the dead.
IngestFrame(w, s, upd) ==
    LET ids   == DOMAIN upd
        lost  == w.owned[s] \ ids
        seen  == [Forget(w, lost) EXCEPT
                    !.threat = [t \in Tracks |-> IF t \in ids THEN upd[t] ELSE @[t]],
                    !.age    = [t \in Tracks |-> IF t \in ids THEN 0 ELSE @[t]]]
        taken == TakeOver(seen, s, ids)
        kept  == IF ids = {} THEN taken ELSE EvictStaleSensors(taken)
    IN  IF ids = {} /\ w.owned[s] = {} THEN kept ELSE RecalculateGuards(kept)

\* Time passes for every known contact.
Grow(w) ==
    [w EXCEPT !.age = [t \in Tracks |->
        IF t \in Known(w) /\ @[t] < DeadAge THEN @[t] + 1 ELSE @[t]]]

----------------------------------------------------------------------------
(* What the other components rely on.                                      *)

\* A contact from a frame has one owner, and an owner's contact is known: a
\* frame of one radar neither deletes nor keeps alive a contact of another.
OneOwner(w) ==
    /\ Owned(w) \subseteq Known(w)
    /\ \A s1, s2 \in Sensors : s1 # s2 => w.owned[s1] \cap w.owned[s2] = {}

\* The dict has a slot for every sensor that owns a contact, one per sensor,
\* and no more than MaxFrameSensors of them.
SlotsBounded(w) ==
    /\ Len(w.order) <= MaxFrameSensors
    /\ Distinct(w.order)
    /\ \A s \in Sensors : w.owned[s] # {} => Listed(s, w.order)

\* The guard results are exactly those of the known contacts.
GuardsOfKnown(w) == w.guards = EvaluateTracks(w.threat)
=============================================================================
