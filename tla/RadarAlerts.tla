---------------------------- MODULE RadarAlerts -----------------------------
(* From radar frames to the operator's incidents: RadarTrackStore, the best    *)
(* track of each frame and RadarGuardCadence in the FastStream bridge, the     *)
(* guard alerts on NATS, and the IncidentStore of the ORION console.           *)
(*                                                                             *)
(* One guard rule is followed, UNKNOWN_CONTACT_CLOSE, whose incidents have     *)
(* auto_clear false; the console also gets other events, which may match       *)
(* several incident rules at once.  Geometry, fusion and association are left  *)
(* open: a frame gives every contact a detection or none.  Range is a zone:    *)
(* near (inside max_range_m), edge (inside the hysteresis), far.  Times are    *)
(* ages that stop growing where nothing tells them apart.                      *)
EXTENDS Naturals, Sequences, FiniteSets, Pruning

CONSTANTS
    Tracks,        \* contacts some part of the system still knows
    MaxMisses,     \* max_misses of the track store
    MinHits,       \* min_hits_to_confirm
    MinDuration,   \* min_duration_s of the guard rule
    Cooldown,      \* cooldown_s of the guard rule
    GcTtl,         \* ttl_s of the cadence's _gc
    Events,        \* other events the console receives: the keys of the incident
                   \* rules that match it
    AutoClear,     \* the keys of rules with auto_clear
    ClearCooldown, \* cooldown_s of the incident rules
    MaxIncidents   \* max_incidents of the console

Others == UNION Events

ASSUME RadarAlertsAssumption ==
    /\ MaxMisses \in Nat \ {0} /\ MinHits \in Nat \ {0}
    /\ MinDuration \in Nat /\ Cooldown \in Nat \ {0} /\ GcTtl \in Nat
    /\ MinDuration <= GcTtl /\ Cooldown <= GcTtl
    /\ ClearCooldown \in Nat /\ MaxIncidents \in Nat \ {0}
    /\ Tracks \cap Others = {} /\ IsFiniteSet(Others) /\ AutoClear \subseteq Others

VARIABLES
    tracks,      \* RadarTrackStore._tracks
    keys,        \* RadarGuardCadence._states
    wire,        \* guard alerts published and not yet delivered
    incidents,   \* IncidentStore._incidents: state and acked flag, or none
    order,       \* the incidents by last_seen
    sinceClear,  \* age of the operator's last clear (IncidentStore._cooldowns)
    sinceAlert,  \* history: age of the last alert for the contact
    news,        \* history: incidents with an alert since they were acked
    sight        \* history: the contact the cadence saw last, and if it matched

vars == <<tracks, keys, wire, incidents, order, sinceClear, sinceAlert, news, sight>>
bridgeVars == <<tracks, keys, sinceAlert, sight>>
consoleVars == <<incidents, order, sinceClear, news>>

Keys == Tracks \cup Others
Zones == {"near", "edge", "far"}
NoTrack == [hits |-> 0, miss |-> 0, zone |-> "far"]

\* NoTime: the age of what has not happened, a time of 0.0 in the code.
NoTime == GcTtl + 2
Ages == 0..NoTime
NoKey == [key |-> FALSE, active |-> FALSE, pub |-> NoTime, first |-> NoTime, last |-> NoTime]

\* acked and cleared incidents carry both names; active and not acked is
\* "active".  rank of _enforce_max_incidents.
Rank == [clearedAcked |-> 0, cleared |-> 1, acked |-> 2, active |-> 3]
IncidentStates == DOMAIN Rank
Acked(v) == v \in {"acked", "clearedAcked"}

Init ==
    /\ tracks = [t \in Tracks |-> NoTrack]
    /\ keys = [t \in Tracks |-> NoKey]
    /\ wire = <<>>
    /\ incidents = [k \in Keys |-> "none"]
    /\ order = <<>>
    /\ sinceClear = [k \in Keys |-> ClearCooldown]
    /\ sinceAlert = [t \in Tracks |-> Cooldown]
    /\ news = {}
    /\ sight = <<>>

----------------------------------------------------------------------------
(* RadarTrackStore.                                                        *)

\* A contact nothing remembers: a new track gets a new uuid.
Unknown(t) ==
    /\ tracks[t] = NoTrack /\ keys[t] = NoKey /\ incidents[t] = "none"
    /\ sinceClear[t] = ClearCooldown /\ \A i \in DOMAIN wire : wire[i] # t

\* What a frame may report of a contact.
Reports(t) == IF tracks[t] # NoTrack \/ Unknown(t) THEN Zones \cup {"none"} ELSE {"none"}

Detections == {d \in [Tracks -> Zones \cup {"none"}] : \A t \in Tracks : d[t] \in Reports(t)}

\* _update_associated_tracks, _update_missed_tracks, _spawn_new_tracks and
\* _prune_lost_tracks; hits count up to MinHits.
ProcessTrack(s, zone) ==
    IF zone # "none"
    THEN [hits |-> IF s.hits < MinHits THEN s.hits + 1 ELSE s.hits, miss |-> 0, zone |-> zone]
    ELSE IF s = NoTrack \/ s.miss >= MaxMisses THEN NoTrack
    ELSE [s EXCEPT !.miss = @ + 1]

ProcessFrame(d) == [t \in Tracks |-> ProcessTrack(tracks[t], d[t])]

Confirmed(s) == s.hits >= MinHits

\* _select_best_track: quality is zero at MaxMisses and depends on the signal
\* below, then confirmed tracks come first.
BestTracks(ts) ==
    LET stored    == {t \in Tracks : ts[t] # NoTrack}
        audible   == {t \in stored : ts[t].miss < MaxMisses}
        confirmed == {t \in stored : Confirmed(ts[t])}
    IN  IF audible # {} THEN audible ELSE IF confirmed # {} THEN confirmed ELSE stored

----------------------------------------------------------------------------
(* GuardRule.matches and RadarGuardCadence.                                *)

\* Status, range and radial conditions hold, and quality is not zero.
InRange(s, active) ==
    /\ Confirmed(s) /\ s.miss < MaxMisses
    /\ s.zone = "near" \/ (active /\ s.zone = "edge")

\* The outcomes of matches(): the signal may give less than min_quality.
Matches(s, active) == IF InRange(s, active) THEN BOOLEAN ELSE {FALSE}

\* first_match_ts after a match: a gap longer than MinDuration starts again.
FirstMatch(k) ==
    IF k.first = NoTime \/ (MinDuration > 0 /\ k.last # NoTime /\ k.last > MinDuration)
    THEN 0 ELSE k.first

\* The edge that is published.
Rises(k, match) == match /\ ~k.active /\ FirstMatch(k) >= MinDuration /\ k.pub >= Cooldown

Matched(k) == [k EXCEPT !.key = TRUE, !.first = FirstMatch(k), !.last = 0]

\* Mutant: a key that stops matching is dropped with its last publish time.
UpdateKey_DropsKey(k, match) ==
    IF Rises(k, match) THEN [Matched(k) EXCEPT !.active = TRUE, !.pub = 0]
    ELSE IF match THEN Matched(k) ELSE NoKey

\* Mutant: the key stays active when the contact leaves.
UpdateKey_StaysActive(k, match) ==
    IF Rises(k, match) THEN [Matched(k) EXCEPT !.active = TRUE, !.pub = 0]
    ELSE IF match THEN Matched(k) ELSE k

\* update() for the rule and the track given.
UpdateKey(k, match) ==
    IF Rises(k, match) THEN [Matched(k) EXCEPT !.active = TRUE, !.pub = 0]
    ELSE IF match THEN Matched(k)
    ELSE IF k.active THEN [k EXCEPT !.active = FALSE, !.first = NoTime, !.last = NoTime]
    ELSE k

\* Mutant: the last match does not count.
Expired_PublishOnly(k) == k.pub # NoTime /\ k.pub > GcTtl

\* _gc drops an inactive key whose last publish, or else last match, is more
\* than GcTtl ago.
Expired(k) == LET last == IF k.pub = NoTime THEN k.last ELSE k.pub IN last # NoTime /\ last > GcTtl
Gc(ks) == [t \in Tracks |-> IF ~ks[t].active /\ Expired(ks[t]) THEN NoKey ELSE ks[t]]

----------------------------------------------------------------------------
(* handle_radar_frame.                                                     *)

\* The track could not be published: the cadence does not see this frame.
FramePublishFails ==
    /\ \E d \in Detections : tracks' = ProcessFrame(d)
    /\ UNCHANGED <<keys, sinceAlert, sight, wire, consoleVars>>

\* No track is left; the empty track matches nothing.
FrameEmpty ==
    /\ \E d \in Detections :
         /\ tracks' = ProcessFrame(d)
         /\ BestTracks(tracks') = {}
    /\ keys' = Gc(keys)
    /\ sight' = <<>>
    /\ UNCHANGED <<sinceAlert, wire, consoleVars>>

\* The best track goes through the cadence and raises no alert.
FrameQuiet ==
    \E d \in Detections :
        /\ tracks' = ProcessFrame(d)
        /\ \E t \in BestTracks(tracks') : \E match \in Matches(tracks'[t], keys[t].active) :
             /\ ~Rises(keys[t], match)
             /\ keys' = Gc([keys EXCEPT ![t] = UpdateKey(@, match)])
             /\ sight' = <<t, match>>
        /\ UNCHANGED <<sinceAlert, wire, consoleVars>>

\* The best track raises an alert, which is published without waiting.
FrameAlert(t) ==
    /\ \E d \in Detections : tracks' = ProcessFrame(d)
    /\ t \in BestTracks(tracks')
    /\ InRange(tracks'[t], keys[t].active) /\ Rises(keys[t], TRUE)
    /\ keys' = Gc([keys EXCEPT ![t] = UpdateKey(@, TRUE)])
    /\ wire' = Append(wire, t)
    /\ sinceAlert' = [sinceAlert EXCEPT ![t] = 0]
    /\ sight' = <<t, TRUE>>
    /\ UNCHANGED consoleVars

----------------------------------------------------------------------------
(* IncidentStore and the operator's commands.                              *)

\* Mutant: a recurring event leaves the incident acknowledged.
ApplyRule_KeepsAck(v) == IF v = "none" THEN "active" ELSE v

\* _apply_rule outside a cooldown: a new incident, or the known one
\* unacknowledged again; its state stays.
ApplyRule(v) ==
    CASE v \in {"none", "acked"} -> "active"
      [] v = "clearedAcked" -> "cleared"
      [] OTHER -> v

\* i goes before j: it has a lower rank, or the same and was seen longer ago.
GoesBefore(inc, ord, i, j) ==
    \/ Rank[inc[ord[i]]] < Rank[inc[ord[j]]]
    \/ Rank[inc[ord[i]]] = Rank[inc[ord[j]]] /\ i < j

\* The place of i in the code's sorted list of candidates, from 0.
PlaceOut(inc, ord, i) == Cardinality({j \in DOMAIN ord : GoesBefore(inc, ord, j, i)})

\* Mutant: an event that is too much removes one incident.
Evicted_One(inc, ord) ==
    IF Len(ord) <= MaxIncidents THEN {}
    ELSE {ord[i] : i \in {i \in DOMAIN ord : PlaceOut(inc, ord, i) = 0}}

\* Mutant: the incidents seen longest ago go, whatever their state.
Evicted_Oldest(inc, ord) == {ord[i] : i \in {i \in DOMAIN ord : i + MaxIncidents <= Len(ord)}}

\* _enforce_max_incidents: of the candidates the first Len(ord) - MaxIncidents go.
Evicted(inc, ord) ==
    IF Len(ord) <= MaxIncidents THEN {}
    ELSE {ord[i] : i \in {i \in DOMAIN ord : PlaceOut(inc, ord, i) + MaxIncidents < Len(ord)}}

\* The event falls into the cooldown of a clear.
InCooldown(k) == sinceClear[k] < ClearCooldown

\* The keys one event touches have the same last_seen: their order is left open.
Arrangements(S) ==
    {a \in [1..Cardinality(S) -> S] : Distinct(a) /\ \A k \in S : Listed(k, a)}

\* ingest() of an event that matches the rules with the keys S, none of them in
\* a cooldown: every rule is applied, then the limit is enforced.
Ingest(S) ==
    /\ \A k \in S : ~InCooldown(k)
    /\ \E a \in Arrangements(S) :
         LET inc  == [k \in Keys |-> IF k \in S THEN ApplyRule(incidents[k]) ELSE incidents[k]]
             ord  == Without(order, S) \o a
             gone == Evicted(inc, ord)
         IN  /\ incidents' = [k \in Keys |-> IF k \in gone THEN "none" ELSE inc[k]]
             /\ order' = Without(ord, gone)
             /\ news' = (news \cup S) \ gone
    /\ UNCHANGED <<bridgeVars, sinceClear>>

\* An alert carries the guard rule as its subject, which one incident rule matches.
Deliver(t) == wire # <<>> /\ Head(wire) = t /\ wire' = Tail(wire) /\ Ingest({t})

\* _match_rule refuses the alert: the incident rule is disabled, or the range is
\* max_range_m itself, which the guard rule includes and the incident rule does not.
DeliverUnmatched ==
    /\ wire # <<>> /\ wire' = Tail(wire)
    /\ UNCHANGED <<bridgeVars, consoleVars>>

\* ingest() inside the cooldown.
DeliverInCooldown ==
    /\ wire # <<>> /\ InCooldown(Head(wire))
    /\ wire' = Tail(wire)
    /\ UNCHANGED <<bridgeVars, consoleVars>>

\* The publisher has no connection, or its coroutine fails.
Lose ==
    /\ wire # <<>> /\ wire' = Tail(wire)
    /\ UNCHANGED <<bridgeVars, consoleVars>>

\* Another event: S are the rules it matches that are enabled, in no cooldown and
\* past their pending window.
IngestOther(e) == /\ \E S \in (SUBSET e) \ {{}} : Ingest(S)
                  /\ UNCHANGED wire

\* refresh(): cooldown_s without an event clears the incident of a rule with
\* auto_clear.
Refresh(k) ==
    /\ incidents[k] \in {"active", "acked"}
    /\ incidents' = [incidents EXCEPT ![k] = IF @ = "active" THEN "cleared" ELSE "clearedAcked"]
    /\ UNCHANGED <<bridgeVars, wire, order, sinceClear, news>>

Ack(k) ==
    /\ incidents[k] # "none"
    /\ incidents' = [incidents EXCEPT ![k] =
            IF @ \in {"cleared", "clearedAcked"} THEN "clearedAcked" ELSE "acked"]
    /\ news' = news \ {k}
    /\ UNCHANGED <<bridgeVars, wire, order, sinceClear>>

\* _clear_acked_incidents: clear() starts the cooldown of every acked incident,
\* clear_acked_cleared() removes them.
ClearAcked ==
    LET gone == {k \in Keys : Acked(incidents[k])} IN
    /\ incidents' = [k \in Keys |-> IF k \in gone THEN "none" ELSE incidents[k]]
    /\ order' = Without(order, gone)
    /\ sinceClear' = [k \in Keys |-> IF k \in gone THEN 0 ELSE sinceClear[k]]
    /\ news' = news \ gone
    /\ UNCHANGED <<bridgeVars, wire>>

\* A reload, a rule toggle or a cleared events table makes a new store.
NewIncidentStore ==
    /\ incidents' = [k \in Keys |-> "none"]
    /\ order' = <<>>
    /\ sinceClear' = [k \in Keys |-> ClearCooldown]
    /\ news' = {}
    /\ UNCHANGED <<bridgeVars, wire>>

----------------------------------------------------------------------------

Older(age, limit) == IF age < limit THEN age + 1 ELSE age
OlderKey(k) == [k EXCEPT !.pub = Older(@, GcTtl + 1), !.last = Older(@, GcTtl + 1),
                         !.first = Older(@, MinDuration)]

\* Time passes in units in which an alert arrives or is lost.
Clock ==
    /\ wire = <<>>
    /\ keys' = [t \in Tracks |-> OlderKey(keys[t])]
    /\ sinceClear' = [k \in Keys |-> Older(sinceClear[k], ClearCooldown)]
    /\ sinceAlert' = [t \in Tracks |-> Older(sinceAlert[t], Cooldown)]
    /\ UNCHANGED <<tracks, wire, incidents, order, news, sight>>

Frame == FramePublishFails \/ FrameEmpty \/ FrameQuiet \/ \E t \in Tracks : FrameAlert(t)

Next ==
    \/ Frame
    \/ \E t \in Tracks : Deliver(t)
    \/ \E e \in Events : IngestOther(e)
    \/ \E k \in AutoClear : Refresh(k)
    \/ \E k \in Keys : Ack(k)
    \/ DeliverInCooldown \/ DeliverUnmatched \/ Lose \/ ClearAcked \/ NewIncidentStore
    \/ Clock

Spec == Init /\ [][Next]_vars

\* Deliver(t) is enabled.
Deliverable(t) == wire # <<>> /\ Head(wire) = t /\ ~InCooldown(t)

\* The radar keeps sending frames whose best track is published, alerts leave
\* the wire, an alert that is published again and again is not lost or unmatched
\* every time (strong fairness of Deliver), and time passes.
FairSpec ==
    /\ Spec
    /\ WF_vars(FrameEmpty \/ FrameQuiet)
    /\ WF_vars(DeliverInCooldown \/ DeliverUnmatched \/ Lose)
    /\ \A t \in Tracks : []<>Deliverable(t) => []<><<Deliver(t)>>_vars
    /\ WF_vars(Clock)

----------------------------------------------------------------------------
(* Properties.                                                             *)

\* The values the bridge's and the console's variables take; the incidents are
\* exactly the ones in order, and no more than MaxIncidents.
TypeOK ==
    /\ tracks \in [Tracks -> [hits : 0..MinHits, miss : 0..MaxMisses, zone : Zones]]
    /\ keys \in [Tracks -> [key : BOOLEAN, active : BOOLEAN,
                            pub : Ages, first : Ages, last : Ages]]
    /\ wire \in Seq(Tracks)
    /\ incidents \in [Keys -> IncidentStates \cup {"none"}]
    /\ order \in Seq(Keys) /\ Len(order) <= MaxIncidents
    /\ \A k \in Keys : incidents[k] # "none" <=> Listed(k, order)
    /\ sinceClear \in [Keys -> 0..ClearCooldown]
    /\ sinceAlert \in [Tracks -> 0..Cooldown]
    /\ news \subseteq Keys
    /\ sight = <<>> \/ sight \in Tracks \X BOOLEAN

\* RadarGuardCadence: whatever the contact does at the boundary, whichever
\* frames the cadence misses and whatever _gc forgets, an alert is for a
\* confirmed contact and at least Cooldown after its last one.
AlertsSpaced ==
    [][\A t \in Tracks : wire' = Append(wire, t) =>
         Confirmed(tracks'[t]) /\ sinceAlert[t] = Cooldown]_vars

\* IncidentStore: an incident with an alert newer than the operator's ack is
\* unacknowledged, so the clear of acknowledged incidents cannot take it away.
NewsUnacked == \A k \in news : incidents[k] \in {"active", "cleared"}

\* k was seen before j.
SeenBefore(k, j) == \E m, n \in DOMAIN order : m < n /\ order[m] = k /\ order[n] = j

\* _enforce_max_incidents and _clear_acked_incidents: an active incident that
\* nobody acknowledged leaves the store only with the store itself, or when an
\* event fills the store: then what is left is active and unacknowledged too,
\* fills every place, and was seen after it or is of the event itself.
ActiveStays ==
    [][\A k \in Keys : incidents[k] = "active" /\ incidents'[k] = "none" =>
         \/ NewIncidentStore
         \/ /\ Len(order') = MaxIncidents
            /\ \E S \in SUBSET Keys : /\ Ingest(S)
                                     /\ \A j \in Keys : incidents'[j] # "none" =>
                                           /\ incidents'[j] = "active"
                                           /\ j \in S \/ SeenBefore(k, j)]_vars

\* A contact that comes close for MinDuration and leaves again and again is an
\* incident again and again, although single alerts are lost, suppressed by a
\* cooldown, evicted or cleared: leaving re-arms the cadence.
ReturningContactSeen ==
    \A t \in Tracks :
        /\ []<>(keys[t].last = 0 /\ keys[t].first = MinDuration)
        /\ []<>(sight = <<t, FALSE>>)
        => []<>(incidents[t] # "none")

\* _gc: the key of a contact that is gone is forgotten, unless it was active
\* when the contact was seen last.
GoneKeysForgotten ==
    \A t \in Tracks : tracks[t] = NoTrack /\ ~keys[t].active ~> ~keys[t].key
=============================================================================
