-------------------------- MODULE RadarAlertsProofs --------------------------
(***************************************************************************)
(* What holds of the alert path for every set of contacts, events and      *)
(* durations: the cadence spaces its alerts; an alert newer than the       *)
(* operator's acknowledgement cannot be cleared with it; and an event that *)
(* fills the incident store removes from the lowest rank up, so that an    *)
(* active incident stays while another one can make room.  The last rests  *)
(* on the order of the store's keys (OrderInv), on the places of the       *)
(* candidates (PlaceOut), which are all different and so count how many    *)
(* stay, and on what pruning keeps of an order.                            *)
(***************************************************************************)
EXTENDS RadarAlerts, PruningProofs, TLAPS

-----------------------------------------------------------------------------
(* The cadence.                                                            *)

KeyStates == [key : BOOLEAN, active : BOOLEAN, pub : Ages, first : Ages, last : Ages]

\* What a key remembers of its last alert is at most as long ago as the alert,
\* until the cooldown is over: also when _gc has made it forget.
Remembers(t) == sinceAlert[t] = Cooldown \/ keys[t].pub <= sinceAlert[t]

CadenceInv ==
    /\ wire \in Seq(Tracks)
    /\ keys \in [Tracks -> KeyStates]
    /\ sinceAlert \in [Tracks -> 0..Cooldown]
    /\ \A t \in Tracks : Remembers(t)

\* The numbers of the configuration.
LEMMA Numbers ==
    /\ Cooldown \in Nat /\ GcTtl \in Nat /\ MinDuration \in Nat
    /\ Cooldown <= GcTtl /\ NoTime \in Nat /\ NoTime = GcTtl + 2
    /\ Ages = 0..NoTime /\ MinDuration <= GcTtl
  BY RadarAlertsAssumption DEF NoTime, Ages

\* A key nothing is known of.
LEMMA NoKeyType == NoKey \in KeyStates /\ NoKey.pub = NoTime
<1>1. NoTime \in Ages
  BY Numbers
<1> QED
  BY <1>1 DEF NoKey, KeyStates

\* A match or its absence changes the publish time only on the rising edge.
LEMMA UpdateKeyPub ==
  ASSUME NEW k \in KeyStates, NEW match \in BOOLEAN
  PROVE  /\ UpdateKey(k, match) \in KeyStates
         /\ Rises(k, match) => UpdateKey(k, match).pub = 0
         /\ ~Rises(k, match) => UpdateKey(k, match).pub = k.pub
<1>1. 0 \in Ages /\ NoTime \in Ages
  BY Numbers
<1>2. FirstMatch(k) \in Ages
  BY <1>1 DEF FirstMatch, KeyStates
<1> DEFINE m == Matched(k)
<1>3. m \in KeyStates /\ m.pub = k.pub
  <2> DEFINE first == FirstMatch(k)
  <2>1. m = [k EXCEPT !.key = TRUE, !.first = first, !.last = 0]
    BY DEF Matched
  <2> HIDE DEF first, m
  <2> QED
    BY <1>1, <1>2, <2>1 DEF KeyStates, first
<1> HIDE DEF m
<1>4. [m EXCEPT !.active = TRUE, !.pub = 0] \in KeyStates
      /\ [m EXCEPT !.active = TRUE, !.pub = 0].pub = 0
  BY <1>1, <1>3 DEF KeyStates
<1>5. LET u == [k EXCEPT !.active = FALSE, !.first = NoTime, !.last = NoTime]
      IN  u \in KeyStates /\ u.pub = k.pub
  BY <1>1 DEF KeyStates
<1>6. CASE Rises(k, match)
  <2>1. UpdateKey(k, match) = [m EXCEPT !.active = TRUE, !.pub = 0]
    BY <1>6 DEF UpdateKey, m
  <2> QED
    BY <1>4, <1>6, <2>1
<1>7. CASE ~Rises(k, match) /\ match
  <2>1. UpdateKey(k, match) = m
    BY <1>7 DEF UpdateKey, m
  <2> QED
    BY <1>3, <1>7, <2>1
<1>8. CASE ~Rises(k, match) /\ ~match
  <2>1. UpdateKey(k, match) = IF k.active
          THEN [k EXCEPT !.active = FALSE, !.first = NoTime, !.last = NoTime] ELSE k
    BY <1>8 DEF UpdateKey
  <2> QED
    BY <1>5, <1>8, <2>1
<1> QED
  BY <1>6, <1>7, <1>8

\* _gc forgets no publish time the cooldown still needs.
LEMMA GcKeeps ==
  ASSUME NEW ks \in [Tracks -> KeyStates]
  PROVE  /\ Gc(ks) \in [Tracks -> KeyStates]
         /\ \A t \in Tracks : Gc(ks)[t].pub = ks[t].pub \/ ks[t].pub > GcTtl
<1>1. \A t \in Tracks : Gc(ks)[t] = IF ~ks[t].active /\ Expired(ks[t]) THEN NoKey ELSE ks[t]
  BY DEF Gc
<1>2. \A t \in Tracks : Gc(ks)[t] \in KeyStates
  BY <1>1, NoKeyType
<1>3. \A t \in Tracks : Expired(ks[t]) => ks[t].pub > GcTtl
  <2>1. \A t \in Tracks : ks[t].pub \in 0..NoTime /\ ks[t].last \in 0..NoTime
    BY Numbers DEF KeyStates
  <2> QED
    BY <2>1, Numbers DEF Expired
<1>4. Gc(ks) = [t \in Tracks |-> Gc(ks)[t]]
  BY DEF Gc
<1> QED
  BY <1>1, <1>2, <1>3, <1>4

\* A frame that raises no alert.
LEMMA QuietKeys ==
  ASSUME CadenceInv, NEW t \in Tracks, NEW match \in BOOLEAN, ~Rises(keys[t], match),
         keys' = Gc([keys EXCEPT ![t] = UpdateKey(@, match)]),
         sinceAlert' = sinceAlert, wire' = wire
  PROVE  CadenceInv'
<1> DEFINE ks == [keys EXCEPT ![t] = UpdateKey(keys[t], match)]
<1>1. keys[t] \in KeyStates
  BY DEF CadenceInv
<1>2. UpdateKey(keys[t], match) \in KeyStates /\ UpdateKey(keys[t], match).pub = keys[t].pub
  BY <1>1, UpdateKeyPub
<1>3. ks \in [Tracks -> KeyStates] /\ \A x \in Tracks : ks[x].pub = keys[x].pub
  BY <1>2 DEF CadenceInv
<1> HIDE DEF ks
<1>4. keys' = Gc(ks)
  BY DEF ks
<1>5. /\ keys' \in [Tracks -> KeyStates]
      /\ \A x \in Tracks : keys'[x].pub = keys[x].pub \/ keys[x].pub > GcTtl
  BY <1>3, <1>4, GcKeeps
<1>6. \A x \in Tracks : sinceAlert[x] = Cooldown \/ keys'[x].pub <= sinceAlert[x]
  <2> TAKE x \in Tracks
  <2>1. sinceAlert[x] = Cooldown \/ keys[x].pub <= sinceAlert[x]
    BY DEF CadenceInv, Remembers
  <2>2. sinceAlert[x] \in 0..Cooldown /\ keys[x].pub \in Nat
    <3>1. keys[x].pub \in Ages
      BY DEF CadenceInv, KeyStates
    <3> QED
      BY <3>1, Numbers DEF CadenceInv
  <2>3. keys'[x].pub = keys[x].pub \/ keys[x].pub > GcTtl
    BY <1>5
  <2> QED
    BY <2>1, <2>2, <2>3, Numbers
<1> QED
  BY <1>5, <1>6 DEF CadenceInv, Remembers

\* A frame that raises an alert.
LEMMA AlertKeys ==
  ASSUME CadenceInv, NEW t \in Tracks, FrameAlert(t)
  PROVE  CadenceInv' /\ sinceAlert[t] = Cooldown
<1> DEFINE ks == [keys EXCEPT ![t] = UpdateKey(keys[t], TRUE)]
<1>1. keys[t] \in KeyStates /\ Rises(keys[t], TRUE)
  BY DEF CadenceInv, FrameAlert
<1>2. UpdateKey(keys[t], TRUE) \in KeyStates /\ UpdateKey(keys[t], TRUE).pub = 0
  BY <1>1, UpdateKeyPub
<1>3. /\ ks \in [Tracks -> KeyStates] /\ ks[t].pub = 0
      /\ \A x \in Tracks : x # t => ks[x].pub = keys[x].pub
  BY <1>2 DEF CadenceInv
<1> HIDE DEF ks
<1>4. /\ keys' = Gc(ks) /\ wire' = Append(wire, t)
      /\ sinceAlert' = [sinceAlert EXCEPT ![t] = 0]
  BY DEF FrameAlert, ks
<1>5. /\ keys' \in [Tracks -> KeyStates]
      /\ \A x \in Tracks : keys'[x].pub = ks[x].pub \/ ks[x].pub > GcTtl
  BY <1>3, <1>4, GcKeeps
<1>6. sinceAlert' \in [Tracks -> 0..Cooldown]
  BY <1>4, Numbers DEF CadenceInv
<1>7. wire' \in Seq(Tracks)
  BY <1>4 DEF CadenceInv
<1>8. \A x \in Tracks : keys[x].pub \in Nat /\ sinceAlert[x] \in 0..Cooldown
  <2>1. \A x \in Tracks : keys[x].pub \in Ages
    BY DEF CadenceInv, KeyStates
  <2> QED
    BY <2>1, Numbers DEF CadenceInv
<1>9. \A x \in Tracks : sinceAlert[x] = Cooldown \/ keys[x].pub <= sinceAlert[x]
  BY DEF CadenceInv, Remembers
<1>10. keys'[t].pub = 0 /\ sinceAlert'[t] = 0
  <2>1. ~(ks[t].pub > GcTtl)
    BY <1>3, Numbers
  <2>2. keys'[t].pub = 0
    BY <1>3, <1>5, <2>1
  <2> QED
    BY <1>4, <2>2 DEF CadenceInv
<1>11. \A x \in Tracks : x # t => sinceAlert'[x] = sinceAlert[x]
  BY <1>4 DEF CadenceInv
<1>12. \A x \in Tracks : x # t => sinceAlert'[x] = Cooldown \/ keys'[x].pub <= sinceAlert'[x]
  BY <1>3, <1>5, <1>8, <1>9, <1>11, Numbers
<1>13. \A x \in Tracks : Remembers(x)'
  BY <1>10, <1>12 DEF Remembers
<1>14. sinceAlert[t] = Cooldown
  <2>1. keys[t].pub >= Cooldown
    BY <1>1 DEF Rises
  <2> QED
    BY <1>8, <1>9, <2>1, Numbers
<1> QED
  BY <1>5, <1>6, <1>7, <1>13, <1>14 DEF CadenceInv

\* Time: the key and the alert grow older together.
LEMMA ClockKeys ==
  ASSUME CadenceInv, Clock
  PROVE  CadenceInv'
<1>1. /\ keys' = [t \in Tracks |-> OlderKey(keys[t])] /\ wire' = wire
      /\ sinceAlert' = [t \in Tracks |-> Older(sinceAlert[t], Cooldown)]
  BY DEF Clock
<1>2. \A t \in Tracks : /\ keys[t] \in KeyStates /\ sinceAlert[t] \in 0..Cooldown
                        /\ keys[t].pub \in Ages /\ keys[t].last \in Ages /\ keys[t].first \in Ages
  BY DEF CadenceInv, KeyStates
<1>3. \A age \in Ages : Older(age, GcTtl + 1) \in Ages /\ Older(age, MinDuration) \in Ages
  BY Numbers DEF Older
<1>4. ASSUME NEW t \in Tracks
      PROVE  /\ OlderKey(keys[t]) \in KeyStates
             /\ OlderKey(keys[t]).pub = Older(keys[t].pub, GcTtl + 1)
  <2> DEFINE p == Older(keys[t].pub, GcTtl + 1)
             l == Older(keys[t].last, GcTtl + 1)
             f == Older(keys[t].first, MinDuration)
             k == [keys[t] EXCEPT !.pub = p, !.last = l, !.first = f]
  <2>1. p \in Ages /\ l \in Ages /\ f \in Ages
    BY <1>2, <1>3
  <2>2. OlderKey(keys[t]) = k
    BY <1>2 DEF OlderKey, KeyStates
  <2> HIDE DEF p, l, f
  <2>3. k \in KeyStates /\ k.pub = p
    BY <1>2, <2>1 DEF KeyStates
  <2> QED
    BY <2>2, <2>3 DEF p
<1>5. keys' \in [Tracks -> KeyStates]
  BY <1>1, <1>4
<1>6. sinceAlert' \in [Tracks -> 0..Cooldown]
  BY <1>1, <1>2, Numbers DEF Older
<1>7. \A t \in Tracks : Remembers(t)'
  <2> TAKE t \in Tracks
  <2>1. keys'[t].pub = Older(keys[t].pub, GcTtl + 1)
    BY <1>1, <1>4
  <2>2. sinceAlert'[t] = Older(sinceAlert[t], Cooldown)
    BY <1>1
  <2>3. sinceAlert[t] = Cooldown \/ keys[t].pub <= sinceAlert[t]
    BY DEF CadenceInv, Remembers
  <2>4. keys[t].pub \in Nat /\ sinceAlert[t] \in 0..Cooldown
    BY <1>2, Numbers
  <2>5. sinceAlert'[t] = Cooldown \/ keys'[t].pub <= sinceAlert'[t]
    BY <2>1, <2>2, <2>3, <2>4, Numbers DEF Older
  <2> QED
    BY <2>5 DEF Remembers
<1> QED
  BY <1>1, <1>5, <1>6, <1>7 DEF CadenceInv

\* Every step keeps the cadence's invariant.
LEMMA CadenceNext == CadenceInv /\ [Next]_vars => CadenceInv'
<1> SUFFICES ASSUME CadenceInv, [Next]_vars PROVE CadenceInv'
  OBVIOUS
<1>1. ASSUME keys' = keys, sinceAlert' = sinceAlert, wire' \in Seq(Tracks) PROVE CadenceInv'
  BY <1>1 DEF CadenceInv, Remembers
<1>2. wire # <<>> => Tail(wire) \in Seq(Tracks)
  BY DEF CadenceInv
<1>3. CASE FramePublishFails
  BY <1>1, <1>3 DEF FramePublishFails, CadenceInv
<1>4. CASE FrameEmpty
  <2>1. keys \in [Tracks -> KeyStates]
    BY DEF CadenceInv
  <2>2. /\ keys' \in [Tracks -> KeyStates]
        /\ \A x \in Tracks : keys'[x].pub = keys[x].pub \/ keys[x].pub > GcTtl
    BY <1>4, <2>1, GcKeeps DEF FrameEmpty
  <2>3. \A x \in Tracks : Remembers(x)'
    <3> TAKE x \in Tracks
    <3>1. keys[x].pub \in Ages
      BY <2>1 DEF KeyStates
    <3>2. sinceAlert[x] \in 0..Cooldown
      BY DEF CadenceInv
    <3>3. sinceAlert[x] = Cooldown \/ keys[x].pub <= sinceAlert[x]
      BY DEF CadenceInv, Remembers
    <3>4. sinceAlert[x] = Cooldown \/ keys'[x].pub <= sinceAlert[x]
      BY <2>2, <3>1, <3>2, <3>3, Numbers
    <3> QED
      BY <1>4, <3>4 DEF FrameEmpty, Remembers
  <2> QED
    BY <1>4, <2>2, <2>3 DEF FrameEmpty, CadenceInv
<1>5. CASE FrameQuiet
  <2>1. PICK t \in Tracks, match \in BOOLEAN :
          /\ ~Rises(keys[t], match)
          /\ keys' = Gc([keys EXCEPT ![t] = UpdateKey(@, match)])
    <3>1. PICK t \in BestTracks(tracks') : \E match \in Matches(tracks'[t], keys[t].active) :
            /\ ~Rises(keys[t], match)
            /\ keys' = Gc([keys EXCEPT ![t] = UpdateKey(@, match)])
      BY <1>5 DEF FrameQuiet
    <3>2. t \in Tracks
      BY <3>1 DEF BestTracks
    <3>3. Matches(tracks'[t], keys[t].active) \subseteq BOOLEAN
      BY DEF Matches
    <3> QED
      BY <3>1, <3>2, <3>3
  <2>2. sinceAlert' = sinceAlert /\ wire' = wire
    BY <1>5 DEF FrameQuiet
  <2> QED
    BY <2>1, <2>2, QuietKeys
<1>6. ASSUME NEW t \in Tracks, FrameAlert(t) PROVE CadenceInv'
  BY <1>6, AlertKeys
<1>7. ASSUME NEW t \in Tracks, Deliver(t) PROVE CadenceInv'
  BY <1>1, <1>2, <1>7 DEF Deliver, Ingest, bridgeVars
<1>8. ASSUME NEW e \in Events, IngestOther(e) PROVE CadenceInv'
  BY <1>1, <1>8 DEF IngestOther, Ingest, bridgeVars, CadenceInv
<1>9. ASSUME NEW k \in AutoClear, Refresh(k) PROVE CadenceInv'
  BY <1>1, <1>9 DEF Refresh, bridgeVars, CadenceInv
<1>10. ASSUME NEW k \in Keys, Ack(k) PROVE CadenceInv'
  BY <1>1, <1>10 DEF Ack, bridgeVars, CadenceInv
<1>11. CASE DeliverInCooldown \/ DeliverUnmatched \/ Lose
  BY <1>1, <1>2, <1>11 DEF DeliverInCooldown, DeliverUnmatched, Lose, bridgeVars
<1>12. CASE ClearAcked \/ NewIncidentStore \/ UNCHANGED vars
  BY <1>1, <1>12 DEF ClearAcked, NewIncidentStore, bridgeVars, vars, CadenceInv
<1>13. CASE Clock
  BY <1>13, ClockKeys
<1> QED
  BY <1>3, <1>4, <1>5, <1>6, <1>7, <1>8, <1>9, <1>10, <1>11, <1>12, <1>13
  DEF Next, Frame

\* The cadence starts in its invariant.
LEMMA CadenceInit == Init => CadenceInv
<1> SUFFICES ASSUME Init PROVE CadenceInv
  OBVIOUS
<1>1. keys \in [Tracks -> KeyStates]
  BY NoKeyType DEF Init
<1>2. sinceAlert \in [Tracks -> 0..Cooldown] /\ \A t \in Tracks : sinceAlert[t] = Cooldown
  BY Numbers DEF Init
<1>3. wire \in Seq(Tracks)
  BY DEF Init
<1> QED
  BY <1>1, <1>2, <1>3 DEF CadenceInv, Remembers

\* However the contact moves at the boundary, whichever frames are missed and
\* whatever _gc forgets, alerts for one contact are at least Cooldown apart and
\* for confirmed contacts only.
THEOREM CadenceSpacesAlerts == Spec => AlertsSpaced
<1> DEFINE A == \A t \in Tracks : wire' = Append(wire, t) =>
                  Confirmed(tracks'[t]) /\ sinceAlert[t] = Cooldown
<1>1. CadenceInv /\ [Next]_vars => [A]_vars
  <2> SUFFICES ASSUME CadenceInv, Next, NEW t \in Tracks, wire' = Append(wire, t)
               PROVE  Confirmed(tracks'[t]) /\ sinceAlert[t] = Cooldown
    OBVIOUS
  <2>1. wire \in Seq(Tracks)
    BY DEF CadenceInv
  <2>2. wire' # wire /\ ~(wire # <<>> /\ wire' = Tail(wire))
    BY <2>1
  <2>3. PICK u \in Tracks : FrameAlert(u)
    <3>1. ~FramePublishFails /\ ~FrameEmpty /\ ~FrameQuiet /\ ~Clock
      BY <2>2 DEF FramePublishFails, FrameEmpty, FrameQuiet, Clock
    <3>2. ~DeliverInCooldown /\ ~DeliverUnmatched /\ ~Lose /\ ~ClearAcked /\ ~NewIncidentStore
      BY <2>2 DEF DeliverInCooldown, DeliverUnmatched, Lose, ClearAcked, NewIncidentStore
    <3>3. /\ \A x \in Tracks : ~Deliver(x)
          /\ \A e \in Events : ~IngestOther(e)
          /\ \A k \in AutoClear : ~Refresh(k)
          /\ \A k \in Keys : ~Ack(k)
      BY <2>2 DEF Deliver, IngestOther, Refresh, Ack
    <3> QED
      BY <3>1, <3>2, <3>3 DEF Next, Frame
  <2>4. u = t
    <3>1. Append(wire, u) = Append(wire, t)
      BY <2>3 DEF FrameAlert
    <3> QED
      BY <2>1, <3>1
  <2>5. Confirmed(tracks'[t])
    BY <2>3, <2>4 DEF FrameAlert, InRange
  <2> QED
    BY <2>3, <2>4, <2>5, AlertKeys
<1> QED
  BY <1>1, CadenceInit, CadenceNext, PTL DEF Spec, AlertsSpaced

-----------------------------------------------------------------------------
(* The incidents.                                                          *)

IncidentInv ==
    /\ incidents \in [Keys -> IncidentStates \cup {"none"}]
    /\ news \subseteq Keys
    /\ NewsUnacked

\* The states an incident can have.
LEMMA States == IncidentStates = {"clearedAcked", "cleared", "acked", "active"}
  BY DEF IncidentStates, Rank

\* The rules one event matches are finitely many.
LEMMA EventRules ==
    /\ \A t \in Tracks : {t} \in SUBSET Keys /\ IsFiniteSet({t})
    /\ \A e \in Events : \A S \in SUBSET e : S \in SUBSET Keys /\ IsFiniteSet(S)
    /\ AutoClear \subseteq Keys
<1>1. \A t \in Tracks : {t} \in SUBSET Keys /\ IsFiniteSet({t})
  BY FS_Singleton DEF Keys
<1>2. ASSUME NEW e \in Events, NEW S \in SUBSET e PROVE S \in SUBSET Keys /\ IsFiniteSet(S)
  <2>1. S \in SUBSET Others /\ IsFiniteSet(Others)
    BY RadarAlertsAssumption DEF Others
  <2> QED
    BY <2>1, FS_Subset DEF Keys
<1> QED
  BY <1>1, <1>2, RadarAlertsAssumption DEF Keys

\* Every step keeps it.
LEMMA IncidentNext == IncidentInv /\ [Next]_vars => IncidentInv'
<1> SUFFICES ASSUME IncidentInv, [Next]_vars PROVE IncidentInv'
  OBVIOUS
<1>1. ASSUME incidents' = incidents, news' = news PROVE IncidentInv'
  BY <1>1 DEF IncidentInv, NewsUnacked
<1>2. ASSUME NEW S \in SUBSET Keys, Ingest(S) PROVE IncidentInv'
  <2> DEFINE inc == [k \in Keys |-> IF k \in S THEN ApplyRule(incidents[k]) ELSE incidents[k]]
  <2>1. PICK gone : /\ incidents' = [j \in Keys |-> IF j \in gone THEN "none" ELSE inc[j]]
                    /\ news' = (news \cup S) \ gone
    BY <1>2 DEF Ingest
  <2>2. \A v \in IncidentStates \cup {"none"} : ApplyRule(v) \in {"active", "cleared"}
    BY States DEF ApplyRule
  <2>3. /\ inc \in [Keys -> IncidentStates \cup {"none"}]
        /\ \A k \in S : inc[k] \in {"active", "cleared"}
        /\ \A j \in Keys : j \notin S => inc[j] = incidents[j]
    BY <2>2, States DEF IncidentInv
  <2> HIDE DEF inc
  <2>4. incidents' \in [Keys -> IncidentStates \cup {"none"}] /\ news' \subseteq Keys
    BY <2>1, <2>3 DEF IncidentInv
  <2>5. NewsUnacked'
    BY <2>1, <2>3 DEF IncidentInv, NewsUnacked
  <2> QED
    BY <2>4, <2>5 DEF IncidentInv
<1>4. CASE Frame
  BY <1>1, <1>4 DEF Frame, FramePublishFails, FrameEmpty, FrameQuiet, FrameAlert, consoleVars
<1>5. ASSUME NEW t \in Tracks, Deliver(t) PROVE IncidentInv'
  BY <1>2, <1>5, EventRules DEF Deliver
<1>6. ASSUME NEW e \in Events, IngestOther(e) PROVE IncidentInv'
  BY <1>2, <1>6, EventRules DEF IngestOther
<1>7. ASSUME NEW k \in AutoClear, Refresh(k) PROVE IncidentInv'
  <2>1. /\ incidents' = [incidents EXCEPT ![k] =
                           IF @ = "active" THEN "cleared" ELSE "clearedAcked"]
        /\ incidents[k] \in {"active", "acked"} /\ news' = news /\ k \in Keys
    BY <1>7, EventRules DEF Refresh
  <2>2. incidents' \in [Keys -> IncidentStates \cup {"none"}]
    BY <2>1, States DEF IncidentInv
  <2>3. NewsUnacked'
    BY <2>1 DEF IncidentInv, NewsUnacked
  <2> QED
    BY <2>1, <2>2, <2>3 DEF IncidentInv
<1>8. ASSUME NEW k \in Keys, Ack(k) PROVE IncidentInv'
  <2>1. /\ incidents' = [incidents EXCEPT ![k] =
                           IF @ \in {"cleared", "clearedAcked"} THEN "clearedAcked" ELSE "acked"]
        /\ news' = news \ {k}
    BY <1>8 DEF Ack
  <2>2. incidents' \in [Keys -> IncidentStates \cup {"none"}]
    BY <2>1, States DEF IncidentInv
  <2>3. NewsUnacked'
    BY <2>1 DEF IncidentInv, NewsUnacked
  <2> QED
    BY <2>1, <2>2, <2>3 DEF IncidentInv
<1>9. CASE ClearAcked
  <2> DEFINE gone == {k \in Keys : Acked(incidents[k])}
  <2>1. /\ incidents' = [k \in Keys |-> IF k \in gone THEN "none" ELSE incidents[k]]
        /\ news' = news \ gone
    BY <1>9 DEF ClearAcked
  <2> HIDE DEF gone
  <2>2. incidents' \in [Keys -> IncidentStates \cup {"none"}]
    BY <2>1 DEF IncidentInv
  <2>3. NewsUnacked'
    BY <2>1 DEF IncidentInv, NewsUnacked
  <2> QED
    BY <2>1, <2>2, <2>3 DEF IncidentInv
<1>10. CASE NewIncidentStore
  BY <1>10 DEF NewIncidentStore, IncidentInv, NewsUnacked
<1>11. CASE DeliverInCooldown \/ DeliverUnmatched \/ Lose \/ Clock \/ UNCHANGED vars
  BY <1>1, <1>11 DEF DeliverInCooldown, DeliverUnmatched, Lose, Clock, consoleVars, vars
<1> QED
  BY <1>4, <1>5, <1>6, <1>7, <1>8, <1>9, <1>10, <1>11 DEF Next

\* An incident with an alert newer than the operator's acknowledgement is
\* unacknowledged, for any number of contacts, rules and slots.
THEOREM NewsStaysUnacked == Spec => []NewsUnacked
<1>1. Init => IncidentInv
  BY DEF Init, IncidentInv, NewsUnacked
<1>2. IncidentInv => NewsUnacked
  BY DEF IncidentInv
<1> QED
  BY <1>1, <1>2, IncidentNext, PTL DEF Spec

-----------------------------------------------------------------------------
(* The order of the incidents and the eviction.                            *)

\* The ranks of _enforce_max_incidents.
LEMMA Ranks ==
    /\ Rank["clearedAcked"] = 0 /\ Rank["cleared"] = 1 /\ Rank["acked"] = 2 /\ Rank["active"] = 3
    /\ \A v \in IncidentStates : Rank[v] \in 0..3 /\ (Rank[v] = 3 => v = "active")
<1>1. /\ Rank["clearedAcked"] = 0 /\ Rank["cleared"] = 1
      /\ Rank["acked"] = 2 /\ Rank["active"] = 3
  BY DEF Rank
<1> QED
  BY <1>1, States

\* What the store keeps: order lists every incident once, and no more than
\* MaxIncidents of them.
OrderInv ==
    /\ incidents \in [Keys -> IncidentStates \cup {"none"}]
    /\ order \in Seq(Keys)
    /\ Distinct(order)
    /\ Len(order) <= MaxIncidents
    /\ \A k \in Keys : incidents[k] # "none" <=> Listed(k, order)

\* GoesBefore is a strict order in which any two incidents are comparable.
LEMMA GoesBeforeOrder ==
  ASSUME NEW ord \in Seq(Keys), NEW inc, \A i \in DOMAIN ord : inc[ord[i]] \in IncidentStates
  PROVE  /\ \A i \in DOMAIN ord : ~GoesBefore(inc, ord, i, i)
         /\ \A i, j \in DOMAIN ord :
              i # j => GoesBefore(inc, ord, i, j) \/ GoesBefore(inc, ord, j, i)
         /\ \A i, j, k \in DOMAIN ord :
              GoesBefore(inc, ord, i, j) /\ GoesBefore(inc, ord, j, k) => GoesBefore(inc, ord, i, k)
<1> DEFINE rank == [i \in DOMAIN ord |-> Rank[inc[ord[i]]]]
<1>1. \A i \in DOMAIN ord : rank[i] \in Nat /\ i \in Nat
  BY Ranks
<1>2. \A i, j \in DOMAIN ord :
        GoesBefore(inc, ord, i, j) <=> rank[i] < rank[j] \/ (rank[i] = rank[j] /\ i < j)
  BY DEF GoesBefore
<1> HIDE DEF rank
<1> QED
  BY <1>1, <1>2

\* The places count from 0, and whoever goes before has a lower one.
LEMMA PlaceOutOrder ==
  ASSUME NEW ord \in Seq(Keys), NEW inc, \A i \in DOMAIN ord : inc[ord[i]] \in IncidentStates
  PROVE  /\ \A i \in DOMAIN ord : PlaceOut(inc, ord, i) \in 0..(Len(ord) - 1)
         /\ \A i, j \in DOMAIN ord :
              GoesBefore(inc, ord, i, j) => PlaceOut(inc, ord, i) < PlaceOut(inc, ord, j)
<1> DEFINE Before(i) == {j \in DOMAIN ord : GoesBefore(inc, ord, j, i)}
<1>1. DOMAIN ord = 1..Len(ord) /\ Len(ord) \in Nat
  OBVIOUS
<1>2. /\ \A i \in DOMAIN ord : ~GoesBefore(inc, ord, i, i)
      /\ \A i, j, k \in DOMAIN ord :
           GoesBefore(inc, ord, i, j) /\ GoesBefore(inc, ord, j, k) => GoesBefore(inc, ord, i, k)
  BY GoesBeforeOrder
<1>3. \A i : /\ IsFiniteSet(Before(i)) /\ Cardinality(Before(i)) \in Nat
             /\ PlaceOut(inc, ord, i) = Cardinality(Before(i))
  <2> TAKE i
  <2>1. Before(i) \subseteq 1..Len(ord)
    BY <1>1
  <2> QED
    BY <1>1, <2>1, IndicesFinite DEF PlaceOut
<1>4. ASSUME NEW i \in DOMAIN ord, NEW T, T \subseteq DOMAIN ord, Before(i) \subseteq T, i \in T
      PROVE  Cardinality(T) \in Nat /\ Cardinality(Before(i)) < Cardinality(T)
  <2>1. IsFiniteSet(T) /\ Cardinality(T) \in Nat
    BY <1>1, <1>4, IndicesFinite
  <2>2. i \notin Before(i)
    BY <1>2
  <2>3. Before(i) \in SUBSET T /\ Before(i) # T
    BY <1>4, <2>2
  <2> HIDE DEF Before
  <2>4. Cardinality(Before(i)) <= Cardinality(T) /\ Cardinality(Before(i)) # Cardinality(T)
    BY <2>1, <2>3, FS_Subset
  <2> QED
    BY <1>3, <2>1, <2>4
<1>5. \A i \in DOMAIN ord : PlaceOut(inc, ord, i) \in 0..(Len(ord) - 1)
  <2> TAKE i \in DOMAIN ord
  <2>1. Cardinality(Before(i)) < Cardinality(DOMAIN ord)
    BY <1>4
  <2>2. Cardinality(DOMAIN ord) = Len(ord)
    BY <1>1, IndexCount
  <2> HIDE DEF Before
  <2> QED
    BY <1>1, <1>3, <2>1, <2>2
<1>6. ASSUME NEW i \in DOMAIN ord, NEW j \in DOMAIN ord, GoesBefore(inc, ord, i, j)
      PROVE  PlaceOut(inc, ord, i) < PlaceOut(inc, ord, j)
  <2>1. Before(j) \subseteq DOMAIN ord /\ Before(i) \subseteq Before(j) /\ i \in Before(j)
    BY <1>2, <1>6
  <2>2. Cardinality(Before(i)) < Cardinality(Before(j))
    BY <1>4, <2>1
  <2> QED
    BY <1>3, <2>2
<1> QED
  BY <1>5, <1>6

\* No two incidents share a place.
LEMMA PlaceOutInjective ==
  ASSUME NEW ord \in Seq(Keys), NEW inc, \A i \in DOMAIN ord : inc[ord[i]] \in IncidentStates,
         NEW i \in DOMAIN ord, NEW j \in DOMAIN ord, PlaceOut(inc, ord, i) = PlaceOut(inc, ord, j)
  PROVE  i = j
<1>1. PlaceOut(inc, ord, i) \in Nat
  BY PlaceOutOrder
<1>2. ~GoesBefore(inc, ord, i, j) /\ ~GoesBefore(inc, ord, j, i)
  BY <1>1, PlaceOutOrder
<1> QED
  BY <1>2, GoesBeforeOrder

\* A store that is too full keeps MaxIncidents, and what goes is before what stays.
LEMMA EvictedAreFirst ==
  ASSUME NEW ord \in Seq(Keys), Distinct(ord), NEW inc, Len(ord) > MaxIncidents,
         \A i \in DOMAIN ord : inc[ord[i]] \in IncidentStates
  PROVE  LET gone == Evicted(inc, ord) IN
         /\ Len(Without(ord, gone)) = MaxIncidents
         /\ \A i, j \in DOMAIN ord :
              ord[i] \in gone /\ ord[j] \notin gone => GoesBefore(inc, ord, i, j)
<1> DEFINE gone == Evicted(inc, ord)
           K == KeptIndices(ord, gone)
           L == {i \in DOMAIN ord : ord[i] \in gone}
           place == [i \in DOMAIN ord |-> PlaceOut(inc, ord, i)]
<1>1. /\ DOMAIN ord = 1..Len(ord) /\ Len(ord) \in Nat /\ MaxIncidents \in Nat
      /\ ~(Len(ord) <= MaxIncidents)
  BY RadarAlertsAssumption
<1>2. \A i \in DOMAIN ord : place[i] \in 0..(Len(ord) - 1)
  BY PlaceOutOrder
<1>3. \A i, j \in DOMAIN ord : place[i] = place[j] => i = j
  BY PlaceOutInjective
<1>4. \A i \in DOMAIN ord : ord[i] \in gone <=> place[i] + MaxIncidents < Len(ord)
  <2>1. gone = {ord[i] : i \in {i \in DOMAIN ord : PlaceOut(inc, ord, i) + MaxIncidents < Len(ord)}}
    BY <1>1 DEF Evicted
  <2> HIDE DEF gone
  <2> QED
    BY <2>1 DEF Distinct
<1>5. K \subseteq 1..Len(ord) /\ L \subseteq 1..Len(ord) /\ K \cup L = 1..Len(ord) /\ K \cap L = {}
  BY <1>1 DEF KeptIndices
<1>6. \A i, j \in DOMAIN ord : ord[i] \in gone /\ ord[j] \notin gone => GoesBefore(inc, ord, i, j)
  <2> SUFFICES ASSUME NEW i \in DOMAIN ord, NEW j \in DOMAIN ord, ord[i] \in gone, ord[j] \notin gone
               PROVE  GoesBefore(inc, ord, i, j)
    OBVIOUS
  <2>1. place[i] < place[j]
    <3> HIDE DEF place, gone
    <3> QED
      BY <1>1, <1>2, <1>4
  <2>2. ~GoesBefore(inc, ord, j, i)
    <3> SUFFICES ASSUME GoesBefore(inc, ord, j, i) PROVE FALSE
      OBVIOUS
    <3>1. place[j] < place[i]
      BY PlaceOutOrder
    <3> HIDE DEF place
    <3> QED
      BY <1>2, <2>1, <3>1
  <2>3. i # j
    OBVIOUS
  <2> QED
    BY <2>2, <2>3, GoesBeforeOrder
<1> HIDE DEF gone, K, L, place
<1>7. /\ IsFiniteSet(K) /\ Cardinality(K) \in Nat /\ IsFiniteSet(L) /\ Cardinality(L) \in Nat
      /\ Cardinality(K) + Cardinality(L) = Len(ord)
  <2>1. IsFiniteSet(K) /\ Cardinality(K) \in Nat /\ IsFiniteSet(L) /\ Cardinality(L) \in Nat
    BY <1>1, <1>5, IndicesFinite
  <2>2. Cardinality(K \cup L) = Cardinality(K) + Cardinality(L) - Cardinality(K \cap L)
    BY <2>1, FS_Union
  <2>3. Cardinality(K \cup L) = Len(ord) /\ Cardinality(K \cap L) = 0
    BY <1>1, <1>5, IndexCount, FS_EmptySet
  <2> QED
    BY <1>1, <2>1, <2>2, <2>3
<1>8. ASSUME NEW a \in Nat, NEW b \in Nat, a <= b, NEW I, I \subseteq DOMAIN ord,
             IsFiniteSet(I), Cardinality(I) \in Nat,
             \A i \in I : place[i] \in Nat /\ a <= place[i] /\ place[i] < b
      PROVE  Cardinality(I) <= b - a
  <2> DEFINE T == a..(b - 1)
             f == [i \in I |-> place[i]]
  <2>1. IsFiniteSet(T) /\ Cardinality(T) = b - a
    <3> DEFINE c == b - 1
    <3>1. a \in Int /\ c \in Int /\ (IF a > c THEN 0 ELSE c - a + 1) = b - a
      BY <1>8
    <3> HIDE DEF c
    <3>2. IsFiniteSet(a..c) /\ Cardinality(a..c) = b - a
      BY <3>1, FS_Interval
    <3> QED
      BY <3>2 DEF c
  <2>2. f \in [I -> T]
    BY <1>8
  <2>3. \A i, j \in I : f[i] = f[j] => i = j
    BY <1>3, <1>8
  <2> HIDE DEF f, T
  <2>4. ~(Cardinality(T) < Cardinality(I))
    BY <1>8, <2>1, <2>2, <2>3, FS_PigeonHole
  <2> QED
    BY <1>8, <2>1, <2>4
<1>9. Cardinality(L) <= Len(ord) - MaxIncidents
  <2> DEFINE b == Len(ord) - MaxIncidents
  <2>1. b \in Nat /\ 0 <= b
    BY <1>1
  <2>2. \A i \in L : i \in DOMAIN ord /\ place[i] \in Nat /\ 0 <= place[i] /\ place[i] < b
    BY <1>1, <1>2, <1>4 DEF L
  <2> HIDE DEF b
  <2>3. Cardinality(L) <= b - 0
    BY <1>7, <1>8, <2>1, <2>2
  <2> QED
    BY <2>1, <2>3 DEF b
<1>10. Cardinality(K) <= MaxIncidents
  <2> DEFINE a == Len(ord) - MaxIncidents
             b == Len(ord)
  <2>1. a \in Nat /\ b \in Nat /\ a <= b /\ b - a = MaxIncidents
    BY <1>1
  <2>2. \A i \in K : i \in DOMAIN ord /\ place[i] \in Nat /\ a <= place[i] /\ place[i] < b
    BY <1>1, <1>2, <1>4 DEF K, KeptIndices
  <2> HIDE DEF a, b
  <2>3. Cardinality(K) <= b - a
    BY <1>7, <1>8, <2>1, <2>2
  <2> QED
    BY <2>1, <2>3
<1>11. Cardinality(K) = MaxIncidents
  BY <1>1, <1>7, <1>9, <1>10
<1>12. Len(Without(ord, gone)) = Cardinality(K)
  BY WithoutEnumerates DEF K
<1> QED
  BY <1>6, <1>11, <1>12 DEF gone

\* Two lists without a common entry, one after the other.
LEMMA JoinKeys ==
  ASSUME NEW S, NEW r \in Seq(S), NEW a \in Seq(S), Distinct(r), Distinct(a),
         \A x : ~(Listed(x, r) /\ Listed(x, a))
  PROVE  /\ r \o a \in Seq(S) /\ Distinct(r \o a)
         /\ \A x : Listed(x, r \o a) <=> Listed(x, r) \/ Listed(x, a)
         /\ \A i, j \in DOMAIN (r \o a) : i < j /\ ~Listed((r \o a)[j], a) =>
              i \in DOMAIN r /\ j \in DOMAIN r /\ (r \o a)[i] = r[i] /\ (r \o a)[j] = r[j]
<1> DEFINE s == r \o a
           n == Len(r)
<1>1. /\ DOMAIN r = 1..n /\ DOMAIN a = 1..Len(a) /\ n \in Nat /\ Len(a) \in Nat
      /\ s \in Seq(S) /\ DOMAIN s = 1..(n + Len(a))
      /\ \A i \in 1..n : s[i] = r[i]
      /\ \A i \in 1..Len(a) : s[n + i] = a[i]
  OBVIOUS
<1> HIDE DEF s, n
<1>2. \A i \in DOMAIN s :
        \/ i \in DOMAIN r /\ s[i] = r[i] /\ Listed(s[i], r)
        \/ ~(i <= n) /\ i - n \in DOMAIN a /\ s[i] = a[i - n] /\ Listed(s[i], a)
  <2> TAKE i \in DOMAIN s
  <2>1. CASE i <= n
    <3>1. i \in DOMAIN r /\ s[i] = r[i]
      BY <1>1, <2>1
    <3> QED
      BY <3>1 DEF Listed
  <2>2. CASE ~(i <= n)
    <3>1. i - n \in DOMAIN a /\ i = n + (i - n)
      BY <1>1, <2>2
    <3>2. s[i] = a[i - n]
      BY <1>1, <3>1
    <3> QED
      BY <2>2, <3>1, <3>2 DEF Listed
  <2> QED
    BY <2>1, <2>2
<1>3. \A x : Listed(x, s) <=> Listed(x, r) \/ Listed(x, a)
  <2> TAKE x
  <2>1. ASSUME Listed(x, s) PROVE Listed(x, r) \/ Listed(x, a)
    BY <1>2, <2>1 DEF Listed
  <2>2. ASSUME Listed(x, r) PROVE Listed(x, s)
    <3>1. PICK i \in DOMAIN r : r[i] = x
      BY <2>2 DEF Listed
    <3>2. i \in DOMAIN s /\ s[i] = x
      BY <1>1, <3>1
    <3> QED
      BY <3>2 DEF Listed
  <2>3. ASSUME Listed(x, a) PROVE Listed(x, s)
    <3>1. PICK i \in DOMAIN a : a[i] = x
      BY <2>3 DEF Listed
    <3>2. n + i \in DOMAIN s /\ s[n + i] = x
      BY <1>1, <3>1
    <3> QED
      BY <3>2 DEF Listed
  <2> QED
    BY <2>1, <2>2, <2>3
<1>4. Distinct(s)
  <2> SUFFICES ASSUME NEW i \in DOMAIN s, NEW j \in DOMAIN s, i # j PROVE s[i] # s[j]
    BY DEF Distinct
  <2>1. CASE Listed(s[i], r) /\ Listed(s[j], r)
    <3>1. i \in DOMAIN r /\ s[i] = r[i] /\ j \in DOMAIN r /\ s[j] = r[j]
      BY <1>2, <2>1
    <3> QED
      BY <3>1 DEF Distinct
  <2>2. CASE Listed(s[i], a) /\ Listed(s[j], a)
    <3>1. i - n \in DOMAIN a /\ s[i] = a[i - n] /\ j - n \in DOMAIN a /\ s[j] = a[j - n]
      BY <1>2, <2>2
    <3>2. i - n # j - n
      BY <1>1
    <3> QED
      BY <3>1, <3>2 DEF Distinct
  <2> QED
    BY <1>2, <2>1, <2>2
<1>5. \A i, j \in DOMAIN s : i < j /\ ~Listed(s[j], a) =>
        i \in DOMAIN r /\ j \in DOMAIN r /\ s[i] = r[i] /\ s[j] = r[j]
  <2> SUFFICES ASSUME NEW i \in DOMAIN s, NEW j \in DOMAIN s, i < j, ~Listed(s[j], a)
               PROVE  i \in DOMAIN r /\ j \in DOMAIN r /\ s[i] = r[i] /\ s[j] = r[j]
    OBVIOUS
  <2>1. j \in DOMAIN r /\ s[j] = r[j]
    BY <1>2
  <2>2. i \in DOMAIN r
    BY <1>1, <2>1
  <2> QED
    BY <1>1, <2>1, <2>2
<1> QED
  BY <1>1, <1>3, <1>4, <1>5 DEF s

\* The store with the event ingested and nothing evicted yet: order lists every
\* incident once, the ones the event does not touch as they were seen.
LEMMA Ingested ==
  ASSUME OrderInv, NEW S \in SUBSET Keys, IsFiniteSet(S), NEW a \in Arrangements(S)
  PROVE  LET inc == [k \in Keys |-> IF k \in S THEN ApplyRule(incidents[k]) ELSE incidents[k]]
             ord == Without(order, S) \o a
         IN  /\ inc \in [Keys -> IncidentStates \cup {"none"}]
             /\ \A k \in Keys : incidents[k] = "active" => inc[k] = "active"
             /\ ord \in Seq(Keys) /\ Distinct(ord)
             /\ \A j \in Keys : inc[j] # "none" <=> Listed(j, ord)
             /\ \A i, j \in DOMAIN ord : i < j /\ ord[j] \notin S => SeenBefore(ord[i], ord[j])
<1> DEFINE inc == [k \in Keys |-> IF k \in S THEN ApplyRule(incidents[k]) ELSE incidents[k]]
           rest == Without(order, S)
           ord == rest \o a
<1>1. order \in Seq(Keys) /\ Distinct(order)
  BY DEF OrderInv
<1>2. \A v \in IncidentStates \cup {"none"} :
        /\ ApplyRule(v) \in IncidentStates /\ ApplyRule(v) # "none"
        /\ v = "active" => ApplyRule(v) = "active"
  BY States DEF ApplyRule
<1>3. /\ inc \in [Keys -> IncidentStates \cup {"none"}]
      /\ \A k \in Keys : incidents[k] = "active" => inc[k] = "active"
      /\ \A k \in Keys : inc[k] # "none" <=> incidents[k] # "none" \/ k \in S
  BY <1>2 DEF OrderInv
<1>4. rest \in Seq(Keys) /\ Distinct(rest) /\ \A x : Listed(x, rest) <=> Listed(x, order) /\ x \notin S
  BY <1>1, WithoutType, WithoutDistinct, WithoutListed
<1>5. a \in Seq(Keys) /\ Distinct(a) /\ \A x : Listed(x, a) <=> x \in S
  <2>1. /\ a \in [1..Cardinality(S) -> S] /\ Distinct(a)
        /\ \A k \in S : Listed(k, a)
    BY DEF Arrangements
  <2>2. Cardinality(S) \in Nat
    BY FS_CardinalityType
  <2>3. a \in [1..Cardinality(S) -> Keys]
    BY <2>1
  <2>4. a \in Seq(Keys)
    BY <2>2, <2>3
  <2>5. \A x : Listed(x, a) => x \in S
    BY <2>1 DEF Listed
  <2> QED
    BY <2>1, <2>4, <2>5
<1>6. /\ ord \in Seq(Keys) /\ Distinct(ord)
      /\ \A x : Listed(x, ord) <=> Listed(x, rest) \/ Listed(x, a)
      /\ \A i, j \in DOMAIN ord : i < j /\ ~Listed(ord[j], a) =>
           i \in DOMAIN rest /\ j \in DOMAIN rest /\ ord[i] = rest[i] /\ ord[j] = rest[j]
  <2>1. \A x : ~(Listed(x, rest) /\ Listed(x, a))
    BY <1>4, <1>5
  <2> HIDE DEF rest
  <2> QED
    BY <1>4, <1>5, <2>1, JoinKeys
<1>7. \A j \in Keys : inc[j] # "none" <=> Listed(j, ord)
  <2> HIDE DEF inc, ord
  <2> QED
    BY <1>3, <1>4, <1>5, <1>6 DEF OrderInv
<1>8. \A i, j \in DOMAIN ord : i < j /\ ord[j] \notin S => SeenBefore(ord[i], ord[j])
  <2> SUFFICES ASSUME NEW i \in DOMAIN ord, NEW j \in DOMAIN ord, i < j, ord[j] \notin S
               PROVE  SeenBefore(ord[i], ord[j])
    OBVIOUS
  <2>1. i \in DOMAIN rest /\ j \in DOMAIN rest /\ ord[i] = rest[i] /\ ord[j] = rest[j]
    BY <1>5, <1>6
  <2>2. \E m, n \in DOMAIN order : m < n /\ rest[i] = order[m] /\ rest[j] = order[n]
    BY <1>1, <2>1, WithoutOrder
  <2> QED
    BY <2>1, <2>2 DEF SeenBefore
<1> QED
  BY <1>3, <1>6, <1>7, <1>8

\* x leaves a store full of active incidents, seen later or of the event.
LeavesFull(x) ==
    /\ Len(order') = MaxIncidents
    /\ \E S \in SUBSET Keys : /\ Ingest(S)
                             /\ \A j \in Keys : incidents'[j] # "none" =>
                                   /\ incidents'[j] = "active"
                                   /\ j \in S \/ SeenBefore(x, j)

\* An event keeps the store bounded and evicts an active incident only then.
LEMMA IngestOrder ==
  ASSUME OrderInv, NEW S \in SUBSET Keys, IsFiniteSet(S), Ingest(S)
  PROVE  /\ OrderInv'
         /\ \A x \in Keys : incidents[x] = "active" /\ incidents'[x] = "none" => LeavesFull(x)
<1> DEFINE inc == [k \in Keys |-> IF k \in S THEN ApplyRule(incidents[k]) ELSE incidents[k]]
<1>0. PICK a \in Arrangements(S) :
        LET gone == Evicted(inc, Without(order, S) \o a)
        IN  /\ incidents' = [j \in Keys |-> IF j \in gone THEN "none" ELSE inc[j]]
            /\ order' = Without(Without(order, S) \o a, gone)
  BY DEF Ingest
<1> DEFINE ord == Without(order, S) \o a
           gone == Evicted(inc, ord)
<1>1. /\ incidents' = [j \in Keys |-> IF j \in gone THEN "none" ELSE inc[j]]
      /\ order' = Without(ord, gone)
  BY <1>0
<1>2. /\ inc \in [Keys -> IncidentStates \cup {"none"}]
      /\ \A k \in Keys : incidents[k] = "active" => inc[k] = "active"
      /\ ord \in Seq(Keys) /\ Distinct(ord)
      /\ \A j \in Keys : inc[j] # "none" <=> Listed(j, ord)
      /\ \A i, j \in DOMAIN ord : i < j /\ ord[j] \notin S => SeenBefore(ord[i], ord[j])
  BY Ingested
<1> HIDE DEF inc, ord, gone
<1>3. Len(ord) \in Nat /\ DOMAIN ord = 1..Len(ord)
  BY <1>2
<1>4. /\ order' \in Seq(Keys) /\ Len(order') \in Nat /\ Len(order') <= Len(ord)
      /\ Distinct(order')
  BY <1>1, <1>2, WithoutType, WithoutDistinct
<1>5. \A j : Listed(j, order') <=> Listed(j, ord) /\ j \notin gone
  BY <1>1, <1>2, WithoutListed
<1>6. incidents' \in [Keys -> IncidentStates \cup {"none"}]
  BY <1>1, <1>2
<1>7. \A j \in Keys : incidents'[j] # "none" <=> Listed(j, order')
  BY <1>1, <1>2, <1>5
<1>8. CASE Len(ord) <= MaxIncidents
  <2>1. gone = {}
    BY <1>8 DEF gone, Evicted
  <2>2. Len(order') <= MaxIncidents
    BY <1>3, <1>4, <1>8, RadarAlertsAssumption
  <2>3. \A x \in Keys : incidents[x] = "active" => incidents'[x] # "none"
    BY <1>1, <1>2, <2>1
  <2> QED
    BY <1>4, <1>6, <1>7, <2>2, <2>3 DEF OrderInv
<1>9. CASE ~(Len(ord) <= MaxIncidents)
  <2>1. Len(ord) > MaxIncidents
    BY <1>3, <1>9, RadarAlertsAssumption
  <2>2. \A i \in DOMAIN ord : inc[ord[i]] \in IncidentStates
    <3> TAKE i \in DOMAIN ord
    <3>1. ord[i] \in Keys /\ Listed(ord[i], ord)
      BY <1>2 DEF Listed
    <3> QED
      BY <1>2, <3>1
  <2>3. /\ Len(order') = MaxIncidents
        /\ \A i, j \in DOMAIN ord :
             ord[i] \in gone /\ ord[j] \notin gone => GoesBefore(inc, ord, i, j)
    BY <1>1, <1>2, <2>1, <2>2, EvictedAreFirst DEF gone
  <2>4. Len(order') <= MaxIncidents
    BY <1>4, <2>3
  <2>5. ASSUME NEW x \in Keys, incidents[x] = "active", incidents'[x] = "none",
               NEW j \in Keys, incidents'[j] # "none"
        PROVE  incidents'[j] = "active" /\ (j \in S \/ SeenBefore(x, j))
    <3>1. inc[x] = "active" /\ x \in gone
      BY <1>1, <1>2, <2>5
    <3>2. j \notin gone /\ incidents'[j] = inc[j] /\ inc[j] # "none"
      BY <1>1, <2>5
    <3>3. PICK p \in DOMAIN ord : ord[p] = x
      BY <1>2, <3>1 DEF Listed
    <3>4. PICK q \in DOMAIN ord : ord[q] = j
      BY <1>2, <3>2 DEF Listed
    <3>5. GoesBefore(inc, ord, p, q)
      BY <2>3, <3>1, <3>2, <3>3, <3>4
    <3>6. inc[j] = "active" /\ p < q
      <4> DEFINE r == Rank[inc[ord[q]]]
      <4>1. r \in 0..3 /\ (r = 3 => inc[j] = "active")
        BY <2>2, <3>4, Ranks
      <4>2. Rank[inc[ord[p]]] = 3
        BY <3>1, <3>3, Ranks
      <4>3. 3 < r \/ (3 = r /\ p < q)
        BY <3>5, <4>2 DEF GoesBefore
      <4> HIDE DEF r
      <4> QED
        BY <4>1, <4>3
    <3>7. j \in S \/ SeenBefore(x, j)
      BY <1>2, <3>3, <3>4, <3>6
    <3> QED
      BY <3>2, <3>6, <3>7
  <2>6. \A x \in Keys : incidents[x] = "active" /\ incidents'[x] = "none" => LeavesFull(x)
    BY <2>3, <2>5 DEF LeavesFull
  <2> QED
    BY <1>4, <1>6, <1>7, <2>4, <2>6 DEF OrderInv
<1> QED
  BY <1>8, <1>9

\* What a step may do to an active incident.
Stays(x) == incidents[x] = "active" /\ incidents'[x] = "none" => NewIncidentStore \/ LeavesFull(x)

\* Every step keeps the order, and takes an active incident away only as
\* ActiveStays says.
LEMMA OrderNext ==
  ASSUME OrderInv, [Next]_vars
  PROVE  OrderInv' /\ \A x \in Keys : Stays(x)
<1>1. ASSUME incidents' = incidents, order' = order
      PROVE  OrderInv' /\ \A x \in Keys : Stays(x)
  BY <1>1 DEF OrderInv, Stays
<1>2. ASSUME NEW S \in SUBSET Keys, IsFiniteSet(S), Ingest(S)
      PROVE  OrderInv' /\ \A x \in Keys : Stays(x)
  BY <1>2, IngestOrder DEF Stays
<1>4. ASSUME NEW k \in Keys, NEW v \in IncidentStates, incidents[k] # "none",
             incidents' = [incidents EXCEPT ![k] = v], order' = order
      PROVE  OrderInv' /\ \A x \in Keys : Stays(x)
  <2>1. v # "none"
    BY States
  <2>2. incidents' \in [Keys -> IncidentStates \cup {"none"}]
    BY <1>4 DEF OrderInv
  <2>3. \A j \in Keys : incidents'[j] # "none" <=> incidents[j] # "none"
    BY <1>4, <2>1 DEF OrderInv
  <2> QED
    BY <1>4, <2>2, <2>3 DEF OrderInv, Stays
<1>5. CASE Frame
  BY <1>1, <1>5 DEF Frame, FramePublishFails, FrameEmpty, FrameQuiet, FrameAlert, consoleVars
<1>6. ASSUME NEW t \in Tracks, Deliver(t) PROVE OrderInv' /\ \A x \in Keys : Stays(x)
  BY <1>2, <1>6, EventRules DEF Deliver
<1>7. ASSUME NEW e \in Events, IngestOther(e) PROVE OrderInv' /\ \A x \in Keys : Stays(x)
  BY <1>2, <1>7, EventRules DEF IngestOther
<1>8. ASSUME NEW k \in AutoClear, Refresh(k) PROVE OrderInv' /\ \A x \in Keys : Stays(x)
  <2>1. PICK v \in {"cleared", "clearedAcked"} : incidents' = [incidents EXCEPT ![k] = v]
    BY <1>8 DEF Refresh
  <2>2. v \in IncidentStates /\ incidents[k] # "none" /\ order' = order /\ k \in Keys
    BY <1>8, States, EventRules DEF Refresh
  <2> QED
    BY <1>4, <2>1, <2>2
<1>9. ASSUME NEW k \in Keys, Ack(k) PROVE OrderInv' /\ \A x \in Keys : Stays(x)
  <2>1. PICK v \in {"acked", "clearedAcked"} : incidents' = [incidents EXCEPT ![k] = v]
    BY <1>9 DEF Ack
  <2>2. v \in IncidentStates /\ incidents[k] # "none" /\ order' = order
    BY <1>9, States DEF Ack
  <2> QED
    BY <1>4, <2>1, <2>2
<1>10. CASE ClearAcked
  <2> DEFINE gone == {k \in Keys : Acked(incidents[k])}
  <2>1. /\ incidents' = [k \in Keys |-> IF k \in gone THEN "none" ELSE incidents[k]]
        /\ order' = Without(order, gone)
    BY <1>10 DEF ClearAcked
  <2>2. \A k \in Keys : incidents[k] = "active" => k \notin gone
    BY DEF Acked
  <2> HIDE DEF gone
  <2>3. order \in Seq(Keys) /\ Distinct(order) /\ Len(order) <= MaxIncidents /\ Len(order) \in Nat
    BY DEF OrderInv
  <2>4. /\ order' \in Seq(Keys) /\ Len(order') \in Nat /\ Len(order') <= Len(order)
        /\ Distinct(order')
    BY <2>1, <2>3, WithoutType, WithoutDistinct
  <2>5. Len(order') <= MaxIncidents
    BY <2>3, <2>4, RadarAlertsAssumption
  <2>6. \A j : Listed(j, order') <=> Listed(j, order) /\ j \notin gone
    BY <2>1, <2>3, WithoutListed
  <2>7. incidents' \in [Keys -> IncidentStates \cup {"none"}]
    BY <2>1 DEF OrderInv
  <2>8. \A j \in Keys : incidents'[j] # "none" <=> Listed(j, order')
    BY <2>1, <2>6 DEF OrderInv
  <2>9. \A x \in Keys : Stays(x)
    BY <2>1, <2>2 DEF Stays
  <2> QED
    BY <2>4, <2>5, <2>7, <2>8, <2>9 DEF OrderInv
<1>11. CASE NewIncidentStore
  <2>1. incidents' = [k \in Keys |-> "none"] /\ order' = <<>>
    BY <1>11 DEF NewIncidentStore
  <2>2. /\ order' \in Seq(Keys) /\ Distinct(order') /\ Len(order') <= MaxIncidents
        /\ \A k : ~Listed(k, order')
    BY <2>1, RadarAlertsAssumption DEF Distinct, Listed
  <2> QED
    BY <1>11, <2>1, <2>2 DEF OrderInv, Stays
<1>12. CASE DeliverInCooldown \/ DeliverUnmatched \/ Lose \/ Clock \/ UNCHANGED vars
  BY <1>1, <1>12 DEF DeliverInCooldown, DeliverUnmatched, Lose, Clock, consoleVars, vars
<1> QED
  BY <1>5, <1>6, <1>7, <1>8, <1>9, <1>10, <1>11, <1>12 DEF Next

\* The store starts empty.
LEMMA OrderInit == Init => OrderInv
<1> SUFFICES ASSUME Init PROVE OrderInv
  OBVIOUS
<1>1. incidents = [k \in Keys |-> "none"] /\ order = <<>>
  BY DEF Init
<1>2. /\ order \in Seq(Keys) /\ Distinct(order) /\ Len(order) <= MaxIncidents
      /\ \A k : ~Listed(k, order)
  BY <1>1, RadarAlertsAssumption DEF Distinct, Listed
<1> QED
  BY <1>1, <1>2 DEF OrderInv

\* However many rules one event matches and however many incidents
\* _enforce_max_incidents then removes: an active incident nobody acknowledged
\* goes only with the store, or when every place is taken by an active one that
\* was seen after it or is of the event itself; _clear_acked_incidents never
\* takes one.  For any number of keys and slots.
THEOREM ActiveIncidentStays == Spec => ActiveStays
<1> DEFINE A == \A k \in Keys : incidents[k] = "active" /\ incidents'[k] = "none" =>
                  \/ NewIncidentStore
                  \/ /\ Len(order') = MaxIncidents
                     /\ \E S \in SUBSET Keys : /\ Ingest(S)
                                              /\ \A j \in Keys : incidents'[j] # "none" =>
                                                    /\ incidents'[j] = "active"
                                                    /\ j \in S \/ SeenBefore(k, j)
<1>1. OrderInv /\ [Next]_vars => OrderInv'
  BY OrderNext
<1>2. OrderInv /\ [Next]_vars => [A]_vars
  BY OrderNext DEF Stays, LeavesFull
<1> QED
  BY <1>1, <1>2, OrderInit, PTL DEF Spec, ActiveStays

-----------------------------------------------------------------------------
(* Types.                                                                  *)

TrackStates == [hits : 0..MinHits, miss : 0..MaxMisses, zone : Zones]

\* The variables neither CadenceInv nor OrderInv speaks of.
OtherTypes ==
    /\ tracks \in [Tracks -> TrackStates]
    /\ sinceClear \in [Keys -> 0..ClearCooldown]
    /\ news \subseteq Keys
    /\ sight = <<>> \/ sight \in Tracks \X BOOLEAN

\* A frame leaves every track within its counters.
LEMMA ProcessTrackType ==
  ASSUME NEW s \in TrackStates, NEW zone \in Zones \cup {"none"}
  PROVE  ProcessTrack(s, zone) \in TrackStates
<1>0. MinHits \in Nat \ {0} /\ MaxMisses \in Nat \ {0}
  BY RadarAlertsAssumption
<1>1. "none" \notin Zones /\ NoTrack \in TrackStates
  BY <1>0 DEF Zones, NoTrack, TrackStates
<1>2. s.hits \in 0..MinHits /\ s.miss \in 0..MaxMisses /\ s.zone \in Zones
  BY DEF TrackStates
<1>3. CASE zone # "none"
  <2> DEFINE h == IF s.hits < MinHits THEN s.hits + 1 ELSE s.hits
  <2>1. h \in 0..MinHits /\ 0 \in 0..MaxMisses /\ zone \in Zones
    BY <1>0, <1>2, <1>3
  <2>2. ProcessTrack(s, zone) = [hits |-> h, miss |-> 0, zone |-> zone]
    BY <1>3 DEF ProcessTrack
  <2> HIDE DEF h
  <2> QED
    BY <2>1, <2>2 DEF TrackStates
<1>4. CASE zone = "none" /\ (s = NoTrack \/ s.miss >= MaxMisses)
  BY <1>1, <1>4 DEF ProcessTrack
<1>5. CASE zone = "none" /\ ~(s = NoTrack \/ s.miss >= MaxMisses)
  <2>1. ProcessTrack(s, zone) = [s EXCEPT !.miss = @ + 1]
    BY <1>5 DEF ProcessTrack
  <2>2. s.miss + 1 \in 0..MaxMisses
    BY <1>0, <1>2, <1>5
  <2> QED
    BY <2>1, <2>2 DEF TrackStates
<1> QED
  BY <1>3, <1>4, <1>5

\* The same for all of them.
LEMMA ProcessFrameType ==
  ASSUME tracks \in [Tracks -> TrackStates], NEW d \in Detections
  PROVE  ProcessFrame(d) \in [Tracks -> TrackStates]
<1>1. \A t \in Tracks : tracks[t] \in TrackStates /\ d[t] \in Zones \cup {"none"}
  BY DEF Detections
<1>2. \A t \in Tracks : ProcessTrack(tracks[t], d[t]) \in TrackStates
  BY <1>1, ProcessTrackType
<1> QED
  BY <1>2 DEF ProcessFrame

\* Every step keeps the remaining types.
LEMMA OtherTypesNext == OtherTypes /\ [Next]_vars => OtherTypes'
<1> SUFFICES ASSUME OtherTypes, [Next]_vars PROVE OtherTypes'
  OBVIOUS
<1>1. ASSUME NEW S \in SUBSET Keys, Ingest(S) PROVE OtherTypes'
  <2>1. news' \subseteq news \cup S /\ UNCHANGED <<tracks, sinceClear, sight>>
    BY <1>1 DEF Ingest, bridgeVars
  <2> QED
    BY <2>1 DEF OtherTypes
<1>3. CASE Frame
  <2>1. PICK d \in Detections : tracks' = ProcessFrame(d)
    BY <1>3 DEF Frame, FramePublishFails, FrameEmpty, FrameQuiet, FrameAlert
  <2>2. tracks' \in [Tracks -> TrackStates]
    BY <2>1, ProcessFrameType DEF OtherTypes
  <2>3. UNCHANGED <<sinceClear, news>>
    BY <1>3 DEF Frame, FramePublishFails, FrameEmpty, FrameQuiet, FrameAlert, consoleVars
  <2>4. sight' = sight \/ sight' = <<>> \/ sight' \in Tracks \X BOOLEAN
    <3>1. CASE FramePublishFails \/ FrameEmpty
      BY <3>1 DEF FramePublishFails, FrameEmpty
    <3>2. CASE FrameQuiet
      <4>1. PICK t \in BestTracks(tracks') :
              \E match \in Matches(tracks'[t], keys[t].active) : sight' = <<t, match>>
        BY <3>2 DEF FrameQuiet
      <4>2. t \in Tracks /\ Matches(tracks'[t], keys[t].active) \subseteq BOOLEAN
        BY <4>1 DEF BestTracks, Matches
      <4> QED
        BY <4>1, <4>2
    <3>3. CASE \E t \in Tracks : FrameAlert(t)
      <4>1. PICK t \in Tracks : sight' = <<t, TRUE>>
        BY <3>3 DEF FrameAlert
      <4> QED
        BY <4>1
    <3> QED
      BY <1>3, <3>1, <3>2, <3>3 DEF Frame
  <2> QED
    BY <2>2, <2>3, <2>4 DEF OtherTypes
<1>4. ASSUME NEW t \in Tracks, Deliver(t) PROVE OtherTypes'
  BY <1>1, <1>4, EventRules DEF Deliver
<1>5. ASSUME NEW e \in Events, IngestOther(e) PROVE OtherTypes'
  BY <1>1, <1>5, EventRules DEF IngestOther
<1>6. ASSUME NEW k \in AutoClear, Refresh(k) PROVE OtherTypes'
  BY <1>6 DEF Refresh, bridgeVars, OtherTypes
<1>7. ASSUME NEW k \in Keys, Ack(k) PROVE OtherTypes'
  BY <1>7 DEF Ack, bridgeVars, OtherTypes
<1>8. CASE ClearAcked
  <2>1. sinceClear' \in [Keys -> 0..ClearCooldown]
    BY <1>8, RadarAlertsAssumption DEF ClearAcked, OtherTypes
  <2> QED
    BY <1>8, <2>1 DEF ClearAcked, bridgeVars, OtherTypes
<1>9. CASE NewIncidentStore
  <2>1. sinceClear' \in [Keys -> 0..ClearCooldown]
    BY <1>9, RadarAlertsAssumption DEF NewIncidentStore
  <2> QED
    BY <1>9, <2>1 DEF NewIncidentStore, bridgeVars, OtherTypes
<1>10. CASE Clock
  <2>1. \A k \in Keys : Older(sinceClear[k], ClearCooldown) \in 0..ClearCooldown
    BY RadarAlertsAssumption DEF OtherTypes, Older
  <2>2. sinceClear' \in [Keys -> 0..ClearCooldown]
    BY <1>10, <2>1 DEF Clock
  <2> QED
    BY <1>10, <2>2 DEF Clock, OtherTypes
<1>11. CASE DeliverInCooldown \/ DeliverUnmatched \/ Lose \/ UNCHANGED vars
  BY <1>11 DEF DeliverInCooldown, DeliverUnmatched, Lose, bridgeVars, consoleVars, vars, OtherTypes
<1> QED
  BY <1>3, <1>4, <1>5, <1>6, <1>7, <1>8, <1>9, <1>10, <1>11 DEF Next

\* The type invariant, with the bound of the incident store and the agreement
\* of its dict with its order, for any number of keys and slots.
THEOREM TypeCorrect == Spec => []TypeOK
<1>1. Init => OtherTypes
  <2> SUFFICES ASSUME Init PROVE OtherTypes
    OBVIOUS
  <2>1. NoTrack \in TrackStates
    BY RadarAlertsAssumption DEF NoTrack, TrackStates, Zones
  <2>2. tracks \in [Tracks -> TrackStates]
    BY <2>1 DEF Init
  <2>3. sinceClear \in [Keys -> 0..ClearCooldown]
    BY RadarAlertsAssumption DEF Init
  <2> QED
    BY <2>2, <2>3 DEF Init, OtherTypes
<1>2. OrderInv /\ [Next]_vars => OrderInv'
  BY OrderNext
<1>3. CadenceInv /\ OrderInv /\ OtherTypes => TypeOK
  BY DEF CadenceInv, OrderInv, OtherTypes, TypeOK, KeyStates, TrackStates
<1> QED
  BY <1>1, <1>2, <1>3, OtherTypesNext, CadenceInit, CadenceNext, OrderInit, PTL DEF Spec
=============================================================================
