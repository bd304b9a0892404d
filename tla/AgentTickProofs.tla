--------------------------- MODULE AgentTickProofs ---------------------------
(***************************************************************************)
(* What holds of the agent's tick for every set of contacts and radars.    *)
(* The world model's operators are shown one by one to keep ownership and  *)
(* guards consistent; the facts about the tick rest on what each phase     *)
(* leaves in the context for the next one.  Typing and the bound on the    *)
(* sensor slots need the order of the slots as well (Fitting): every owner *)
(* has exactly one slot, and no operator adds a slot without its limit.    *)
(***************************************************************************)
EXTENDS AgentTick, PruningProofs, TLAPS

-----------------------------------------------------------------------------
(* The world model.                                                        *)

\* The typing of a world without the order of its slots.
Shaped(w) ==
    /\ w.threat \in [Tracks -> Threats \cup {"gone"}]
    /\ w.age \in [Tracks -> 0..DeadAge]
    /\ w.owned \in [Sensors -> SUBSET Tracks]
    /\ DOMAIN w = {"threat", "age", "owned", "order", "guards"}
    /\ w = [x \in DOMAIN w |-> w[x]]

Consistent(w) == Shaped(w) /\ OneOwner(w) /\ GuardsOfKnown(w)

\* The agent starts with a consistent world.
LEMMA NewWorldConsistent == Consistent(NewWorld)
<1>1. /\ NewWorld.threat = [t \in Tracks |-> "gone"]
      /\ NewWorld.age = [t \in Tracks |-> 0]
      /\ NewWorld.owned = [s \in Sensors |-> {}]
      /\ NewWorld.guards = {}
      /\ DOMAIN NewWorld = {"threat", "age", "owned", "order", "guards"}
      /\ NewWorld = [x \in DOMAIN NewWorld |-> NewWorld[x]]
  BY DEF NewWorld
<1>2. 0 \in 0..DeadAge
  BY AgentWorldAssumption
<1>3. Shaped(NewWorld)
  BY <1>1, <1>2 DEF Shaped, Threats
<1>4. OneOwner(NewWorld)
  BY <1>1 DEF OneOwner, Owned, Known
<1>5. GuardsOfKnown(NewWorld)
  BY <1>1 DEF GuardsOfKnown, EvaluateTracks, Severities
<1> QED
  BY <1>3, <1>4, <1>5 DEF Consistent

\* What Forget reads and writes.
LEMMA ForgetFields ==
  ASSUME NEW w, Shaped(w), NEW gone
  PROVE  LET f == Forget(w, gone) IN
         /\ Shaped(f)
         /\ f.threat = [t \in Tracks |-> IF t \in gone THEN "gone" ELSE w.threat[t]]
         /\ f.owned = w.owned
         /\ f.age = [t \in Tracks |-> IF t \in gone THEN 0 ELSE w.age[t]]
<1> DEFINE f == Forget(w, gone)
<1>1. /\ f.threat = [t \in Tracks |-> IF t \in gone THEN "gone" ELSE w.threat[t]]
      /\ f.age = [t \in Tracks |-> IF t \in gone THEN 0 ELSE w.age[t]]
      /\ f.owned = w.owned
      /\ DOMAIN f = {"threat", "age", "owned", "order", "guards"}
      /\ f = [x \in DOMAIN f |-> f[x]]
  BY DEF Shaped, Forget
<1>2. 0 \in 0..DeadAge
  BY AgentWorldAssumption
<1> HIDE DEF f
<1>3. Shaped(f)
  BY <1>1, <1>2 DEF Shaped
<1> QED
  BY <1>1, <1>3 DEF f

\* What Disown reads and writes.
LEMMA DisownFields ==
  ASSUME NEW w, Shaped(w), NEW ids
  PROVE  LET d == Disown(w, ids) IN
         /\ Shaped(d)
         /\ d.threat = w.threat /\ d.age = w.age
         /\ d.owned = [s \in Sensors |-> w.owned[s] \ ids]
<1> DEFINE d == Disown(w, ids)
<1>1. /\ d.threat = w.threat /\ d.age = w.age
      /\ d.owned = [s \in Sensors |-> w.owned[s] \ ids]
      /\ DOMAIN d = {"threat", "age", "owned", "order", "guards"}
      /\ d = [x \in DOMAIN d |-> d[x]]
  BY DEF Shaped, Disown
<1> HIDE DEF d
<1>2. Shaped(d)
  BY <1>1 DEF Shaped
<1> QED
  BY <1>1, <1>2 DEF d

\* The order of the slots concerns neither contacts nor owners.
LEMMA OrderFields ==
  ASSUME NEW w, Shaped(w), NEW o
  PROVE  LET d == [w EXCEPT !.order = o] IN
         /\ Shaped(d)
         /\ d.threat = w.threat /\ d.age = w.age /\ d.owned = w.owned
         /\ d.guards = w.guards
  BY DEF Shaped

\* The same for the operator that drops empty slots.
LEMMA DropFields ==
  ASSUME NEW w, Shaped(w)
  PROVE  LET d == DropEmptyKeys(w) IN
         /\ Shaped(d)
         /\ d.threat = w.threat /\ d.age = w.age /\ d.owned = w.owned
<1> DEFINE o == Without(w.order, {s \in Sensors : w.owned[s] = {}})
<1>1. DropEmptyKeys(w) = [w EXCEPT !.order = o]
  BY DEF DropEmptyKeys
<1> HIDE DEF o
<1> QED
  BY <1>1, OrderFields

\* Recalculated guards are those of the known contacts.
LEMMA RecalculateFields ==
  ASSUME NEW w, Shaped(w)
  PROVE  LET d == RecalculateGuards(w) IN
         /\ Shaped(d)
         /\ d.threat = w.threat /\ d.age = w.age /\ d.owned = w.owned
         /\ GuardsOfKnown(d)
<1> DEFINE g == EvaluateTracks(w.threat)
           d == [w EXCEPT !.guards = g]
<1>1. RecalculateGuards(w) = d
  BY DEF RecalculateGuards
<1> HIDE DEF g
<1>2. /\ d.threat = w.threat /\ d.age = w.age /\ d.owned = w.owned /\ d.guards = g
      /\ DOMAIN d = {"threat", "age", "owned", "order", "guards"}
      /\ d = [x \in DOMAIN d |-> d[x]]
  BY DEF Shaped
<1> HIDE DEF d
<1>3. Shaped(d)
  BY <1>2 DEF Shaped
<1>4. GuardsOfKnown(d)
  BY <1>2 DEF GuardsOfKnown, g
<1> QED
  BY <1>1, <1>2, <1>3, <1>4

\* Ownership written out contact by contact.
LEMMA OwnerFacts ==
  ASSUME NEW w, Shaped(w)
  PROVE  OneOwner(w) <=>
         /\ \A s \in Sensors : \A t \in w.owned[s] : t \in Tracks /\ w.threat[t] # "gone"
         /\ \A s1, s2 \in Sensors : s1 # s2 => w.owned[s1] \cap w.owned[s2] = {}
<1>1. Owned(w) \subseteq Known(w) <=>
        \A s \in Sensors : \A t \in w.owned[s] : t \in Tracks /\ w.threat[t] # "gone"
  <2>1. \A t : t \in Owned(w) <=> \E s \in Sensors : t \in w.owned[s]
    BY DEF Owned
  <2>2. \A t : t \in Known(w) <=> t \in Tracks /\ w.threat[t] # "gone"
    BY DEF Known
  <2> QED
    BY <2>1, <2>2
<1> QED
  BY <1>1 DEF OneOwner

\* Forgetting contacts that are taken from every owner keeps the ownership.
LEMMA ForgetDisown ==
  ASSUME NEW w, Shaped(w), OneOwner(w), NEW gone
  PROVE  /\ Shaped(Disown(Forget(w, gone), gone))
         /\ OneOwner(Disown(Forget(w, gone), gone))
<1> DEFINE f == Forget(w, gone)
           d == Disown(f, gone)
<1>1. /\ Shaped(f) /\ f.owned = w.owned
      /\ f.threat = [t \in Tracks |-> IF t \in gone THEN "gone" ELSE w.threat[t]]
  <2>1. /\ Shaped(Forget(w, gone))
        /\ Forget(w, gone).threat = [t \in Tracks |-> IF t \in gone THEN "gone" ELSE w.threat[t]]
        /\ Forget(w, gone).owned = w.owned
        /\ Forget(w, gone).age = [t \in Tracks |-> IF t \in gone THEN 0 ELSE w.age[t]]
    BY ForgetFields
  <2> QED
    BY <2>1
<1> HIDE DEF f
<1>2. /\ Shaped(d) /\ d.threat = f.threat
      /\ d.owned = [s \in Sensors |-> f.owned[s] \ gone]
  BY <1>1, DisownFields
<1> HIDE DEF d
<1>3. OneOwner(d)
  <2>1. \A s \in Sensors : d.owned[s] = w.owned[s] \ gone
    BY <1>1, <1>2
  <2>2. \A t \in Tracks : t \notin gone => d.threat[t] = w.threat[t]
    BY <1>1, <1>2
  <2> QED
    BY <1>2, <2>1, <2>2, OwnerFacts
<1> QED
  BY <1>2, <1>3 DEF d, f

\* Eviction of dead contacts keeps the world consistent.
LEMMA EvictDeadConsistent ==
  ASSUME NEW w, Consistent(w)
  PROVE  Consistent(EvictDead(w))
<1>1. CASE Dead(w) = {}
  BY <1>1 DEF EvictDead
<1>2. CASE Dead(w) # {}
  <2> DEFINE d == Disown(Forget(w, Dead(w)), Dead(w))
             k == DropEmptyKeys(d)
             r == RecalculateGuards(k)
  <2>1. EvictDead(w) = r
    BY <1>2 DEF EvictDead
  <2>2. Shaped(d) /\ OneOwner(d)
    BY ForgetDisown DEF Consistent
  <2> HIDE DEF d
  <2>3. Shaped(k) /\ k.threat = d.threat /\ k.owned = d.owned
    BY <2>2, DropFields
  <2> HIDE DEF k
  <2>4. Shaped(r) /\ r.threat = k.threat /\ r.owned = k.owned /\ GuardsOfKnown(r)
    BY <2>3, RecalculateFields
  <2> HIDE DEF r
  <2>5. OneOwner(r)
    BY <2>2, <2>3, <2>4, OwnerFacts
  <2> QED
    BY <2>1, <2>4, <2>5 DEF Consistent
<1> QED
  BY <1>1, <1>2

\* A track message, a LOST one too, keeps the world consistent.
LEMMA IngestTrackConsistent ==
  ASSUME NEW w0, Consistent(w0), NEW t \in Tracks, NEW threat \in Threats \cup {"gone"}
  PROVE  Consistent(IngestTrack(w0, t, threat))
<1> DEFINE w == EvictDead(w0)
           u == IF threat = "gone" THEN Disown(Forget(w, {t}), {t})
                ELSE [w EXCEPT !.threat = [@ EXCEPT ![t] = threat], !.age = [@ EXCEPT ![t] = 0]]
<1>1. Consistent(w)
  BY EvictDeadConsistent
<1>2. IngestTrack(w0, t, threat) = RecalculateGuards(u)
  BY DEF IngestTrack
<1> HIDE DEF w
<1>3. Shaped(u) /\ OneOwner(u)
  <2>1. CASE threat = "gone"
    BY <1>1, <2>1, ForgetDisown DEF Consistent
  <2>2. CASE threat # "gone"
    <3> DEFINE v == [w EXCEPT !.threat = [@ EXCEPT ![t] = threat], !.age = [@ EXCEPT ![t] = 0]]
    <3>1. Shaped(w) /\ OneOwner(w)
      BY <1>1 DEF Consistent
    <3>2. /\ v.threat = [w.threat EXCEPT ![t] = threat]
          /\ v.age = [w.age EXCEPT ![t] = 0] /\ v.owned = w.owned
          /\ DOMAIN v = {"threat", "age", "owned", "order", "guards"}
          /\ v = [x \in DOMAIN v |-> v[x]]
      BY <3>1 DEF Shaped
    <3> HIDE DEF v
    <3>3. v.threat \in [Tracks -> Threats \cup {"gone"}]
      BY <3>1, <3>2 DEF Shaped
    <3>4. v.age \in [Tracks -> 0..DeadAge]
      BY <3>1, <3>2, AgentWorldAssumption DEF Shaped
    <3>5. Shaped(v)
      BY <3>1, <3>2, <3>3, <3>4 DEF Shaped
    <3>6. \A x \in Tracks : w.threat[x] # "gone" => v.threat[x] # "gone"
      BY <2>2, <3>1, <3>2 DEF Shaped
    <3>7. OneOwner(v)
      <4>1. /\ \A s \in Sensors : \A x \in w.owned[s] : x \in Tracks /\ w.threat[x] # "gone"
            /\ \A s1, s2 \in Sensors : s1 # s2 => w.owned[s1] \cap w.owned[s2] = {}
        BY <3>1, OwnerFacts
      <4>2. /\ \A s \in Sensors : \A x \in v.owned[s] : x \in Tracks /\ v.threat[x] # "gone"
            /\ \A s1, s2 \in Sensors : s1 # s2 => v.owned[s1] \cap v.owned[s2] = {}
        BY <3>2, <3>6, <4>1
      <4> QED
        BY <3>5, <4>2, OwnerFacts
    <3> QED
      BY <2>2, <3>5, <3>7 DEF v
  <2> QED
    BY <2>1, <2>2
<1> HIDE DEF u
<1>4. LET r == RecalculateGuards(u) IN
      Shaped(r) /\ r.threat = u.threat /\ r.owned = u.owned /\ GuardsOfKnown(r)
  BY <1>3, RecalculateFields
<1>5. OneOwner(RecalculateGuards(u))
  BY <1>3, <1>4, OwnerFacts
<1> QED
  BY <1>2, <1>4, <1>5 DEF Consistent

\* The oldest sensor loses its contacts and the world forgets them.
LEMMA EvictStaleOwners ==
  ASSUME NEW w, Shaped(w), OneOwner(w)
  PROVE  Shaped(EvictStaleSensors(w)) /\ OneOwner(EvictStaleSensors(w))
<1>1. CASE Len(w.order) <= MaxFrameSensors
  BY <1>1 DEF EvictStaleSensors
<1>2. CASE ~(Len(w.order) <= MaxFrameSensors)
  <2> DEFINE oldest == {s \in Sensors : s = Head(w.order)}
             lost   == UNION {w.owned[s] : s \in oldest}
             own    == [s \in Sensors |-> IF s \in oldest THEN {} ELSE w.owned[s]]
             f      == Forget(w, lost)
             e      == [f EXCEPT !.owned = [s \in Sensors |-> IF s \in oldest THEN {} ELSE @[s]],
                                 !.order = Tail(@)]
  <2>1. EvictStaleSensors(w) = e
    BY <1>2 DEF EvictStaleSensors
  <2>2. \A t : t \in lost <=> \E s \in oldest : t \in w.owned[s]
    OBVIOUS
  <2>3. oldest \subseteq Sensors
    OBVIOUS
  <2> HIDE DEF oldest, lost
  <2>4. /\ Shaped(f) /\ f.owned = w.owned
        /\ f.threat = [t \in Tracks |-> IF t \in lost THEN "gone" ELSE w.threat[t]]
    <3>1. /\ Shaped(Forget(w, lost))
          /\ Forget(w, lost).threat = [t \in Tracks |-> IF t \in lost THEN "gone" ELSE w.threat[t]]
          /\ Forget(w, lost).owned = w.owned
          /\ Forget(w, lost).age = [t \in Tracks |-> IF t \in lost THEN 0 ELSE w.age[t]]
      BY ForgetFields
    <3> QED
      BY <3>1
  <2> HIDE DEF f
  <2>5. /\ e.threat = f.threat /\ e.age = f.age /\ e.owned = own
        /\ DOMAIN e = {"threat", "age", "owned", "order", "guards"}
        /\ e = [x \in DOMAIN e |-> e[x]]
    BY <2>4 DEF Shaped
  <2>6. own \in [Sensors -> SUBSET Tracks]
    BY DEF Shaped
  <2> HIDE DEF e
  <2>7. Shaped(e)
    <3> HIDE DEF own
    <3> QED  BY <2>4, <2>5, <2>6 DEF Shaped
  <2>8. /\ \A s \in Sensors : \A x \in w.owned[s] : x \in Tracks /\ w.threat[x] # "gone"
        /\ \A s1, s2 \in Sensors : s1 # s2 => w.owned[s1] \cap w.owned[s2] = {}
    BY OwnerFacts
  <2>9. \A s \in Sensors : e.owned[s] = IF s \in oldest THEN {} ELSE w.owned[s]
    BY <2>5
  <2>10. \A s \in Sensors : \A x \in e.owned[s] : x \in Tracks /\ x \notin lost
    BY <2>2, <2>3, <2>8, <2>9
  <2>11. \A x \in Tracks : x \notin lost => e.threat[x] = w.threat[x]
    BY <2>4, <2>5
  <2>12. \A s \in Sensors : \A x \in e.owned[s] : x \in Tracks /\ e.threat[x] # "gone"
    BY <2>8, <2>9, <2>10, <2>11
  <2>13. \A s1, s2 \in Sensors : s1 # s2 => e.owned[s1] \cap e.owned[s2] = {}
    BY <2>8, <2>9
  <2> QED
    BY <2>1, <2>7, <2>12, <2>13, OwnerFacts
<1> QED
  BY <1>1, <1>2

\* After a frame its sensor owns exactly what the frame updated.
LEMMA TakeOverOwners ==
  ASSUME NEW w, Shaped(w), NEW s \in Sensors, NEW ids \in SUBSET Tracks
  PROVE  LET d == TakeOver(w, s, ids) IN
         /\ Shaped(d) /\ d.threat = w.threat
         /\ \A x \in Sensors : d.owned[x] = IF x = s THEN ids ELSE w.owned[x] \ ids
<1> DEFINE o1     == Without(w.order, {s})
           others == [w EXCEPT !.order = o1]
           d1     == Disown(others, ids)
           d2     == [d1 EXCEPT !.owned[s] = {}]
           kept   == DropEmptyKeys(d2)
           last   == [kept EXCEPT !.owned[s] = ids, !.order = Append(@, s)]
<1>1. TakeOver(w, s, ids) = IF ids = {} THEN kept ELSE last
  BY DEF TakeOver
<1> HIDE DEF o1
<1>2. Shaped(others) /\ others.threat = w.threat /\ others.owned = w.owned
  BY OrderFields
<1> HIDE DEF others
<1>3. /\ Shaped(d1) /\ d1.threat = w.threat
      /\ d1.owned = [x \in Sensors |-> w.owned[x] \ ids]
  BY <1>2, DisownFields
<1> HIDE DEF d1
<1>4. /\ d2.threat = d1.threat /\ d2.age = d1.age
      /\ d2.owned = [d1.owned EXCEPT ![s] = {}]
      /\ DOMAIN d2 = {"threat", "age", "owned", "order", "guards"}
      /\ d2 = [x \in DOMAIN d2 |-> d2[x]]
  BY <1>3 DEF Shaped
<1> HIDE DEF d2
<1>5. d2.owned \in [Sensors -> SUBSET Tracks]
  BY <1>3, <1>4 DEF Shaped
<1>6. Shaped(d2)
  BY <1>3, <1>4, <1>5 DEF Shaped
<1>7. \A x \in Sensors : d2.owned[x] = IF x = s THEN {} ELSE w.owned[x] \ ids
  BY <1>3, <1>4
<1>8. Shaped(kept) /\ kept.threat = d2.threat /\ kept.owned = d2.owned
  BY <1>6, DropFields
<1> HIDE DEF kept
<1>9. /\ last.threat = kept.threat /\ last.age = kept.age
      /\ last.owned = [kept.owned EXCEPT ![s] = ids]
      /\ DOMAIN last = {"threat", "age", "owned", "order", "guards"}
      /\ last = [x \in DOMAIN last |-> last[x]]
  BY <1>8 DEF Shaped
<1> HIDE DEF last
<1>10. last.owned \in [Sensors -> SUBSET Tracks]
  BY <1>8, <1>9 DEF Shaped
<1>11. Shaped(last)
  BY <1>8, <1>9, <1>10 DEF Shaped
<1>12. \A x \in Sensors : last.owned[x] = IF x = s THEN ids ELSE w.owned[x] \ ids
  BY <1>5, <1>7, <1>8, <1>9
<1>13. ids = {} => \A x \in Sensors : kept.owned[x] = IF x = s THEN ids ELSE w.owned[x] \ ids
  BY <1>7, <1>8
<1> QED
  BY <1>1, <1>3, <1>4, <1>8, <1>9, <1>11, <1>12, <1>13

\* A frame without detections leaves the guards as they are.
LEMMA TakeOverGuards ==
  ASSUME NEW w, Shaped(w), NEW s \in Sensors
  PROVE  TakeOver(w, s, {}).guards = w.guards
<1> DEFINE o1     == Without(w.order, {s})
           others == [w EXCEPT !.order = o1]
           d1     == Disown(others, {})
           d2     == [d1 EXCEPT !.owned[s] = {}]
           o2     == Without(d2.order, {x \in Sensors : d2.owned[x] = {}})
           kept   == [d2 EXCEPT !.order = o2]
<1>1. TakeOver(w, s, {}) = kept
  BY DEF TakeOver, DropEmptyKeys
<1> HIDE DEF o1, o2
<1>2. kept.guards = w.guards
  BY DEF Disown, Shaped
<1> QED
  BY <1>1, <1>2

\* A frame keeps the world consistent: what it lost is forgotten, what it
\* matched changes hands.
LEMMA IngestFrameConsistent ==
  ASSUME NEW w, Consistent(w), NEW s \in Sensors, NEW upd \in FrameUpdates(w)
  PROVE  Consistent(IngestFrame(w, s, upd))
<1> DEFINE ids   == DOMAIN upd
           lost  == w.owned[s] \ ids
           f     == Forget(w, lost)
           heard == [f EXCEPT
                       !.threat = [t \in Tracks |-> IF t \in ids THEN upd[t] ELSE @[t]],
                       !.age    = [t \in Tracks |-> IF t \in ids THEN 0 ELSE @[t]]]
           taken == TakeOver(heard, s, ids)
           kept  == IF ids = {} THEN taken ELSE EvictStaleSensors(taken)
<1>1. IngestFrame(w, s, upd) =
        IF ids = {} /\ w.owned[s] = {} THEN kept ELSE RecalculateGuards(kept)
  BY DEF IngestFrame
<1>2. Shaped(w) /\ OneOwner(w) /\ GuardsOfKnown(w)
  BY DEF Consistent
<1>3. /\ \A x \in Sensors : \A t \in w.owned[x] : t \in Tracks /\ w.threat[t] # "gone"
      /\ \A x, y \in Sensors : x # y => w.owned[x] \cap w.owned[y] = {}
  BY <1>2, OwnerFacts
<1>4. ids \in SUBSET Tracks /\ \A t \in ids : upd[t] \in Threats
  <2>1. Owned(w) \subseteq Tracks
    BY <1>2 DEF OneOwner, Known
  <2>2. PICK S \in SUBSET (Owned(w) \cup (Tracks \ Known(w))) : upd \in [S -> Threats]
    BY DEF FrameUpdates
  <2> QED
    BY <2>1, <2>2
<1> HIDE DEF ids, lost
<1>5. /\ Shaped(f) /\ f.owned = w.owned
      /\ f.threat = [t \in Tracks |-> IF t \in lost THEN "gone" ELSE w.threat[t]]
  <2>1. /\ Shaped(Forget(w, lost))
        /\ Forget(w, lost).threat = [t \in Tracks |-> IF t \in lost THEN "gone" ELSE w.threat[t]]
        /\ Forget(w, lost).owned = w.owned
        /\ Forget(w, lost).age = [t \in Tracks |-> IF t \in lost THEN 0 ELSE w.age[t]]
    BY <1>2, ForgetFields
  <2> QED
    BY <2>1
<1> HIDE DEF f
<1>6. /\ heard.owned = f.owned
      /\ heard.threat = [t \in Tracks |-> IF t \in ids THEN upd[t] ELSE f.threat[t]]
      /\ heard.age = [t \in Tracks |-> IF t \in ids THEN 0 ELSE f.age[t]]
      /\ DOMAIN heard = {"threat", "age", "owned", "order", "guards"}
      /\ heard = [x \in DOMAIN heard |-> heard[x]]
  BY <1>5 DEF Shaped
<1> HIDE DEF heard
<1>7. heard.threat \in [Tracks -> Threats \cup {"gone"}]
  BY <1>4, <1>5, <1>6 DEF Shaped
<1>8. heard.age \in [Tracks -> 0..DeadAge]
  <2>1. 0 \in 0..DeadAge
    BY AgentWorldAssumption
  <2>2. f.age \in [Tracks -> 0..DeadAge]
    BY <1>5 DEF Shaped
  <2> QED
    BY <1>6, <2>1, <2>2
<1>9. Shaped(heard)
  BY <1>5, <1>6, <1>7, <1>8 DEF Shaped
<1>10. /\ Shaped(taken) /\ taken.threat = heard.threat
       /\ \A x \in Sensors : taken.owned[x] = IF x = s THEN ids ELSE w.owned[x] \ ids
  <2>1. ids \in SUBSET Tracks
    BY <1>4
  <2>2. /\ Shaped(TakeOver(heard, s, ids)) /\ TakeOver(heard, s, ids).threat = heard.threat
        /\ \A x \in Sensors : TakeOver(heard, s, ids).owned[x] =
                                IF x = s THEN ids ELSE heard.owned[x] \ ids
    BY <1>9, <2>1, TakeOverOwners
  <2> QED
    BY <1>5, <1>6, <2>2
<1> HIDE DEF taken
<1>11. \A t \in ids : t \in Tracks /\ taken.threat[t] # "gone"
  BY <1>4, <1>6, <1>10 DEF Threats, Severities
<1>12. \A x \in Sensors : x # s => \A t \in taken.owned[x] :
          t \in Tracks /\ taken.threat[t] # "gone"
  <2> SUFFICES ASSUME NEW x \in Sensors, x # s, NEW t \in taken.owned[x]
               PROVE  t \in Tracks /\ taken.threat[t] # "gone"
    OBVIOUS
  <2>1. t \in w.owned[x] /\ t \notin ids
    BY <1>10
  <2>2. t \in Tracks /\ w.threat[t] # "gone" /\ t \notin w.owned[s]
    BY <1>3, <2>1
  <2>3. t \notin lost
    BY <2>2 DEF lost
  <2> QED
    BY <1>5, <1>6, <1>10, <2>1, <2>2, <2>3
<1>13. \A x, y \in Sensors : x # y => taken.owned[x] \cap taken.owned[y] = {}
  BY <1>3, <1>10
<1>14. \A x \in Sensors : \A t \in taken.owned[x] : t \in Tracks /\ taken.threat[t] # "gone"
  BY <1>10, <1>11, <1>12
<1>15. OneOwner(taken)
  BY <1>10, <1>13, <1>14, OwnerFacts
<1>16. Shaped(kept) /\ OneOwner(kept)
  BY <1>10, <1>15, EvictStaleOwners
<1>17. CASE ids = {} /\ w.owned[s] = {}
  <2>1. kept = taken
    BY <1>17
  <2>2. lost = {}
    BY <1>17 DEF lost
  <2>3. \A t \in Tracks : taken.threat[t] = w.threat[t]
    BY <1>5, <1>6, <1>10, <1>17, <2>2
  <2>4. taken.threat = w.threat
    BY <1>2, <1>10, <2>3 DEF Shaped
  <2>5. taken.guards = w.guards
    <3>1. f.guards = w.guards
      BY <1>2 DEF f, Forget, Shaped
    <3>2. heard.guards = f.guards
      BY <1>5 DEF heard, Shaped
    <3>3. taken.guards = heard.guards
      BY <1>9, <1>17, TakeOverGuards DEF taken
    <3> QED
      BY <3>1, <3>2, <3>3
  <2>6. GuardsOfKnown(taken)
    BY <1>2, <2>4, <2>5 DEF GuardsOfKnown
  <2> QED
    BY <1>1, <1>16, <1>17, <2>1, <2>6 DEF Consistent
<1>18. CASE ~(ids = {} /\ w.owned[s] = {})
  <2> HIDE DEF kept
  <2>1. LET r == RecalculateGuards(kept) IN
        Shaped(r) /\ r.threat = kept.threat /\ r.owned = kept.owned /\ GuardsOfKnown(r)
    BY <1>16, RecalculateFields
  <2>2. OneOwner(RecalculateGuards(kept))
    BY <1>16, <2>1, OwnerFacts
  <2> QED
    BY <1>1, <1>18, <2>1, <2>2 DEF Consistent
<1> QED
  BY <1>17, <1>18

\* Time passing keeps the world consistent.
LEMMA GrowConsistent ==
  ASSUME NEW w, Consistent(w)
  PROVE  Consistent(Grow(w))
<1> DEFINE g == Grow(w)
<1>1. Shaped(w) /\ OneOwner(w) /\ GuardsOfKnown(w)
  BY DEF Consistent
<1>2. /\ g.age = [t \in Tracks |->
            IF t \in Known(w) /\ w.age[t] < DeadAge THEN w.age[t] + 1 ELSE w.age[t]]
      /\ g.threat = w.threat /\ g.owned = w.owned /\ g.guards = w.guards
      /\ DOMAIN g = {"threat", "age", "owned", "order", "guards"}
      /\ g = [x \in DOMAIN g |-> g[x]]
  BY <1>1 DEF Grow, Shaped
<1> HIDE DEF g
<1>3. g.age \in [Tracks -> 0..DeadAge]
  <2>1. \A t \in Tracks : w.age[t] \in 0..DeadAge
    BY <1>1 DEF Shaped
  <2>2. \A t \in Tracks : g.age[t] \in 0..DeadAge
    BY <1>2, <2>1, AgentWorldAssumption
  <2> QED
    BY <1>2, <2>2
<1>4. Shaped(g)
  BY <1>1, <1>2, <1>3 DEF Shaped
<1>5. OneOwner(g)
  BY <1>1, <1>2, <1>4, OwnerFacts
<1>6. GuardsOfKnown(g)
  BY <1>1, <1>2 DEF GuardsOfKnown
<1> QED
  BY <1>4, <1>5, <1>6 DEF Consistent, g

-----------------------------------------------------------------------------
(* The tick.                                                               *)

\* What the phases leave in the context: from the provider on there is a BIOS
\* report, and no SAFE_MODE proposal survives from the tick before.
PhaseFacts ==
    /\ phase \in Phases
    /\ phase # "provider" => ctx.bios \in Reports
    /\ phase \in {"sensors", "bios", "fsm", "proposals"} => ctx.proposals \in {"none", "plain"}
    /\ DOMAIN ctx = {"bios", "fsm", "proposals", "guards"}

IInv == PhaseFacts /\ CriticalHoldsError /\ CommandsHaveCause

\* A safe mode request touches nothing of the context but its FSM state.
LEMMA SwitchFields ==
  ASSUME NEW c, NEW w, DOMAIN c = {"bios", "fsm", "proposals", "guards"}
  PROVE  LET d == SwitchToSafeMode(c, w) IN
         /\ d.bios = c.bios /\ d.proposals = c.proposals /\ d.guards = c.guards
         /\ DOMAIN d = {"bios", "fsm", "proposals", "guards"}
<1> DEFINE x == SafeFsm(c, w)
<1>1. SwitchToSafeMode(c, w) = [c EXCEPT !.fsm = x]
  BY DEF SwitchToSafeMode
<1> HIDE DEF x
<1> QED
  BY <1>1

\* A critical guard of the context takes the FSM to ERROR_STATE.
LEMMA CriticalGuardWins ==
  ASSUME NEW c, NEW w, NEW state, Critical(c.guards)
  PROVE  FsmNext(c, w, state) = "ERROR_STATE"
<1>1. c.guards # {}
  BY DEF Critical
<1> QED
  BY <1>1 DEF FsmNext, SelectGuards, ApplyGuardEvent

\* The agent starts in the invariant.
LEMMA InitIInv == Init => IInv
  BY DEF Init, IInv, PhaseFacts, Phases, CriticalHoldsError, CommandsHaveCause

\* Every step of the tick keeps it.
LEMMA NextIInv == IInv /\ [Next]_vars => IInv'
<1> SUFFICES ASSUME IInv, [Next]_vars PROVE IInv'
  OBVIOUS
<1> USE DEF Phases, Reports
<1>0. PhaseFacts /\ CriticalHoldsError /\ CommandsHaveCause
  BY DEF IInv
<1>1. CASE ProviderFails
  <2>1. phase' = "provider" /\ phase = "provider"
    BY <1>1 DEF ProviderFails
  <2>2. DOMAIN ctx' = {"bios", "fsm", "proposals", "guards"}
    <3>1. PICK bios \in Reports \cup {ctx.bios} :
            LET c  == [ctx EXCEPT !.bios = bios]
                c1 == IF storeMode THEN c ELSE SwitchToSafeMode(c, world)
                w1 == IF storeMode THEN world ELSE SafeWorld(c, world)
            IN  ctx' = SwitchToSafeMode(c1, w1)
      BY <1>1 DEF ProviderFails
    <3> DEFINE c  == [ctx EXCEPT !.bios = bios]
               c1 == IF storeMode THEN c ELSE SwitchToSafeMode(c, world)
               w1 == IF storeMode THEN world ELSE SafeWorld(c, world)
    <3>2. DOMAIN c = {"bios", "fsm", "proposals", "guards"}
      BY <1>0 DEF PhaseFacts
    <3> HIDE DEF c
    <3>3. DOMAIN c1 = {"bios", "fsm", "proposals", "guards"}
      BY <3>2, SwitchFields
    <3> HIDE DEF c1, w1
    <3> QED
      BY <3>1, <3>3, SwitchFields DEF c, c1, w1
  <2> QED
    BY <2>1, <2>2 DEF IInv, PhaseFacts, CriticalHoldsError, CommandsHaveCause
<1>2. CASE UpdateFromProvider
  <2>1. PICK bios \in Reports, proposals \in {"none", "plain"} :
          ctx' = [ctx EXCEPT !.bios = bios,
                             !.fsm = IF ~storeMode /\ @ = NoState THEN "BOOTING" ELSE @,
                             !.proposals = proposals]
    BY <1>2 DEF UpdateFromProvider
  <2>2. /\ ctx'.bios \in Reports /\ ctx'.proposals \in {"none", "plain"}
        /\ DOMAIN ctx' = {"bios", "fsm", "proposals", "guards"}
    BY <1>0, <2>1 DEF PhaseFacts
  <2>3. phase' = "sensors"
    BY <1>2 DEF UpdateFromProvider
  <2> QED
    BY <2>2, <2>3 DEF IInv, PhaseFacts, CriticalHoldsError, CommandsHaveCause
<1>3. CASE SensorsFail \/ HandleBiosFails
  <2>1. /\ ctx'.bios = ctx.bios /\ ctx'.proposals = ctx.proposals
        /\ DOMAIN ctx' = {"bios", "fsm", "proposals", "guards"}
    BY <1>0, <1>3, SwitchFields DEF SensorsFail, HandleBiosFails, PhaseFacts
  <2> QED
    BY <1>0, <1>3, <2>1
       DEF SensorsFail, HandleBiosFails, IInv, PhaseFacts, CriticalHoldsError, CommandsHaveCause
<1>4. CASE SensorsEmpty
  BY <1>0, <1>4 DEF SensorsEmpty, IInv, PhaseFacts, CriticalHoldsError, CommandsHaveCause
<1>5. ASSUME NEW w, Ingested(w) PROVE IInv'
  <2>1. /\ ctx'.bios = ctx.bios /\ ctx'.proposals = ctx.proposals
        /\ DOMAIN ctx' = {"bios", "fsm", "proposals", "guards"}
    BY <1>0, <1>5 DEF Ingested, PhaseFacts
  <2> QED
    BY <1>0, <1>5, <2>1
       DEF Ingested, IInv, PhaseFacts, CriticalHoldsError, CommandsHaveCause
<1>6. CASE HandleBios
  <2>1. /\ ctx'.bios \in Reports /\ ctx'.proposals = ctx.proposals
        /\ DOMAIN ctx' = {"bios", "fsm", "proposals", "guards"}
    BY <1>0, <1>6 DEF HandleBios, PhaseFacts
  <2> QED
    BY <1>0, <1>6, <2>1
       DEF HandleBios, IInv, PhaseFacts, CriticalHoldsError, CommandsHaveCause
<1>7. CASE HandleFsm
  <2> DEFINE next == FsmNext(ctx, world, ctx.fsm)
  <2>1. ctx' = [ctx EXCEPT !.fsm = next]
    BY <1>7 DEF HandleFsm
  <2>2. Critical(ctx.guards) => next = "ERROR_STATE"
    BY CriticalGuardWins
  <2> HIDE DEF next
  <2>3. /\ ctx'.bios = ctx.bios /\ ctx'.proposals = ctx.proposals
        /\ ctx'.guards = ctx.guards /\ ctx'.fsm = next
        /\ DOMAIN ctx' = {"bios", "fsm", "proposals", "guards"}
    BY <1>0, <2>1 DEF PhaseFacts
  <2>4. phase = "fsm" /\ phase' = "proposals" /\ ~storeMode /\ storeMode' = storeMode
    BY <1>7 DEF HandleFsm
  <2>5. CriticalHoldsError'
    BY <2>2, <2>3, <2>4 DEF CriticalHoldsError, Fsm
  <2> QED
    BY <1>0, <2>3, <2>4, <2>5 DEF IInv, PhaseFacts, CommandsHaveCause
<1>8. CASE HandleFsmWithStateStore
  <2>1. snap' = FsmNext(ctx, world, snap) /\ ctx' = ctx /\ storeMode /\ storeMode' = storeMode
    BY <1>8 DEF HandleFsmWithStateStore, StoreSet
  <2>2. Critical(ctx.guards) => snap' = "ERROR_STATE"
    BY <2>1, CriticalGuardWins
  <2>3. phase = "fsm" /\ phase' = "proposals"
    BY <1>8 DEF HandleFsmWithStateStore
  <2>4. CriticalHoldsError'
    BY <2>1, <2>2, <2>3 DEF CriticalHoldsError, Fsm
  <2> QED
    BY <1>0, <2>1, <2>3, <2>4 DEF IInv, PhaseFacts, CommandsHaveCause
<1>9. CASE EvaluateProposals
  <2>1. PICK neural \in Neural : ctx' = [ctx EXCEPT !.proposals = BestProposal(ctx, neural)]
    BY <1>9 DEF EvaluateProposals
  <2>2. BestProposal(ctx, neural) = "safe" => ~BiosOk(ctx) \/ Critical(ctx.guards)
    BY DEF BestProposal
  <2>3. phase = "proposals" /\ phase' = "decision"
    BY <1>9 DEF EvaluateProposals
  <2>4. ~BiosOk(ctx) => ctx.bios = "nogo"
    BY <1>0, <2>3 DEF PhaseFacts, BiosOk
  <2> DEFINE best == BestProposal(ctx, neural)
  <2> HIDE DEF best
  <2>5. /\ ctx'.bios = ctx.bios /\ ctx'.guards = ctx.guards /\ ctx'.proposals = best
        /\ DOMAIN ctx' = {"bios", "fsm", "proposals", "guards"}
    BY <1>0, <2>1 DEF PhaseFacts, best
  <2>6. CommandsHaveCause'
    BY <2>2, <2>4, <2>5 DEF CommandsHaveCause, best
  <2> QED
    BY <1>0, <2>3, <2>5, <2>6 DEF IInv, PhaseFacts, CriticalHoldsError
<1>10. CASE EvaluateProposalsFails
  <2>1. /\ ctx'.bios = ctx.bios /\ ctx'.proposals = ctx.proposals /\ ctx'.guards = ctx.guards
        /\ DOMAIN ctx' = {"bios", "fsm", "proposals", "guards"}
    BY <1>0, <1>10, SwitchFields DEF EvaluateProposalsFails, PhaseFacts
  <2> QED
    BY <1>0, <1>10, <2>1
       DEF EvaluateProposalsFails, IInv, PhaseFacts, CriticalHoldsError, CommandsHaveCause
<1>11. CASE NothingToSend \/ SendCommand
  BY <1>0, <1>11 DEF NothingToSend, SendCommand, IInv, PhaseFacts, CriticalHoldsError,
                     CommandsHaveCause
<1>12. CASE SendCommandFails
  <2>1. DOMAIN ctx' = {"bios", "fsm", "proposals", "guards"}
    BY <1>0, <1>12, SwitchFields DEF SendCommandFails, PhaseFacts
  <2> QED
    BY <1>0, <1>12, <2>1
       DEF SendCommandFails, IInv, PhaseFacts, CriticalHoldsError, CommandsHaveCause
<1>13. ASSUME UNCHANGED <<storeMode, phase, ctx, snap>> PROVE IInv'
  BY <1>0, <1>13 DEF IInv, PhaseFacts, CriticalHoldsError, CommandsHaveCause, Fsm
<1>14. CASE Subscribe \/ Unsubscribe \/ Receive \/ Clock \/ UNCHANGED vars
  BY <1>13, <1>14 DEF Subscribe, Unsubscribe, Receive, Clock, storeVars, vars
<1> QED
  BY <1>1, <1>2, <1>3, <1>4, <1>5, <1>6, <1>7, <1>8, <1>9, <1>10, <1>11, <1>12, <1>14
     DEF Next, UpdateContext, RestOfTick, IngestOther, IngestRadarTrack, IngestRadarFrame

\* Whatever the BIOS reports and whichever phases fail, a tick with a critical
\* guard goes on to its proposals in ERROR_STATE.
THEOREM CriticalError == Spec => []CriticalHoldsError
<1>1. IInv => CriticalHoldsError
  BY DEF IInv
<1> QED
  BY <1>1, InitIInv, NextIInv, PTL DEF Spec

\* Whatever the neural engine adds and whichever phases fail, a SAFE_MODE
\* command has its cause in the context of the same tick.
THEOREM CommandCause == Spec => []CommandsHaveCause
<1>1. IInv => CommandsHaveCause
  BY DEF IInv
<1> QED
  BY <1>1, InitIInv, NextIInv, PTL DEF Spec

-----------------------------------------------------------------------------
(* The world model inside the tick.                                        *)

\* Selecting the guards, in the FSM phase or in a safe mode request, leaves a
\* consistent world.
LEMMA SelectConsistent ==
  ASSUME NEW c, NEW w, Consistent(w)
  PROVE  Consistent(WorldAfterSelect(c, w)) /\ Consistent(SafeWorld(c, w))
<1>1. Consistent(WorldAfterSelect(c, w))
  BY EvictDeadConsistent DEF WorldAfterSelect
<1> QED
  BY <1>1 DEF SafeWorld

\* The part of the agent's invariant that is about its world.
WorldInv == Consistent(world)

\* Every step keeps the world consistent.
LEMMA NextConsistent == WorldInv /\ [Next]_vars => WorldInv'
<1> SUFFICES ASSUME Consistent(world), [Next]_vars PROVE Consistent(world')
  BY DEF WorldInv
<1>1. CASE ProviderFails
  <2>1. PICK bios \in Reports \cup {ctx.bios} :
          LET c  == [ctx EXCEPT !.bios = bios]
              c1 == IF storeMode THEN c ELSE SwitchToSafeMode(c, world)
              w1 == IF storeMode THEN world ELSE SafeWorld(c, world)
          IN  world' = SafeWorld(c1, w1)
    BY <1>1 DEF ProviderFails
  <2> DEFINE c  == [ctx EXCEPT !.bios = bios]
             c1 == IF storeMode THEN c ELSE SwitchToSafeMode(c, world)
             w1 == IF storeMode THEN world ELSE SafeWorld(c, world)
  <2>2. world' = SafeWorld(c1, w1)
    BY <2>1
  <2> HIDE DEF c, c1
  <2>3. Consistent(w1)
    BY SelectConsistent
  <2> HIDE DEF w1
  <2> QED
    BY <2>2, <2>3, SelectConsistent
<1>2. CASE SensorsFail \/ HandleBiosFails \/ EvaluateProposalsFails \/ SendCommandFails
  BY <1>2, SelectConsistent DEF SensorsFail, HandleBiosFails, EvaluateProposalsFails,
        SendCommandFails
<1>3. CASE IngestOther
  BY <1>3, EvictDeadConsistent DEF IngestOther, Ingested
<1>4. CASE IngestRadarTrack
  BY <1>4, IngestTrackConsistent DEF IngestRadarTrack, Ingested
<1>5. CASE IngestRadarFrame
  <2>1. PICK s \in Sensors, upd \in FrameUpdates(EvictDead(world)) :
          world' = IngestFrame(EvictDead(world), s, upd)
    BY <1>5 DEF IngestRadarFrame, Ingested
  <2>2. Consistent(EvictDead(world))
    BY EvictDeadConsistent
  <2> QED
    BY <2>1, <2>2, IngestFrameConsistent
<1>6. CASE HandleFsm \/ HandleFsmWithStateStore
  BY <1>6, SelectConsistent DEF HandleFsm, HandleFsmWithStateStore
<1>7. CASE Clock
  BY <1>7, GrowConsistent DEF Clock
<1>8. CASE \/ UpdateFromProvider \/ SensorsEmpty \/ HandleBios \/ EvaluateProposals
           \/ NothingToSend \/ SendCommand \/ Subscribe \/ Unsubscribe \/ Receive
           \/ UNCHANGED vars
  BY <1>8 DEF UpdateFromProvider, SensorsEmpty, HandleBios, EvaluateProposals,
              NothingToSend, SendCommand, Subscribe, Unsubscribe, Receive, vars
<1> QED
  BY <1>1, <1>2, <1>3, <1>4, <1>5, <1>6, <1>7, <1>8 DEF Next, UpdateContext, RestOfTick

\* However frames, track messages, silence and reads follow each other, a
\* contact has one owner and the guards are those of the known contacts.
THEOREM WorldConsistent == Spec => []ContactsConsistent
<1>1. Init => WorldInv
  BY NewWorldConsistent DEF Init, WorldInv
<1>2. WorldInv => ContactsConsistent
  BY DEF WorldInv, Consistent, ContactsConsistent
<1> QED
  BY <1>1, <1>2, NextConsistent, PTL DEF Spec

-----------------------------------------------------------------------------
(* The slots of the frame sensors.                                         *)

\* One slot per sensor, and one for every sensor that owns a contact.
Slots(w) ==
    /\ w.order \in Seq(Sensors)
    /\ Distinct(w.order)
    /\ \A s \in Sensors : w.owned[s] # {} => Listed(s, w.order)

\* With no more than MaxFrameSensors of them.
Fitting(w) == Shaped(w) /\ Slots(w) /\ Len(w.order) <= MaxFrameSensors

\* What concerns contacts and guards alone leaves the slots as they are.
LEMMA SameOrder ==
  ASSUME NEW w, Shaped(w), NEW ids
  PROVE  /\ Forget(w, ids).order = w.order /\ Disown(w, ids).order = w.order
         /\ RecalculateGuards(w).order = w.order /\ RecalculateGuards(w).owned = w.owned
         /\ Grow(w).order = w.order /\ Grow(w).owned = w.owned
<1>1. Forget(w, ids).order = w.order /\ Disown(w, ids).order = w.order
  BY DEF Shaped, Forget, Disown
<1>2. RecalculateGuards(w).order = w.order /\ RecalculateGuards(w).owned = w.owned
  BY DEF Shaped, RecalculateGuards
<1>3. Grow(w).order = w.order /\ Grow(w).owned = w.owned
  BY DEF Shaped, Grow
<1> QED
  BY <1>1, <1>2, <1>3

\* Slots with no fewer entries serve owners with no more contacts.
LEMMA FewerOwned ==
  ASSUME NEW w, NEW u, Slots(w), u.order = w.order,
         \A s \in Sensors : u.owned[s] \subseteq w.owned[s]
  PROVE  Slots(u)
  BY DEF Slots

\* Only empty slots are dropped.
LEMMA DropSlots ==
  ASSUME NEW w, Shaped(w), Slots(w)
  PROVE  LET d == DropEmptyKeys(w) IN
         /\ Slots(d) /\ Len(d.order) \in Nat /\ Len(d.order) <= Len(w.order)
         /\ \A x : Listed(x, d.order) => Listed(x, w.order)
<1> DEFINE empty == {s \in Sensors : w.owned[s] = {}}
           o == Without(w.order, empty)
           d == [w EXCEPT !.order = o]
<1>1. DropEmptyKeys(w) = d
  BY DEF DropEmptyKeys
<1>2. w.order \in Seq(Sensors) /\ Distinct(w.order)
  BY DEF Slots
<1>3. o \in Seq(Sensors) /\ Len(o) \in Nat /\ Len(o) <= Len(w.order) /\ Distinct(o)
  BY <1>2, WithoutType, WithoutDistinct
<1>4. \A x : Listed(x, o) <=> Listed(x, w.order) /\ x \notin empty
  BY <1>2, WithoutListed
<1> HIDE DEF o
<1>5. d.order = o /\ d.owned = w.owned
  BY DEF Shaped
<1> HIDE DEF d
<1>6. \A s \in Sensors : d.owned[s] # {} => Listed(s, o)
  BY <1>4, <1>5 DEF Slots
<1> QED
  BY <1>1, <1>3, <1>4, <1>5, <1>6 DEF Slots

\* Reading or ingesting evicts the dead: slots only become fewer.
LEMMA EvictDeadFits ==
  ASSUME NEW w, Fitting(w)
  PROVE  Fitting(EvictDead(w))
<1>1. CASE Dead(w) = {}
  BY <1>1 DEF EvictDead
<1>2. CASE Dead(w) # {}
  <2> DEFINE f == Forget(w, Dead(w))
             d == Disown(f, Dead(w))
             k == DropEmptyKeys(d)
             r == RecalculateGuards(k)
  <2>1. EvictDead(w) = r
    BY <1>2 DEF EvictDead
  <2>2. Shaped(w) /\ Slots(w) /\ Len(w.order) <= MaxFrameSensors /\ Len(w.order) \in Nat
    BY DEF Fitting, Slots
  <2>3. Shaped(f) /\ f.owned = w.owned /\ f.order = w.order
    <3>1. /\ Shaped(Forget(w, Dead(w)))
          /\ Forget(w, Dead(w)).owned = w.owned
      BY <2>2, ForgetFields
    <3> QED
      BY <2>2, <3>1, SameOrder
  <2> HIDE DEF f
  <2>4. /\ Shaped(d) /\ d.owned = [s \in Sensors |-> f.owned[s] \ Dead(w)] /\ d.order = f.order
    BY <2>3, DisownFields, SameOrder
  <2> HIDE DEF d
  <2>5. Slots(d)
    BY <2>2, <2>3, <2>4, FewerOwned
  <2>6. Shaped(k) /\ Slots(k) /\ Len(k.order) \in Nat /\ Len(k.order) <= Len(d.order)
    BY <2>4, <2>5, DropFields, DropSlots
  <2> HIDE DEF k
  <2>7. Shaped(r) /\ r.order = k.order /\ r.owned = k.owned
    BY <2>6, RecalculateFields, SameOrder
  <2> HIDE DEF r
  <2>8. Slots(r)
    BY <2>6, <2>7, FewerOwned
  <2>9. Len(r.order) <= MaxFrameSensors
    BY <2>2, <2>3, <2>4, <2>6, <2>7, AgentWorldAssumption
  <2> QED
    BY <2>1, <2>7, <2>8, <2>9 DEF Fitting
<1> QED
  BY <1>1, <1>2

\* A track message gives no sensor anything.
LEMMA IngestTrackFits ==
  ASSUME NEW w0, Consistent(w0), Fitting(w0), NEW t \in Tracks, NEW threat \in Threats \cup {"gone"}
  PROVE  Fitting(IngestTrack(w0, t, threat))
<1> DEFINE w == EvictDead(w0)
           v == [w EXCEPT !.threat = [@ EXCEPT ![t] = threat], !.age = [@ EXCEPT ![t] = 0]]
           u == IF threat = "gone" THEN Disown(Forget(w, {t}), {t}) ELSE v
           r == RecalculateGuards(u)
<1>1. Fitting(w)
  BY EvictDeadFits
<1>2. IngestTrack(w0, t, threat) = r
  BY DEF IngestTrack
<1>3. Shaped(r)
  <2>1. Consistent(IngestTrack(w0, t, threat))
    BY IngestTrackConsistent
  <2> QED
    BY <1>2, <2>1 DEF Consistent
<1> HIDE DEF w
<1>4. Shaped(w) /\ Slots(w)
  BY <1>1 DEF Fitting
<1>5. u.order = w.order /\ \A s \in Sensors : u.owned[s] \subseteq w.owned[s]
  <2>1. CASE threat = "gone"
    <3> DEFINE f == Forget(w, {t})
    <3>1. Shaped(f) /\ f.owned = w.owned /\ f.order = w.order
      BY <1>4, ForgetFields, SameOrder
    <3> HIDE DEF f
    <3>2. /\ Disown(f, {t}).owned = [s \in Sensors |-> f.owned[s] \ {t}]
          /\ Disown(f, {t}).order = f.order
      BY <3>1, DisownFields, SameOrder
    <3>3. u = Disown(f, {t})
      BY <2>1 DEF f
    <3> HIDE DEF u
    <3> QED
      BY <3>1, <3>2, <3>3
  <2>2. CASE threat # "gone"
    BY <1>4, <2>2 DEF Shaped
  <2> QED
    BY <2>1, <2>2
<1>6. r.order = u.order /\ r.owned = u.owned
  <2>1. Shaped(u)
    <3>1. CASE threat = "gone"
      <4> DEFINE f == Forget(w, {t})
      <4>1. Shaped(f)
        BY <1>4, ForgetFields
      <4> HIDE DEF f
      <4>2. Shaped(Disown(f, {t}))
        BY <4>1, DisownFields
      <4> QED
        BY <3>1, <4>2 DEF f
    <3>2. CASE threat # "gone"
      <4>1. /\ v.threat = [w.threat EXCEPT ![t] = threat]
            /\ v.age = [w.age EXCEPT ![t] = 0] /\ v.owned = w.owned
            /\ DOMAIN v = {"threat", "age", "owned", "order", "guards"}
            /\ v = [x \in DOMAIN v |-> v[x]]
        BY <1>4 DEF Shaped
      <4> HIDE DEF v
      <4>2. v.age \in [Tracks -> 0..DeadAge]
        BY <1>4, <4>1, AgentWorldAssumption DEF Shaped
      <4>3. Shaped(v)
        BY <1>4, <4>1, <4>2 DEF Shaped
      <4> QED
        BY <3>2, <4>3
    <3> QED
      BY <3>1, <3>2
  <2> HIDE DEF u
  <2> QED
    BY <2>1, SameOrder
<1> HIDE DEF u, r
<1>7. Slots(r)
  BY <1>4, <1>5, <1>6, FewerOwned
<1> QED
  BY <1>1, <1>2, <1>3, <1>5, <1>6, <1>7 DEF Fitting

\* The frame's sensor gets the last slot if it owns something now.
LEMMA TakeOverSlots ==
  ASSUME NEW w, Shaped(w), Slots(w), NEW s \in Sensors, NEW ids \in SUBSET Tracks
  PROVE  LET d == TakeOver(w, s, ids) IN
         /\ Slots(d) /\ Len(d.order) \in Nat
         /\ Len(d.order) <= Len(w.order) + 1
         /\ ids = {} => Len(d.order) <= Len(w.order)
<1> DEFINE o1     == Without(w.order, {s})
           others == [w EXCEPT !.order = o1]
           d1     == Disown(others, ids)
           d2     == [d1 EXCEPT !.owned[s] = {}]
           kept   == DropEmptyKeys(d2)
           last   == [kept EXCEPT !.owned[s] = ids, !.order = Append(@, s)]
<1>1. TakeOver(w, s, ids) = IF ids = {} THEN kept ELSE last
  BY DEF TakeOver
<1>2. w.order \in Seq(Sensors) /\ Distinct(w.order) /\ Len(w.order) \in Nat
  BY DEF Slots
<1>3. o1 \in Seq(Sensors) /\ Len(o1) \in Nat /\ Len(o1) <= Len(w.order) /\ Distinct(o1)
  BY <1>2, WithoutType, WithoutDistinct
<1>4. \A x : Listed(x, o1) <=> Listed(x, w.order) /\ x \notin {s}
  BY <1>2, WithoutListed
<1> HIDE DEF o1
<1>5. Shaped(others) /\ others.owned = w.owned /\ others.order = o1
  <2>1. others.order = o1
    BY DEF Shaped
  <2> QED
    BY <2>1, OrderFields
<1> HIDE DEF others
<1>6. Shaped(d1) /\ d1.owned = [x \in Sensors |-> w.owned[x] \ ids] /\ d1.order = o1
  BY <1>5, DisownFields, SameOrder
<1> HIDE DEF d1
<1>7. /\ d2.threat = d1.threat /\ d2.age = d1.age /\ d2.order = o1
      /\ d2.owned = [d1.owned EXCEPT ![s] = {}]
      /\ DOMAIN d2 = {"threat", "age", "owned", "order", "guards"}
      /\ d2 = [x \in DOMAIN d2 |-> d2[x]]
  BY <1>6 DEF Shaped
<1> HIDE DEF d2
<1>8. d2.owned \in [Sensors -> SUBSET Tracks]
  BY <1>6, <1>7 DEF Shaped
<1>9. Shaped(d2)
  BY <1>6, <1>7, <1>8 DEF Shaped
<1>10. \A x \in Sensors : d2.owned[x] = IF x = s THEN {} ELSE w.owned[x] \ ids
  BY <1>6, <1>7
<1>11. Slots(d2)
  <2>1. \A x \in Sensors : d2.owned[x] # {} => Listed(x, o1)
    BY <1>4, <1>10 DEF Slots
  <2> QED
    BY <1>3, <1>7, <2>1 DEF Slots
<1>12. /\ Shaped(kept) /\ Slots(kept) /\ Len(kept.order) \in Nat
       /\ Len(kept.order) <= Len(o1) /\ ~Listed(s, kept.order)
  BY <1>4, <1>7, <1>9, <1>11, DropFields, DropSlots
<1> HIDE DEF kept
<1>13. last.order = Append(kept.order, s) /\ last.owned = [kept.owned EXCEPT ![s] = ids]
  BY <1>12 DEF Shaped
<1> HIDE DEF last
<1>14. kept.order \in Seq(Sensors) /\ Distinct(kept.order)
  BY <1>12 DEF Slots
<1>15. /\ last.order \in Seq(Sensors) /\ Len(last.order) = Len(kept.order) + 1
       /\ Distinct(last.order)
       /\ \A x : Listed(x, last.order) <=> Listed(x, kept.order) \/ x = s
  BY <1>12, <1>13, <1>14, AppendKey
<1>16. Slots(last)
  <2>1. \A x \in Sensors : x # s => last.owned[x] = kept.owned[x]
    BY <1>12, <1>13 DEF Shaped
  <2>2. \A x \in Sensors : last.owned[x] # {} => Listed(x, last.order)
    BY <1>12, <1>15, <2>1 DEF Slots
  <2> QED
    BY <1>15, <2>2 DEF Slots
<1>17. Len(kept.order) <= Len(w.order) /\ Len(last.order) \in Nat
       /\ Len(last.order) <= Len(w.order) + 1 /\ Len(kept.order) <= Len(w.order) + 1
  BY <1>2, <1>3, <1>12, <1>15
<1> QED
  BY <1>1, <1>12, <1>16, <1>17

\* The sensor that goes takes its contacts along.
LEMMA EvictStaleSlots ==
  ASSUME NEW w, Shaped(w), Slots(w), Len(w.order) <= MaxFrameSensors + 1
  PROVE  Slots(EvictStaleSensors(w)) /\ Len(EvictStaleSensors(w).order) <= MaxFrameSensors
<1>0. w.order \in Seq(Sensors) /\ Len(w.order) \in Nat /\ Distinct(w.order)
  BY DEF Slots
<1>1. CASE Len(w.order) <= MaxFrameSensors
  BY <1>1 DEF EvictStaleSensors
<1>2. CASE ~(Len(w.order) <= MaxFrameSensors)
  <2> DEFINE oldest == {s \in Sensors : s = Head(w.order)}
             lost   == UNION {w.owned[s] : s \in oldest}
             own    == [s \in Sensors |-> IF s \in oldest THEN {} ELSE w.owned[s]]
             f      == Forget(w, lost)
             e      == [f EXCEPT !.owned = [s \in Sensors |-> IF s \in oldest THEN {} ELSE @[s]],
                                 !.order = Tail(@)]
  <2>1. EvictStaleSensors(w) = e
    BY <1>2 DEF EvictStaleSensors
  <2>2. \A s \in Sensors : s = Head(w.order) => s \in oldest
    OBVIOUS
  <2> HIDE DEF oldest, lost
  <2>3. Shaped(f) /\ f.owned = w.owned /\ f.order = w.order
    BY ForgetFields, SameOrder
  <2> HIDE DEF f
  <2>4. e.owned = own /\ e.order = Tail(w.order)
    BY <2>3 DEF Shaped
  <2> HIDE DEF e
  <2>5. w.order # <<>>
    BY <1>0, <1>2, AgentWorldAssumption
  <2>6. /\ Tail(w.order) \in Seq(Sensors) /\ Len(Tail(w.order)) = Len(w.order) - 1
        /\ Distinct(Tail(w.order))
        /\ \A x : Listed(x, w.order) => x = Head(w.order) \/ Listed(x, Tail(w.order))
    BY <1>0, <2>5, TailKey
  <2>7. \A s \in Sensors : e.owned[s] # {} => Listed(s, Tail(w.order))
    BY <2>2, <2>4, <2>6 DEF Slots
  <2>8. Len(Tail(w.order)) <= MaxFrameSensors
    BY <1>0, <2>6, AgentWorldAssumption
  <2> QED
    BY <2>1, <2>4, <2>6, <2>7, <2>8 DEF Slots
<1> QED
  BY <1>1, <1>2

\* A frame leaves the slots within their bound, whatever it matched.
LEMMA IngestFrameFits ==
  ASSUME NEW w, Consistent(w), Fitting(w), NEW s \in Sensors, NEW upd \in FrameUpdates(w)
  PROVE  Fitting(IngestFrame(w, s, upd))
<1> DEFINE ids   == DOMAIN upd
           lost  == w.owned[s] \ ids
           f     == Forget(w, lost)
           heard == [f EXCEPT
                       !.threat = [t \in Tracks |-> IF t \in ids THEN upd[t] ELSE @[t]],
                       !.age    = [t \in Tracks |-> IF t \in ids THEN 0 ELSE @[t]]]
           taken == TakeOver(heard, s, ids)
           kept  == IF ids = {} THEN taken ELSE EvictStaleSensors(taken)
           r     == IF ids = {} /\ w.owned[s] = {} THEN kept ELSE RecalculateGuards(kept)
<1>1. IngestFrame(w, s, upd) = r
  BY DEF IngestFrame
<1>2. Shaped(r)
  <2>1. Consistent(IngestFrame(w, s, upd))
    BY IngestFrameConsistent
  <2> QED
    BY <1>1, <2>1 DEF Consistent
<1>3. Shaped(w) /\ OneOwner(w) /\ Slots(w) /\ Len(w.order) <= MaxFrameSensors /\ Len(w.order) \in Nat
  BY DEF Consistent, Fitting, Slots
<1>4. ids \in SUBSET Tracks /\ \A t \in ids : upd[t] \in Threats
  <2>1. Owned(w) \subseteq Tracks
    BY <1>3 DEF OneOwner, Known
  <2>2. PICK S \in SUBSET (Owned(w) \cup (Tracks \ Known(w))) : upd \in [S -> Threats]
    BY DEF FrameUpdates
  <2> QED
    BY <2>1, <2>2
<1> HIDE DEF ids, lost
<1>5. Shaped(f) /\ f.owned = w.owned /\ f.order = w.order
  BY <1>3, ForgetFields, SameOrder
<1> HIDE DEF f
<1>6. /\ heard.threat = [t \in Tracks |-> IF t \in ids THEN upd[t] ELSE f.threat[t]]
      /\ heard.age = [t \in Tracks |-> IF t \in ids THEN 0 ELSE f.age[t]]
      /\ heard.owned = w.owned /\ heard.order = w.order
      /\ DOMAIN heard = {"threat", "age", "owned", "order", "guards"}
      /\ heard = [x \in DOMAIN heard |-> heard[x]]
  BY <1>5 DEF Shaped
<1> HIDE DEF heard
<1>7. Shaped(heard)
  <2>1. heard.threat \in [Tracks -> Threats \cup {"gone"}]
    BY <1>4, <1>5, <1>6 DEF Shaped
  <2>2. heard.age \in [Tracks -> 0..DeadAge]
    BY <1>5, <1>6, AgentWorldAssumption DEF Shaped
  <2> QED
    BY <1>5, <1>6, <2>1, <2>2 DEF Shaped
<1>8. Slots(heard)
  BY <1>3, <1>6, FewerOwned
<1>9. /\ Shaped(taken) /\ Slots(taken) /\ Len(taken.order) \in Nat
      /\ Len(taken.order) <= Len(w.order) + 1
      /\ ids = {} => Len(taken.order) <= Len(w.order)
  BY <1>4, <1>6, <1>7, <1>8, TakeOverOwners, TakeOverSlots
<1> HIDE DEF taken
<1>10. Len(taken.order) <= MaxFrameSensors + 1 /\ (ids = {} => Len(taken.order) <= MaxFrameSensors)
  BY <1>3, <1>9, AgentWorldAssumption
<1>11. Slots(kept) /\ Len(kept.order) <= MaxFrameSensors
  BY <1>9, <1>10, EvictStaleSlots
<1>12. CASE ids = {} /\ w.owned[s] = {}
  BY <1>1, <1>2, <1>11, <1>12 DEF Fitting
<1>13. CASE ~(ids = {} /\ w.owned[s] = {})
  <2>1. r = RecalculateGuards(kept)
    BY <1>13
  <2>2. Shaped(kept)
    <3>1. CASE ids = {}
      BY <1>9, <3>1
    <3>2. CASE ids # {}
      <4> DEFINE oldest == {x \in Sensors : x = Head(taken.order)}
                 gone   == UNION {taken.owned[x] : x \in oldest}
                 g      == Forget(taken, gone)
                 e      == [g EXCEPT !.owned = [x \in Sensors |-> IF x \in oldest THEN {} ELSE @[x]],
                                     !.order = Tail(@)]
      <4>1. EvictStaleSensors(taken) = IF Len(taken.order) <= MaxFrameSensors THEN taken ELSE e
        BY DEF EvictStaleSensors
      <4> HIDE DEF oldest, gone
      <4>2. Shaped(g)
        BY <1>9, ForgetFields
      <4> HIDE DEF g
      <4>3. Shaped(e)
        BY <4>2 DEF Shaped
      <4> HIDE DEF e
      <4> QED
        BY <1>9, <3>2, <4>1, <4>3
    <3> QED
      BY <3>1, <3>2
  <2> HIDE DEF kept
  <2>3. r.order = kept.order /\ r.owned = kept.owned
    BY <2>1, <2>2, SameOrder
  <2> HIDE DEF r
  <2>4. Slots(r)
    BY <1>11, <2>3, FewerOwned
  <2> QED
    BY <1>1, <1>2, <1>11, <2>3, <2>4 DEF Fitting
<1> QED
  BY <1>12, <1>13

\* Time passing leaves the slots alone.
LEMMA GrowFits ==
  ASSUME NEW w, Consistent(w), Fitting(w)
  PROVE  Fitting(Grow(w))
<1> DEFINE g == Grow(w)
<1>1. Shaped(g)
  BY GrowConsistent DEF Consistent
<1>2. g.order = w.order /\ g.owned = w.owned
  BY SameOrder DEF Consistent
<1> HIDE DEF g
<1>3. Slots(g)
  BY <1>2, FewerOwned DEF Fitting
<1> QED
  BY <1>1, <1>2, <1>3 DEF Fitting, g

\* So does selecting the guards, but for what is dead.
LEMMA SelectFits ==
  ASSUME NEW c, NEW w, Fitting(w)
  PROVE  Fitting(WorldAfterSelect(c, w)) /\ Fitting(SafeWorld(c, w))
<1>1. Fitting(WorldAfterSelect(c, w))
  BY EvictDeadFits DEF WorldAfterSelect
<1> QED
  BY <1>1 DEF SafeWorld

\* Every step keeps the slots within their bound.
LEMMA NextFits == WorldInv /\ Fitting(world) /\ [Next]_vars => Fitting(world)'
<1> SUFFICES ASSUME Consistent(world), Fitting(world), [Next]_vars PROVE Fitting(world')
  BY DEF WorldInv
<1>1. CASE ProviderFails
  <2>1. PICK bios \in Reports \cup {ctx.bios} :
          LET c  == [ctx EXCEPT !.bios = bios]
              c1 == IF storeMode THEN c ELSE SwitchToSafeMode(c, world)
              w1 == IF storeMode THEN world ELSE SafeWorld(c, world)
          IN  world' = SafeWorld(c1, w1)
    BY <1>1 DEF ProviderFails
  <2> DEFINE c  == [ctx EXCEPT !.bios = bios]
             c1 == IF storeMode THEN c ELSE SwitchToSafeMode(c, world)
             w1 == IF storeMode THEN world ELSE SafeWorld(c, world)
  <2>2. world' = SafeWorld(c1, w1)
    BY <2>1
  <2> HIDE DEF c, c1
  <2>3. Fitting(w1)
    BY SelectFits
  <2> HIDE DEF w1
  <2> QED
    BY <2>2, <2>3, SelectFits
<1>2. CASE SensorsFail \/ HandleBiosFails \/ EvaluateProposalsFails \/ SendCommandFails
  BY <1>2, SelectFits DEF SensorsFail, HandleBiosFails, EvaluateProposalsFails,
        SendCommandFails
<1>3. CASE IngestOther
  BY <1>3, EvictDeadFits DEF IngestOther, Ingested
<1>4. CASE IngestRadarTrack
  BY <1>4, IngestTrackFits DEF IngestRadarTrack, Ingested
<1>5. CASE IngestRadarFrame
  <2>1. PICK s \in Sensors, upd \in FrameUpdates(EvictDead(world)) :
          world' = IngestFrame(EvictDead(world), s, upd)
    BY <1>5 DEF IngestRadarFrame, Ingested
  <2>2. Consistent(EvictDead(world)) /\ Fitting(EvictDead(world))
    BY EvictDeadConsistent, EvictDeadFits
  <2> QED
    BY <2>1, <2>2, IngestFrameFits
<1>6. CASE HandleFsm \/ HandleFsmWithStateStore
  BY <1>6, SelectFits DEF HandleFsm, HandleFsmWithStateStore
<1>7. CASE Clock
  BY <1>7, GrowFits DEF Clock
<1>8. CASE \/ UpdateFromProvider \/ SensorsEmpty \/ HandleBios \/ EvaluateProposals
           \/ NothingToSend \/ SendCommand \/ Subscribe \/ Unsubscribe \/ Receive
           \/ UNCHANGED vars
  BY <1>8 DEF UpdateFromProvider, SensorsEmpty, HandleBios, EvaluateProposals,
              NothingToSend, SendCommand, Subscribe, Unsubscribe, Receive, vars
<1> QED
  BY <1>1, <1>2, <1>3, <1>4, <1>5, <1>6, <1>7, <1>8 DEF Next, UpdateContext, RestOfTick

\* The new world has no slot and no owner.
LEMMA NewWorldFits == Fitting(NewWorld)
<1>1. Shaped(NewWorld)
  BY NewWorldConsistent DEF Consistent
<1>2. NewWorld.order = <<>> /\ NewWorld.owned = [s \in Sensors |-> {}]
  BY DEF NewWorld
<1>3. Len(NewWorld.order) = 0 /\ 0 <= MaxFrameSensors
  BY <1>2, AgentWorldAssumption
<1>4. Slots(NewWorld)
  BY <1>2 DEF Slots, Distinct
<1> QED
  BY <1>1, <1>3, <1>4 DEF Fitting

\* _evict_stale_frame_sensors keeps its bound for any number of radars: no more
\* than MaxFrameSensors slots, one per sensor, and one for every owner.
THEOREM SlotsStayBounded == Spec => []FrameSlotsBounded
<1>1. Init => WorldInv /\ Fitting(world)
  BY NewWorldConsistent, NewWorldFits DEF Init, WorldInv
<1>2. Fitting(world) => FrameSlotsBounded
  BY DEF Fitting, Slots, FrameSlotsBounded, SlotsBounded
<1> QED
  BY <1>1, <1>2, NextConsistent, NextFits, PTL DEF Spec

-----------------------------------------------------------------------------
(* Types.                                                                  *)

\* A world is one of Worlds when its guards are those of its contacts.
LEMMA WorldType ==
  ASSUME NEW w, Consistent(w), Slots(w)
  PROVE  w \in Worlds
<1>1. w.guards \in SUBSET (Tracks \X Severities)
  BY DEF Consistent, GuardsOfKnown, EvaluateTracks
<1>2. /\ w.threat \in [Tracks -> Threats \cup {"gone"}]
      /\ w.age \in [Tracks -> 0..DeadAge]
      /\ w.owned \in [Sensors -> SUBSET Tracks]
      /\ w.order \in Seq(Sensors)
  BY DEF Consistent, Shaped, Slots
<1>3. w = [threat |-> w.threat, age |-> w.age, owned |-> w.owned,
           order |-> w.order, guards |-> w.guards]
  <2>1. DOMAIN w = {"threat", "age", "owned", "order", "guards"} /\ w = [x \in DOMAIN w |-> w[x]]
    BY DEF Consistent, Shaped
  <2> QED
    BY <2>1
<1> DEFINE th == w.threat
           ag == w.age
           ow == w.owned
           od == w.order
           gu == w.guards
<1>4. [threat |-> th, age |-> ag, owned |-> ow, order |-> od, guards |-> gu] \in Worlds
  <2> HIDE DEF th, ag, ow, od, gu
  <2> QED
    BY <1>1, <1>2 DEF Worlds, th, ag, ow, od, gu
<1> QED
  BY <1>3, <1>4

\* The rest of the type invariant; with a store the FSM always has a state.
TickTypes ==
    /\ storeMode \in BOOLEAN
    /\ phase \in Phases
    /\ ctx \in Contexts
    /\ quiet \in BOOLEAN
    /\ snap \in FsmStates \cup {NoState}
    /\ storeMode => snap \in FsmStates
    /\ subscribed \in BOOLEAN
    /\ queue \in Seq(FsmStates) /\ Len(queue) <= QueueMax
    /\ seen \in FsmStates \cup {NoState}

\* The FSM handler answers with a state, or with the lack of one it was given.
LEMMA FsmNextType ==
  ASSUME NEW c, NEW w, NEW state \in FsmStates \cup {NoState}
  PROVE  /\ FsmNext(c, w, state) \in FsmStates \cup {NoState}
         /\ state \in FsmStates => FsmNext(c, w, state) \in FsmStates
<1> DEFINE g == SelectGuards(c, w)
<1>1. /\ ApplyStandardRules(c, state) \in FsmStates \cup {NoState}
      /\ state \in FsmStates => ApplyStandardRules(c, state) \in FsmStates
  BY DEF ApplyStandardRules, FsmStates, NoState
<1>2. /\ ApplyGuardEvent(g, state) \in FsmStates \cup {NoState}
      /\ state \in FsmStates => ApplyGuardEvent(g, state) \in FsmStates
  <2> HIDE DEF g
  <2> QED
    BY DEF ApplyGuardEvent, FsmStates, NoState
<1>3. FsmNext(c, w, state) = IF g # {} THEN ApplyGuardEvent(g, state) ELSE ApplyStandardRules(c, state)
  BY DEF FsmNext
<1> HIDE DEF g
<1> QED
  BY <1>1, <1>2, <1>3

\* A safe mode request leaves a context.
LEMMA SwitchType ==
  ASSUME NEW c \in Contexts, NEW w
  PROVE  SwitchToSafeMode(c, w) \in Contexts
<1> DEFINE x == SafeFsm(c, w)
<1>1. x \in FsmStates \cup {NoState}
  BY FsmNextType DEF SafeFsm, Contexts
<1>2. SwitchToSafeMode(c, w) = [c EXCEPT !.fsm = x]
  BY DEF SwitchToSafeMode
<1> HIDE DEF x
<1> QED
  BY <1>1, <1>2 DEF Contexts

\* The guards of a consistent world fit into a context.
LEMMA GuardsType ==
  ASSUME NEW c \in Contexts, NEW w, Consistent(w)
  PROVE  [c EXCEPT !.guards = w.guards] \in Contexts
<1>1. w.guards \in SUBSET (Tracks \X Severities)
  BY DEF Consistent, GuardsOfKnown, EvaluateTracks
<1> DEFINE g == w.guards
<1> HIDE DEF g
<1>2. [c EXCEPT !.guards = g] \in Contexts
  BY <1>1 DEF Contexts, g
<1> QED
  BY <1>2 DEF g

\* Every step keeps the types of the tick, the store and the subscriber.
LEMMA NextTickTypes == WorldInv /\ TickTypes /\ [Next]_vars => TickTypes'
<1> SUFFICES ASSUME Consistent(world), TickTypes, [Next]_vars PROVE TickTypes'
  BY DEF WorldInv
<1> USE DEF Phases
<1>0. ctx \in Contexts
  BY DEF TickTypes
<1>1. ASSUME ctx' \in Contexts, phase' \in Phases, quiet' \in BOOLEAN,
             UNCHANGED <<storeMode, storeVars>>
      PROVE  TickTypes'
  BY <1>1 DEF TickTypes, storeVars
<1>2. CASE ProviderFails
  <2>1. PICK bios \in Reports \cup {ctx.bios} :
          LET c  == [ctx EXCEPT !.bios = bios]
              c1 == IF storeMode THEN c ELSE SwitchToSafeMode(c, world)
              w1 == IF storeMode THEN world ELSE SafeWorld(c, world)
          IN  ctx' = SwitchToSafeMode(c1, w1)
    BY <1>2 DEF ProviderFails
  <2> DEFINE c  == [ctx EXCEPT !.bios = bios]
             c1 == IF storeMode THEN c ELSE SwitchToSafeMode(c, world)
             w1 == IF storeMode THEN world ELSE SafeWorld(c, world)
  <2>2. c \in Contexts
    BY <1>0 DEF Contexts
  <2>3. ctx' = SwitchToSafeMode(c1, w1)
    BY <2>1
  <2> HIDE DEF c
  <2>4. c1 \in Contexts
    BY <2>2, SwitchType
  <2> HIDE DEF c1, w1
  <2>5. ctx' \in Contexts
    BY <2>3, <2>4, SwitchType
  <2> QED
    BY <1>1, <1>2, <2>5 DEF ProviderFails, TickTypes
<1>3. CASE UpdateFromProvider
  <2>1. PICK bios \in Reports, proposals \in {"none", "plain"} :
          ctx' = [ctx EXCEPT !.bios = bios,
                             !.fsm = IF ~storeMode /\ @ = NoState THEN "BOOTING" ELSE @,
                             !.proposals = proposals]
    BY <1>3 DEF UpdateFromProvider
  <2>2. ctx' \in Contexts
    BY <1>0, <2>1 DEF Contexts, FsmStates
  <2> QED
    BY <1>1, <1>3, <2>2 DEF UpdateFromProvider, TickTypes
<1>4. CASE SensorsFail \/ HandleBiosFails \/ EvaluateProposalsFails \/ SendCommandFails
  <2>1. ctx' \in Contexts
    BY <1>0, <1>4, SwitchType DEF SensorsFail, HandleBiosFails, EvaluateProposalsFails,
        SendCommandFails
  <2> QED
    BY <1>1, <1>4, <2>1 DEF SensorsFail, HandleBiosFails, EvaluateProposalsFails,
        SendCommandFails, TickTypes
<1>5. CASE SensorsEmpty \/ NothingToSend \/ SendCommand
  BY <1>0, <1>1, <1>5 DEF SensorsEmpty, NothingToSend, SendCommand, TickTypes
<1>6. ASSUME NEW w, Consistent(w), Ingested(w), quiet' \in BOOLEAN PROVE TickTypes'
  <2>1. ctx' \in Contexts
    BY <1>0, <1>6, GuardsType DEF Ingested
  <2> QED
    BY <1>1, <1>6, <2>1 DEF Ingested
<1>7. CASE IngestOther
  BY <1>6, <1>7, EvictDeadConsistent DEF IngestOther
<1>8. CASE IngestRadarTrack
  BY <1>6, <1>8, IngestTrackConsistent DEF IngestRadarTrack
<1>9. CASE IngestRadarFrame
  <2>1. PICK s \in Sensors, upd \in FrameUpdates(EvictDead(world)) :
          Ingested(IngestFrame(EvictDead(world), s, upd))
    BY <1>9 DEF IngestRadarFrame
  <2>2. Consistent(IngestFrame(EvictDead(world), s, upd))
    BY EvictDeadConsistent, IngestFrameConsistent
  <2> QED
    BY <1>6, <1>9, <2>1, <2>2 DEF IngestRadarFrame
<1>10. CASE HandleBios
  <2>1. ctx' \in Contexts
    BY <1>0, <1>10 DEF HandleBios, Contexts, Reports
  <2> QED
    BY <1>1, <1>10, <2>1 DEF HandleBios, TickTypes
<1>11. CASE HandleFsm
  <2> DEFINE next == FsmNext(ctx, world, ctx.fsm)
  <2>1. ctx' = [ctx EXCEPT !.fsm = next]
    BY <1>11 DEF HandleFsm
  <2>2. next \in FsmStates \cup {NoState}
    BY <1>0, FsmNextType DEF Contexts
  <2> HIDE DEF next
  <2>3. ctx' \in Contexts
    BY <1>0, <2>1, <2>2 DEF Contexts
  <2> QED
    BY <1>1, <1>11, <2>3 DEF HandleFsm, TickTypes
<1>12. CASE HandleFsmWithStateStore
  <2> DEFINE next == FsmNext(ctx, world, snap)
  <2>1. next \in FsmStates
    BY <1>12, FsmNextType DEF HandleFsmWithStateStore, TickTypes
  <2>2. /\ snap' = next /\ UNCHANGED <<subscribed, seen>>
        /\ queue' = IF subscribed /\ Len(queue) < QueueMax THEN Append(queue, next) ELSE queue
        /\ phase' = "proposals" /\ UNCHANGED <<storeMode, ctx, quiet>>
    BY <1>12 DEF HandleFsmWithStateStore, StoreSet, Notify
  <2> HIDE DEF next
  <2>3. queue' \in Seq(FsmStates) /\ Len(queue') <= QueueMax
    BY <2>1, <2>2, AgentTickAssumption DEF TickTypes
  <2> QED
    BY <2>1, <2>2, <2>3 DEF TickTypes
<1>13. CASE EvaluateProposals
  <2>1. PICK neural \in Neural : ctx' = [ctx EXCEPT !.proposals = BestProposal(ctx, neural)]
    BY <1>13 DEF EvaluateProposals
  <2> DEFINE best == BestProposal(ctx, neural)
  <2>2. best \in {"none", "plain", "safe"}
    BY DEF BestProposal
  <2> HIDE DEF best
  <2>3. ctx' \in Contexts
    BY <1>0, <2>1, <2>2 DEF Contexts, best
  <2> QED
    BY <1>1, <1>13, <2>3 DEF EvaluateProposals, TickTypes
<1>14. CASE Subscribe
  <2>1. snap \in FsmStates
    BY <1>14 DEF Subscribe, TickTypes
  <2>2. queue' \in Seq(FsmStates) /\ Len(queue') <= QueueMax
    BY <1>14, <2>1, AgentTickAssumption DEF Subscribe
  <2> QED
    BY <1>14, <2>2 DEF Subscribe, TickTypes
<1>15. CASE Unsubscribe
  <2>1. queue' \in Seq(FsmStates) /\ Len(queue') <= QueueMax
    BY <1>15, AgentTickAssumption DEF Unsubscribe
  <2> QED
    BY <1>15, <2>1 DEF Unsubscribe, TickTypes
<1>16. CASE Receive
  <2>1. /\ queue' \in Seq(FsmStates) /\ Len(queue') <= QueueMax
        /\ Head(queue) \in FsmStates
    BY <1>16, AgentTickAssumption DEF Receive, TickTypes
  <2> QED
    BY <1>16, <2>1 DEF Receive, TickTypes
<1>17. CASE Clock \/ UNCHANGED vars
  BY <1>17 DEF Clock, vars, storeVars, TickTypes
<1> QED
  BY <1>2, <1>3, <1>4, <1>5, <1>7, <1>8, <1>9, <1>10, <1>11, <1>12, <1>13, <1>14, <1>15,
     <1>16, <1>17 DEF Next, UpdateContext, RestOfTick

\* The agent's type invariant: with the world's, a bounded subscriber queue of
\* real FSM states.
THEOREM TypeCorrect == Spec => []TypeOK
<1>1. Init => WorldInv /\ Fitting(world)
  BY NewWorldConsistent, NewWorldFits DEF Init, WorldInv
<1>2. Init => TickTypes
  <2> SUFFICES ASSUME Init PROVE TickTypes
    OBVIOUS
  <2>1. ctx \in Contexts
    BY DEF Init, Contexts, NoState
  <2>2. queue \in Seq(FsmStates) /\ Len(queue) <= QueueMax
    BY AgentTickAssumption DEF Init
  <2> QED
    BY <2>1, <2>2 DEF Init, TickTypes, Phases, FsmStates, NoState
<1>3. WorldInv /\ Fitting(world) /\ TickTypes => TypeOK
  BY WorldType DEF WorldInv, Fitting, TickTypes, TypeOK
<1> QED
  BY <1>1, <1>2, <1>3, NextConsistent, NextFits, NextTickTypes, PTL DEF Spec
=============================================================================
