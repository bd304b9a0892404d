-------------------------- MODULE SimServiceProofs --------------------------
(***************************************************************************)
(* What q_sim_service guarantees for every configuration of the ship: the  *)
(* stages of a world step are typed one by one and each hands the next one *)
(* the facts the service's invariants are made of.                         *)
(***************************************************************************)
EXTENDS SimService, TLAPS

\* The constants of the world one by one.
LEMMA Consts ==
    /\ SocMax \in Nat /\ SocInit \in Nat /\ SocShedLow \in Nat /\ SocShedHigh \in Nat
    /\ BaseOut \in Nat /\ BaseIn \in Nat /\ MotionW \in Nat /\ RadarW \in Nat
    /\ XpdrW \in Nat /\ RcsW \in Nat /\ NblSocMin \in Nat /\ NblTempMax \in Nat
    /\ MaxBusA \in Nat /\ BusVMin \in Nat /\ BusVSpan \in Nat /\ DockW \in Nat
    /\ SoftStart \in Nat /\ CapMax \in Nat /\ CapRate \in Nat /\ ChargeMax \in Nat
    /\ DischargeMax \in Nat /\ TempMax \in Nat /\ TripC \in Nat /\ HysC \in Nat
    /\ Propellant \in Nat /\ MaxPct \in Nat /\ MaxBurn \in Nat
    /\ NblMaxes \subseteq Nat /\ NblMaxes # {} /\ CpuLoads \subseteq Nat
    /\ SocMax > 0 /\ SocInit <= SocMax /\ SoftStart > 0
    /\ CapInit \in 0..CapMax /\ DockInit \in BOOLEAN /\ NblInit \in BOOLEAN
  BY WorldAssumption

\* A product of naturals is a natural.
LEMMA ProductNat == \A m, n \in Nat : m * n \in Nat
  OBVIOUS

\* A quotient of naturals is a natural no larger than the dividend.
LEMMA QuotientNat == \A m \in Nat, n \in Nat \ {0} : m \div n \in Nat
  OBVIOUS

\* The limit a step gives the PDU is a natural.
LEMMA LimitNat ==
  ASSUME NEW soc \in Nat
  PROVE  MaxBusA * (BusVMin + (BusVSpan * soc) \div SocMax) \in Nat
<1>1. BusVSpan * soc \in Nat
  BY Consts, ProductNat
<1>2. (BusVSpan * soc) \div SocMax \in Nat
  BY <1>1, Consts, QuotientNat
<1>3. BusVMin + (BusVSpan * soc) \div SocMax \in Nat
  BY <1>2, Consts
<1> QED
  BY <1>3, Consts, ProductNat

\* A new world is a world.
LEMMA NewWorldType == NewWorld \in World
<1>1. (CHOOSE m \in NblMaxes : TRUE) \in NblMaxes
  BY Consts
<1> QED
  BY <1>1, Consts DEF NewWorld, World, Nodes, Loads, Axes, Reasons


\* A record is typed a few fields at a time.
LEMMA TypeFlags ==
  ASSUME NEW w \in World, NEW x \in BOOLEAN, NEW y \in BOOLEAN, NEW z \in BOOLEAN
  PROVE  [w EXCEPT !.soc_shed = x, !.radar_allowed = y, !.xpdr_allowed = z] \in World
  BY DEF World

\* The same for the lists of a step.
LEMMA TypeLists ==
  ASSUME NEW w \in World, NEW x \in SUBSET Loads, NEW y \in SUBSET Reasons, NEW z \in SUBSET Loads
  PROVE  [w EXCEPT !.shed = x, !.reasons = y, !.throttled = z] \in World
  BY DEF World

\* The same for the state of the PDU.
LEMMA TypeLimit ==
  ASSUME NEW w \in World, NEW x \in BOOLEAN, NEW y \in Nat
  PROVE  [w EXCEPT !.overcurrent = x, !.pdu_limit = y] \in World
  BY DEF World

\* The same for a burn.
LEMMA TypeBurn ==
  ASSUME NEW w \in World, NEW x \in BOOLEAN, NEW y \in 0..Propellant, NEW z \in 0..MaxBurn
  PROVE  [w EXCEPT !.rcs_active = x, !.propellant = y, !.rcs_left = z] \in World
  BY DEF World

\* The same for the rest of a burn.
LEMMA TypeThrust ==
  ASSUME NEW w \in World, NEW x \in 0..MaxPct, NEW y \in 0..MaxPct
  PROVE  [w EXCEPT !.rcs_pct = x, !.fuel_rate = y] \in World
  BY DEF World

\* The same for the loads.
LEMMA TypeLoads ==
  ASSUME NEW w \in World, NEW x \in [Loads -> Nat], NEW y \in BOOLEAN
  PROVE  [w EXCEPT !.loads = x, !.nbl_allowed = y] \in World
  BY DEF World

\* The same for the energy stores.
LEMMA TypeEnergy ==
  ASSUME NEW w \in World, NEW x \in 0..CapMax, NEW y \in Nat, NEW z \in 0..SocMax
  PROVE  [w EXCEPT !.cap = x, !.power_out = y, !.soc = z] \in World
  BY DEF World

\* The same for the thermal nodes.
LEMMA TypeThermal ==
  ASSUME NEW w \in World, NEW x \in [Nodes -> 0..TempMax], NEW y \in [Nodes -> BOOLEAN]
  PROVE  [w EXCEPT !.temp = x, !.trip = y] \in World
  BY DEF World

----------------------------------------------------------------------------
(* The stages of a step.                                                   *)

\* The parts of a world no stage but the last writes, and the loads' typing.
LEMMA WorldFields ==
  ASSUME NEW w \in World
  PROVE  /\ w.trip["pdu"] \in BOOLEAN /\ w.trip["core"] \in BOOLEAN
         /\ w.temp \in [Nodes -> 0..TempMax] /\ w.loads \in [Loads -> Nat]
         /\ w.shed \in SUBSET Loads /\ w.reasons \in SUBSET Reasons
         /\ w.throttled \in SUBSET Loads /\ w.pdu_limit \in Nat
         /\ w.soc \in 0..SocMax /\ w.cap \in 0..CapMax
         /\ w.propellant \in 0..Propellant /\ w.rcs_left \in 0..MaxBurn
         /\ w.rcs_pct \in 0..MaxPct /\ w.nbl_max \in NblMaxes /\ w.speed \in 0..1
         /\ w.dock_since \in 0..SoftStart /\ w.fuel_rate \in 0..MaxPct
  BY DEF World, Nodes

\* Supervision: the flags say what the shed list says, and nothing else is shed
\* than what charge and trips ask for.
LEMMA SuperviseStage ==
  ASSUME NEW w \in World
  PROVE  /\ Supervise(w) \in World
         /\ LET s == Supervise(w) IN
            /\ s.radar_allowed = ("radar" \notin s.shed)
            /\ s.xpdr_allowed = ("transponder" \notin s.shed)
            /\ s.shed \subseteq Sheddable
            /\ "nbl" \in s.shed => w.trip["core"]
            /\ w.trip["pdu"] => ~s.radar_allowed /\ ~s.xpdr_allowed
            /\ ~s.overcurrent /\ s.trip = w.trip
            /\ s.rcs_pct = w.rcs_pct /\ s.rcs_left = w.rcs_left
<1> DEFINE low  == SocShed(w)
           hot  == w.trip["pdu"]
           ok   == ~low /\ ~hot
           shed == (IF low \/ hot THEN {"radar", "transponder"} ELSE {})
                     \cup (IF w.trip["core"] THEN {"nbl"} ELSE {})
           why  == (IF low THEN {"low_soc"} ELSE {})
                     \cup (IF hot \/ w.trip["core"] THEN {"thermal_overheat"} ELSE {})
           lim  == MaxBusA * (BusVMin + (BusVSpan * w.soc) \div SocMax)
           w1   == [w EXCEPT !.soc_shed = low, !.radar_allowed = ok, !.xpdr_allowed = ok]
           w2   == [w1 EXCEPT !.shed = shed, !.reasons = why, !.throttled = {}]
           w3   == [w2 EXCEPT !.overcurrent = FALSE, !.pdu_limit = lim]
<1>1. ok \in BOOLEAN /\ low \in BOOLEAN
  BY DEF SocShed
<1>2. shed \in SUBSET Loads /\ shed \subseteq Sheddable
  BY DEF Loads, Sheddable
<1>3. why \in SUBSET Reasons
  BY DEF Reasons
<1>4. lim \in Nat
  BY LimitNat, WorldFields, Consts
<1>5. Supervise(w) = w3
  BY DEF Supervise
<1>6. /\ ok = ("radar" \notin shed) /\ ok = ("transponder" \notin shed)
      /\ "nbl" \in shed => w.trip["core"]
      /\ w.trip["pdu"] => ~ok
  BY <1>1, WorldFields
<1> HIDE DEF low, ok, shed, why, lim
<1>7. w1 \in World
  BY <1>1, TypeFlags
<1>8. w2 \in World
  <2> HIDE DEF w1
  <2> QED  BY <1>2, <1>3, <1>7, TypeLists
<1>9. w3 \in World
  <2> HIDE DEF w2
  <2> QED  BY <1>4, <1>8, TypeLimit
<1>10. /\ w3.radar_allowed = ok /\ w3.xpdr_allowed = ok /\ w3.shed = shed
       /\ w3.overcurrent = FALSE /\ w3.trip = w.trip
       /\ w3.rcs_pct = w.rcs_pct /\ w3.rcs_left = w.rcs_left
  BY DEF World
<1> QED
  BY <1>2, <1>5, <1>6, <1>9, <1>10

\* The thrusters: what a burn leaves on has time left; nothing else changes.
LEMMA RcsStage ==
  ASSUME NEW w \in World, w.rcs_pct > 0 => w.rcs_left > 0
  PROVE  /\ RcsStep(w) \in World
         /\ LET r == RcsStep(w) IN
            /\ r.rcs_pct > 0 => r.rcs_left > 0
            /\ r.radar_allowed = w.radar_allowed /\ r.xpdr_allowed = w.xpdr_allowed
            /\ r.shed = w.shed /\ r.trip = w.trip /\ r.overcurrent = w.overcurrent
<1>1. CASE ~RcsFires(w)
  <2> DEFINE r == [w EXCEPT !.rcs_active = FALSE]
  <2>1. RcsStep(w) = r
    BY <1>1 DEF RcsStep
  <2>2. r.rcs_pct = w.rcs_pct /\ r.rcs_left = w.rcs_left /\ r.radar_allowed = w.radar_allowed
        /\ r.xpdr_allowed = w.xpdr_allowed /\ r.shed = w.shed /\ r.trip = w.trip
        /\ r.overcurrent = w.overcurrent
    BY <1>1 DEF World
  <2>3. r \in World
    BY DEF World
  <2> QED
    BY <2>1, <2>2, <2>3
<1>2. CASE RcsFires(w) /\ w.propellant = 0
  <2> DEFINE q == [w EXCEPT !.rcs_active = FALSE]
             r == [q EXCEPT !.rcs_pct = 0, !.fuel_rate = 0]
  <2>1. RcsStep(w) = r
    BY <1>2 DEF RcsStep
  <2>2. r.rcs_pct = 0 /\ r.radar_allowed = w.radar_allowed
        /\ r.xpdr_allowed = w.xpdr_allowed /\ r.shed = w.shed /\ r.trip = w.trip
        /\ r.overcurrent = w.overcurrent
    BY DEF World
  <2>3. q \in World
    BY DEF World
  <2>4. r \in World
    <3> HIDE DEF q
    <3>1. 0 \in 0..MaxPct
      BY Consts
    <3> QED  BY <2>3, <3>1, TypeThrust
  <2> QED
    BY <2>1, <2>2, <2>4
<1>3. CASE RcsFires(w) /\ w.propellant # 0
  <2> DEFINE ends == w.rcs_left = 1
             dry  == w.rcs_pct >= w.propellant
             prop == Minus(w.propellant, w.rcs_pct)
             left == Minus(w.rcs_left, 1)
             pct  == IF ends \/ dry THEN 0 ELSE w.rcs_pct
             rate == IF ends THEN 0 ELSE w.rcs_pct
             r1   == [w EXCEPT !.rcs_active = TRUE, !.propellant = prop, !.rcs_left = left]
             r2   == [r1 EXCEPT !.rcs_pct = pct, !.fuel_rate = rate]
  <2>1. RcsStep(w) = r2
    BY <1>3 DEF RcsStep
  <2>2. prop \in 0..Propellant /\ left \in 0..MaxBurn /\ pct \in 0..MaxPct /\ rate \in 0..MaxPct
    BY WorldFields, Consts DEF Minus
  <2>3. pct > 0 => left > 0
    BY WorldFields, Consts DEF Minus
  <2> HIDE DEF ends, dry, prop, left, pct, rate
  <2>4. r1 \in World
    BY <2>2, TypeBurn
  <2>5. r2 \in World
    <3> HIDE DEF r1
    <3> QED  BY <2>2, <2>4, TypeThrust
  <2>6. /\ r2.rcs_pct = pct /\ r2.rcs_left = left /\ r2.radar_allowed = w.radar_allowed
        /\ r2.xpdr_allowed = w.xpdr_allowed /\ r2.shed = w.shed /\ r2.trip = w.trip
        /\ r2.overcurrent = w.overcurrent
    BY DEF World
  <2> QED
    BY <2>1, <2>3, <2>5, <2>6
<1> QED
  BY <1>1, <1>2, <1>3

\* The demand: a shed load, or one without permission, draws nothing.
LEMMA DemandStage ==
  ASSUME NEW w \in World, NEW before \in World, NEW in \in Inputs, NEW env \in Env,
         w.radar_allowed = ("radar" \notin w.shed),
         w.xpdr_allowed = ("transponder" \notin w.shed),
         w.shed \subseteq Sheddable,
         "nbl" \in w.shed => w.trip["core"]
  PROVE  /\ Demand(w, before, in, env) \in World
         /\ LET d == Demand(w, before, in, env) IN
            /\ \A l \in d.shed : d.loads[l] = 0
            /\ d.radar_allowed = ("radar" \notin d.shed)
            /\ d.xpdr_allowed = ("transponder" \notin d.shed)
            /\ ~w.radar_allowed => d.loads["radar"] = 0
            /\ ~w.xpdr_allowed => d.loads["transponder"] = 0
            /\ w.trip["core"] \/ w.trip["pdu"] => d.loads["nbl"] = 0
            /\ d.overcurrent = w.overcurrent /\ d.shed \subseteq Sheddable
            /\ d.rcs_pct = w.rcs_pct /\ d.rcs_left = w.rcs_left
<1> DEFINE ok     == NblPermitted(w)
           drawn  == [motion      |-> w.speed * MotionW,
                      mcqpu       |-> env.cpu,
                      radar       |-> IF in.radar_enabled /\ w.radar_allowed THEN RadarW ELSE 0,
                      transponder |-> IF in.transponder_active /\ w.xpdr_allowed
                                      THEN XpdrW ELSE 0,
                      nbl         |-> IF ok THEN w.nbl_max ELSE 0,
                      rcs         |-> IF w.rcs_active
                                      THEN before.rcs_pct * RcsW * env.open ELSE 0]
           barred == w.nbl_active /\ ~ok
           why    == IF w.trip["core"] \/ w.trip["pdu"]
                     THEN "thermal_overheat" ELSE "nbl_budget"
           shed   == IF barred THEN w.shed \cup {"nbl"} ELSE w.shed
           reas   == IF barred THEN w.reasons \cup {why} ELSE w.reasons
           d1     == [w EXCEPT !.loads = drawn, !.nbl_allowed = ok]
           d2     == [d1 EXCEPT !.shed = shed, !.reasons = reas]
<1>1. Demand(w, before, in, env) = d2
  BY DEF Demand
<1>2. ok \in BOOLEAN /\ (w.trip["core"] \/ w.trip["pdu"] => ~ok)
  BY WorldFields DEF NblPermitted
<1>3. w.speed * MotionW \in Nat
  BY WorldFields, Consts, ProductNat
<1>4. before.rcs_pct * RcsW * env.open \in Nat
  <2>1. before.rcs_pct \in Nat /\ env.open \in Nat
    BY WorldFields, Consts DEF Env
  <2>2. before.rcs_pct * RcsW \in Nat
    BY <2>1, Consts, ProductNat
  <2> QED
    BY <2>1, <2>2, ProductNat
<1>5. env.cpu \in Nat /\ w.nbl_max \in Nat
  BY WorldFields, Consts DEF Env
<1>6. drawn \in [Loads -> Nat]
  <2> HIDE DEF ok
  <2>1. /\ drawn.motion \in Nat /\ drawn.mcqpu \in Nat /\ drawn.radar \in Nat
        /\ drawn.transponder \in Nat /\ drawn.nbl \in Nat /\ drawn.rcs \in Nat
    BY <1>3, <1>4, <1>5, Consts
  <2>2. DOMAIN drawn = Loads
    BY DEF Loads
  <2>3. drawn = [l \in Loads |-> drawn[l]]
    BY <2>2
  <2>4. \A l \in Loads : drawn[l] \in Nat
    <3> HIDE DEF drawn
    <3> QED  BY <2>1 DEF Loads
  <2> HIDE DEF drawn
  <2> QED
    BY <2>3, <2>4
<1>7. /\ ~w.radar_allowed => drawn["radar"] = 0
      /\ ~w.xpdr_allowed => drawn["transponder"] = 0
      /\ ~ok => drawn["nbl"] = 0
  OBVIOUS
<1>8. shed \in SUBSET Loads /\ reas \in SUBSET Reasons /\ shed \subseteq Sheddable
  BY WorldFields DEF Loads, Reasons, Sheddable
<1>9. \A l \in shed : drawn[l] = 0
  <2> HIDE DEF ok, drawn
  <2> QED  BY <1>2, <1>7, WorldFields DEF Sheddable
<1>10. ("radar" \notin shed) = ("radar" \notin w.shed)
       /\ ("transponder" \notin shed) = ("transponder" \notin w.shed)
  OBVIOUS
<1> HIDE DEF ok, drawn, why, barred, shed, reas
<1>11. d1 \in World
  BY <1>2, <1>6, TypeLoads
<1>12. d2 \in World
  <2> HIDE DEF d1
  <2>1. d2 = [d1 EXCEPT !.shed = shed, !.reasons = reas, !.throttled = d1.throttled]
    BY <1>11 DEF World
  <2>2. d1.throttled \in SUBSET Loads
    BY <1>11, WorldFields
  <2> HIDE DEF d2
  <2> QED  BY <1>8, <1>11, <2>1, <2>2, TypeLists
<1>13. /\ d2.shed = shed /\ d2.loads = drawn /\ d2.radar_allowed = w.radar_allowed
       /\ d2.xpdr_allowed = w.xpdr_allowed /\ d2.overcurrent = w.overcurrent
       /\ d2.rcs_pct = w.rcs_pct /\ d2.rcs_left = w.rcs_left
  BY DEF World
<1> HIDE DEF d2
<1> QED
  BY <1>1, <1>2, <1>7, <1>8, <1>9, <1>10, <1>12, <1>13

\* The dock bridge changes nothing but its ramp.
LEMMA DockStage ==
  ASSUME NEW w \in World
  PROVE  /\ DockStep(w) \in World
         /\ LET d == DockStep(w) IN
            /\ d.shed = w.shed /\ d.loads = w.loads /\ d.overcurrent = w.overcurrent
            /\ d.radar_allowed = w.radar_allowed /\ d.xpdr_allowed = w.xpdr_allowed
            /\ d.rcs_pct = w.rcs_pct /\ d.rcs_left = w.rcs_left
<1> DEFINE since == IF w.dock_connected THEN Least(w.dock_since + 1, SoftStart) ELSE 0
           d     == [w EXCEPT !.dock_since = since]
<1>1. since \in 0..SoftStart
  BY WorldFields, Consts DEF Least
<1>2. DockStep(w) = d
  BY DEF DockStep
<1> HIDE DEF since
<1>3. d \in World
  BY <1>1 DEF World
<1>4. /\ d.shed = w.shed /\ d.loads = w.loads /\ d.overcurrent = w.overcurrent
      /\ d.radar_allowed = w.radar_allowed /\ d.xpdr_allowed = w.xpdr_allowed
      /\ d.rcs_pct = w.rcs_pct /\ d.rcs_left = w.rcs_left
  BY DEF World
<1> QED
  BY <1>2, <1>3, <1>4

\* Throttling one load by the excess: the others stay, and what is still above
\* the limit means that the load is at zero and was above the limit before.
LEMMA ThrottleLoad ==
  ASSUME NEW l \in [Loads -> Nat], NEW load \in Loads, NEW limit \in Nat
  PROVE  LET t == Throttle(l, load, limit) IN
         /\ t \in [Loads -> Nat]
         /\ \A x \in Loads : x # load => t[x] = l[x]
         /\ Total(t) > limit => t[load] = 0 /\ Total(l) > limit
<1> DEFINE excess == Minus(Total(l), limit)
           t      == [l EXCEPT ![load] = Minus(@, excess)]
<1>1. \A x \in Loads : l[x] \in Nat
  OBVIOUS
<1>2. Total(l) \in Nat
  BY <1>1, Consts DEF Total, Loads
<1>3. excess \in Nat /\ excess = IF limit <= Total(l) THEN Total(l) - limit ELSE 0
  BY <1>2 DEF Minus
<1>4. t[load] = IF excess <= l[load] THEN l[load] - excess ELSE 0
  BY <1>1, <1>3 DEF Minus
<1>5. t \in [Loads -> Nat] /\ \A x \in Loads : x # load => t[x] = l[x]
  BY <1>1, <1>3, <1>4
<1>6. Total(t) - t[load] = Total(l) - l[load]
  BY <1>1, <1>5, Consts DEF Total, Loads
<1>7. Total(t) \in Nat
  BY <1>5, Consts DEF Total, Loads
<1>8. t = Throttle(l, load, limit)
  BY DEF Throttle
<1> HIDE DEF t, excess
<1>9. Total(t) > limit => t[load] = 0 /\ Total(l) > limit
  BY <1>1, <1>2, <1>3, <1>4, <1>6, <1>7
<1> QED
  BY <1>5, <1>8, <1>9

\* The PDU: the shed lists and the flags keep saying the same, no load that drew
\* nothing draws anything, and a fault is the last resort.
LEMMA PduStage ==
  ASSUME NEW w \in World, ~w.overcurrent,
         \A l \in w.shed : w.loads[l] = 0,
         w.shed \subseteq Sheddable,
         w.radar_allowed = ("radar" \notin w.shed),
         w.xpdr_allowed = ("transponder" \notin w.shed)
  PROVE  /\ Pdu(w) \in World
         /\ LET p == Pdu(w) IN
            /\ \A l \in p.shed : p.loads[l] = 0
            /\ p.radar_allowed = ("radar" \notin p.shed)
            /\ p.xpdr_allowed = ("transponder" \notin p.shed)
            /\ \A l \in Sheddable : w.loads[l] = 0 => p.loads[l] = 0
            /\ p.overcurrent => \A l \in Sheddable \cup {"motion", "rcs"} : p.loads[l] = 0
            /\ ~p.overcurrent /\ p.pdu_limit > 0 => Total(p.loads) <= p.pdu_limit
            /\ p.rcs_pct = w.rcs_pct /\ p.rcs_left = w.rcs_left
<1> DEFINE over  == w.pdu_limit > 0 /\ Total(w.loads) > w.pdu_limit
           gone  == {l \in Sheddable : w.loads[l] > 0}
           cut   == [l \in Loads |-> IF l \in gone THEN 0 ELSE w.loads[l]]
           slow  == Throttle(cut, "motion", w.pdu_limit)
           final == Throttle(slow, "rcs", w.pdu_limit)
           reas  == IF gone = {} THEN w.reasons ELSE w.reasons \cup {"pdu_overcurrent"}
           radar == w.radar_allowed /\ "radar" \notin gone
           xp    == w.xpdr_allowed /\ "transponder" \notin gone
           thr   == {l \in {"motion", "rcs"} : final[l] < w.loads[l]}
           fault == Total(final) > w.pdu_limit
           p1    == [w EXCEPT !.loads = final]
           p2    == [p1 EXCEPT !.shed = w.shed \cup gone, !.reasons = reas, !.throttled = thr]
           p3    == [p2 EXCEPT !.radar_allowed = radar, !.xpdr_allowed = xp]
           p4    == [p3 EXCEPT !.overcurrent = fault]
<1>1. w.loads \in [Loads -> Nat] /\ w.pdu_limit \in Nat
  BY WorldFields
<1>2. Total(w.loads) \in Nat
  BY <1>1, Consts DEF Total, Loads
<1>3. "motion" \in Loads /\ "rcs" \in Loads
  BY DEF Loads
<1>4. CASE ~over
  <2>1. Pdu(w) = w
    BY <1>4 DEF Pdu
  <2>2. w.pdu_limit > 0 => Total(w.loads) <= w.pdu_limit
    BY <1>1, <1>2, <1>4
  <2> QED
    BY <2>1, <2>2
<1>5. CASE over
  <2>1. cut \in [Loads -> Nat] /\ \A l \in Sheddable : cut[l] = 0
    BY <1>1 DEF Loads, Sheddable
  <2>2. \A l \in Loads : w.loads[l] = 0 => cut[l] = 0
    OBVIOUS
  <2> HIDE DEF cut
  <2>3. /\ slow \in [Loads -> Nat] /\ \A x \in Loads : x # "motion" => slow[x] = cut[x]
        /\ Total(slow) > w.pdu_limit => slow["motion"] = 0 /\ Total(cut) > w.pdu_limit
    BY <1>1, <1>3, <2>1, ThrottleLoad
  <2> HIDE DEF slow
  <2>4. /\ final \in [Loads -> Nat] /\ \A x \in Loads : x # "rcs" => final[x] = slow[x]
        /\ Total(final) > w.pdu_limit => final["rcs"] = 0 /\ Total(slow) > w.pdu_limit
    BY <1>1, <1>3, <2>3, ThrottleLoad
  <2>5. \A l \in Sheddable : final[l] = 0
    BY <2>1, <2>3, <2>4 DEF Sheddable, Loads
  <2>6. fault => final["motion"] = 0 /\ final["rcs"] = 0
    BY <2>3, <2>4 DEF Loads
  <2>7. Total(final) \in Nat
    BY <2>4, Consts DEF Total, Loads
  <2>8. ~fault => Total(final) <= w.pdu_limit
    BY <1>1, <2>7
  <2>9. \A l \in w.shed \cup gone : final[l] = 0
    BY <2>5
  <2>10. /\ reas \in SUBSET Reasons /\ thr \in SUBSET Loads
         /\ w.shed \cup gone \in SUBSET Loads
    BY WorldFields DEF Reasons, Loads, Sheddable
  <2>11. radar \in BOOLEAN /\ xp \in BOOLEAN /\ fault \in BOOLEAN
    <3>1. radar \in BOOLEAN /\ xp \in BOOLEAN
      BY Zenon
    <3>2. fault \in BOOLEAN
      BY <1>1, <2>7
    <3> QED
      BY <3>1, <3>2
  <2>12. /\ radar = ("radar" \notin w.shed \cup gone)
         /\ xp = ("transponder" \notin w.shed \cup gone)
    <3> HIDE DEF gone
    <3> QED
      OBVIOUS
  <2>13. Pdu(w) = p4
    BY <1>5 DEF Pdu, cut, slow
  <2> HIDE DEF over, gone, final, reas, radar, xp, thr, fault
  <2>14. p1 \in World
    BY <2>4 DEF World
  <2>15. p2 \in World
    <3> HIDE DEF p1
    <3> QED  BY <2>10, <2>14, TypeLists
  <2>16. p3 \in World
    <3> HIDE DEF p2
    <3> QED  BY <2>11, <2>15 DEF World
  <2>17. p4 \in World
    <3> HIDE DEF p3
    <3> QED  BY <2>11, <2>16 DEF World
  <2>18. /\ p4.shed = w.shed \cup gone /\ p4.loads = final
         /\ p4.radar_allowed = radar /\ p4.xpdr_allowed = xp
         /\ p4.overcurrent = fault /\ p4.pdu_limit = w.pdu_limit
         /\ p4.rcs_pct = w.rcs_pct /\ p4.rcs_left = w.rcs_left
    BY DEF World
  <2> HIDE DEF p4
  <2>19. fault => \A l \in Sheddable \cup {"motion", "rcs"} : final[l] = 0
    BY <2>5, <2>6
  <2>20. ~fault => Total(final) <= w.pdu_limit
    BY <2>8
  <2> QED
    BY <2>5, <2>9, <2>12, <2>13, <2>17, <2>18, <2>19, <2>20
<1> QED
  BY <1>4, <1>5

\* The energy stores: only charge, supercapacitor, draw and the permission of
\* the burst link change, and an allowed link is one that draws.
LEMMA StoreStage ==
  ASSUME NEW w \in World
  PROVE  /\ Store(w) \in World
         /\ LET s == Store(w) IN
            /\ s.shed = w.shed /\ s.loads = w.loads /\ s.overcurrent = w.overcurrent
            /\ s.radar_allowed = w.radar_allowed /\ s.xpdr_allowed = w.xpdr_allowed
            /\ s.rcs_pct = w.rcs_pct /\ s.rcs_left = w.rcs_left
            /\ s.pdu_limit = w.pdu_limit
            /\ s.nbl_allowed => s.loads["nbl"] > 0
<1> DEFINE in0    == BaseIn + DockPower(w)
           out0   == Total(w.loads)
           charge == Least(Least(Minus(in0, out0), CapMax - w.cap), CapRate)
           lend   == Least(Least(Minus(out0, in0), w.cap), CapRate)
           in1    == in0 + lend
           out1   == out0 + charge
           up     == Capped(Minus(in1, out1), ChargeMax)
           down   == Capped(Minus(out1, in1), DischargeMax)
           cap    == (w.cap + charge) - lend
           soc    == Minus(Least(w.soc + up, SocMax), down)
           nbl    == w.nbl_allowed /\ w.loads["nbl"] > 0
           s1     == [w EXCEPT !.cap = cap, !.power_out = out1, !.soc = soc]
           s2     == [s1 EXCEPT !.nbl_allowed = nbl]
<1>1. DockPower(w) \in Nat
  <2>1. w.dock_since \in Nat
    BY WorldFields, Consts
  <2>2. DockW * w.dock_since \in Nat
    BY <2>1, Consts, ProductNat
  <2> QED
    BY <2>2, Consts, QuotientNat DEF DockPower
<1>2. in0 \in Nat
  BY <1>1, Consts
<1>3. w.loads \in [Loads -> Nat] /\ w.cap \in 0..CapMax /\ w.soc \in 0..SocMax
  BY WorldFields
<1>4. out0 \in Nat
  BY <1>3, Consts DEF Total, Loads
<1>5. w.loads["nbl"] \in Nat
  BY <1>3 DEF Loads
<1>6. Store(w) = s2
  BY DEF Store
<1> HIDE DEF in0, out0
<1>7. charge \in 0..(CapMax - w.cap) /\ lend \in 0..w.cap
  BY <1>2, <1>3, <1>4, Consts DEF Least, Minus
<1> HIDE DEF charge, lend
<1>8. cap \in 0..CapMax /\ in1 \in Nat /\ out1 \in Nat
  BY <1>2, <1>3, <1>4, <1>7, Consts
<1> HIDE DEF in1, out1, cap
<1>9. up \in Nat /\ down \in Nat
  BY <1>8, Consts DEF Capped, Least, Minus
<1> HIDE DEF up, down
<1>10. soc \in 0..SocMax
  BY <1>3, <1>9, Consts DEF Least, Minus
<1>11. nbl \in BOOLEAN /\ (nbl => w.loads["nbl"] > 0)
  <2>1. w.nbl_allowed \in BOOLEAN
    BY DEF World
  <2> QED
    BY <1>5, <2>1
<1> HIDE DEF soc, nbl
<1>12. s1 \in World
  BY <1>8, <1>10, TypeEnergy
<1>13. s2 \in World
  <2> HIDE DEF s1
  <2> QED  BY <1>11, <1>12 DEF World
<1>14. /\ s2.shed = w.shed /\ s2.loads = w.loads /\ s2.overcurrent = w.overcurrent
       /\ s2.radar_allowed = w.radar_allowed /\ s2.xpdr_allowed = w.xpdr_allowed
       /\ s2.rcs_pct = w.rcs_pct /\ s2.rcs_left = w.rcs_left
       /\ s2.pdu_limit = w.pdu_limit /\ s2.nbl_allowed = nbl
  BY DEF World
<1> HIDE DEF s2
<1> QED
  BY <1>6, <1>11, <1>13, <1>14

\* The thermal nodes: only temperatures and trips change.
LEMMA ThermalStage ==
  ASSUME NEW w \in World, NEW env \in Env
  PROVE  /\ ThermalStep(w, env) \in World
         /\ LET s == ThermalStep(w, env) IN
            /\ s.shed = w.shed /\ s.loads = w.loads /\ s.overcurrent = w.overcurrent
            /\ s.radar_allowed = w.radar_allowed /\ s.xpdr_allowed = w.xpdr_allowed
            /\ s.rcs_pct = w.rcs_pct /\ s.rcs_left = w.rcs_left
            /\ s.pdu_limit = w.pdu_limit /\ s.nbl_allowed = w.nbl_allowed
<1> DEFINE trip == [n \in Nodes |-> /\ w.trip[n] \/ env.temp[n] >= TripC
                                    /\ env.temp[n] + HysC > TripC]
           s    == [w EXCEPT !.temp = env.temp, !.trip = trip]
<1>1. env.temp \in [Nodes -> 0..TempMax]
  BY DEF Env
<1>2. \A n \in Nodes : trip[n] \in BOOLEAN
  BY Zenon
<1>3. trip \in [Nodes -> BOOLEAN]
  BY <1>2
<1>4. ThermalStep(w, env) = s
  BY DEF ThermalStep
<1> HIDE DEF trip
<1>5. s \in World
  BY <1>1, <1>3, TypeThermal
<1>6. /\ s.shed = w.shed /\ s.loads = w.loads /\ s.overcurrent = w.overcurrent
      /\ s.radar_allowed = w.radar_allowed /\ s.xpdr_allowed = w.xpdr_allowed
      /\ s.rcs_pct = w.rcs_pct /\ s.rcs_left = w.rcs_left
      /\ s.pdu_limit = w.pdu_limit /\ s.nbl_allowed = w.nbl_allowed
  BY DEF World
<1> HIDE DEF s
<1> QED
  BY <1>4, <1>5, <1>6

-----------------------------------------------------------------------------
(* A step and the setters.                                                 *)

\* What every world between two steps satisfies.
Sound(w) ==
    /\ \A l \in w.shed : w.loads[l] = 0
    /\ w.radar_allowed = ("radar" \notin w.shed)
    /\ w.xpdr_allowed = ("transponder" \notin w.shed)
    /\ w.nbl_allowed => "nbl" \notin w.shed /\ w.loads["nbl"] > 0
    /\ w.overcurrent => \A l \in Sheddable \cup {"motion", "rcs"} : w.loads[l] = 0
    /\ ~w.overcurrent /\ w.pdu_limit > 0 => Total(w.loads) <= w.pdu_limit
    /\ w.rcs_pct > 0 => w.rcs_left > 0

\* A step leads from a world whose burns are bounded to a sound one, and what
\* was tripped when it began draws nothing in it.
LEMMA StepSound ==
  ASSUME NEW w \in World, w.rcs_pct > 0 => w.rcs_left > 0,
         NEW in \in Inputs, NEW env \in Env
  PROVE  /\ Step(w, in, env) \in World
         /\ Sound(Step(w, in, env))
         /\ w.trip["pdu"] => \A l \in Sheddable : Step(w, in, env).loads[l] = 0
         /\ w.trip["core"] => Step(w, in, env).loads["nbl"] = 0
<1> DEFINE s == Supervise(w)
           r == RcsStep(s)
           d == Demand(r, s, in, env)
           k == DockStep(d)
           p == Pdu(k)
           e == Store(p)
           t == ThermalStep(e, env)
<1>1. Step(w, in, env) = t
  BY DEF Step
<1>2. /\ s \in World
      /\ s.radar_allowed = ("radar" \notin s.shed)
      /\ s.xpdr_allowed = ("transponder" \notin s.shed)
      /\ s.shed \subseteq Sheddable
      /\ "nbl" \in s.shed => w.trip["core"]
      /\ w.trip["pdu"] => ~s.radar_allowed /\ ~s.xpdr_allowed
      /\ ~s.overcurrent /\ s.trip = w.trip
      /\ s.rcs_pct = w.rcs_pct /\ s.rcs_left = w.rcs_left
  BY SuperviseStage
<1> HIDE DEF s
<1>3. /\ r \in World
      /\ r.rcs_pct > 0 => r.rcs_left > 0
      /\ r.radar_allowed = s.radar_allowed /\ r.xpdr_allowed = s.xpdr_allowed
      /\ r.shed = s.shed /\ r.trip = s.trip /\ r.overcurrent = s.overcurrent
  BY <1>2, RcsStage
<1> HIDE DEF r
<1>4. /\ r.radar_allowed = ("radar" \notin r.shed)
      /\ r.xpdr_allowed = ("transponder" \notin r.shed)
      /\ r.shed \subseteq Sheddable
      /\ "nbl" \in r.shed => r.trip["core"]
  BY <1>2, <1>3
<1>5. /\ d \in World
      /\ \A l \in d.shed : d.loads[l] = 0
      /\ d.radar_allowed = ("radar" \notin d.shed)
      /\ d.xpdr_allowed = ("transponder" \notin d.shed)
      /\ ~r.radar_allowed => d.loads["radar"] = 0
      /\ ~r.xpdr_allowed => d.loads["transponder"] = 0
      /\ r.trip["core"] \/ r.trip["pdu"] => d.loads["nbl"] = 0
      /\ d.overcurrent = r.overcurrent /\ d.shed \subseteq Sheddable
      /\ d.rcs_pct = r.rcs_pct /\ d.rcs_left = r.rcs_left
  BY <1>2, <1>3, <1>4, DemandStage
<1> HIDE DEF d
<1>6. /\ k \in World
      /\ k.shed = d.shed /\ k.loads = d.loads /\ k.overcurrent = d.overcurrent
      /\ k.radar_allowed = d.radar_allowed /\ k.xpdr_allowed = d.xpdr_allowed
      /\ k.rcs_pct = d.rcs_pct /\ k.rcs_left = d.rcs_left
  BY <1>5, DockStage
<1> HIDE DEF k
<1>7. /\ ~k.overcurrent
      /\ \A l \in k.shed : k.loads[l] = 0
      /\ k.shed \subseteq Sheddable
      /\ k.radar_allowed = ("radar" \notin k.shed)
      /\ k.xpdr_allowed = ("transponder" \notin k.shed)
  BY <1>2, <1>3, <1>5, <1>6
<1>8. /\ p \in World
      /\ \A l \in p.shed : p.loads[l] = 0
      /\ p.radar_allowed = ("radar" \notin p.shed)
      /\ p.xpdr_allowed = ("transponder" \notin p.shed)
      /\ \A l \in Sheddable : k.loads[l] = 0 => p.loads[l] = 0
      /\ p.overcurrent => \A l \in Sheddable \cup {"motion", "rcs"} : p.loads[l] = 0
      /\ ~p.overcurrent /\ p.pdu_limit > 0 => Total(p.loads) <= p.pdu_limit
      /\ p.rcs_pct = k.rcs_pct /\ p.rcs_left = k.rcs_left
  BY <1>6, <1>7, PduStage
<1> HIDE DEF p
<1>9. /\ e \in World
      /\ e.shed = p.shed /\ e.loads = p.loads /\ e.overcurrent = p.overcurrent
      /\ e.radar_allowed = p.radar_allowed /\ e.xpdr_allowed = p.xpdr_allowed
      /\ e.rcs_pct = p.rcs_pct /\ e.rcs_left = p.rcs_left
      /\ e.pdu_limit = p.pdu_limit
      /\ e.nbl_allowed => e.loads["nbl"] > 0
  BY <1>8, StoreStage
<1> HIDE DEF e
<1>10. /\ t \in World
       /\ t.shed = e.shed /\ t.loads = e.loads /\ t.overcurrent = e.overcurrent
       /\ t.radar_allowed = e.radar_allowed /\ t.xpdr_allowed = e.xpdr_allowed
       /\ t.rcs_pct = e.rcs_pct /\ t.rcs_left = e.rcs_left
       /\ t.pdu_limit = e.pdu_limit /\ t.nbl_allowed = e.nbl_allowed
  BY <1>9, ThermalStage
<1> HIDE DEF t
<1>11. /\ t.shed = p.shed /\ t.loads = p.loads /\ t.overcurrent = p.overcurrent
       /\ t.radar_allowed = p.radar_allowed /\ t.xpdr_allowed = p.xpdr_allowed
       /\ t.pdu_limit = p.pdu_limit
       /\ t.rcs_pct = r.rcs_pct /\ t.rcs_left = r.rcs_left
       /\ t.nbl_allowed => t.loads["nbl"] > 0
  BY <1>5, <1>6, <1>8, <1>9, <1>10
<1>12. t.nbl_allowed => "nbl" \notin t.shed
  BY <1>8, <1>11
<1>13. Sound(t)
  BY <1>3, <1>8, <1>11, <1>12 DEF Sound
<1>14. w.trip["pdu"] => \A l \in Sheddable : d.loads[l] = 0
  BY <1>2, <1>3, <1>5 DEF Sheddable
<1>15. w.trip["core"] => d.loads["nbl"] = 0
  BY <1>2, <1>3, <1>5
<1>16. \A l \in Sheddable : d.loads[l] = 0 => t.loads[l] = 0
  BY <1>6, <1>8, <1>11
<1> QED
  BY <1>1, <1>10, <1>13, <1>14, <1>15, <1>16 DEF Sheddable

\* A new world is sound.
LEMMA NewSound == Sound(NewWorld)
<1>1. /\ NewWorld.shed = {} /\ NewWorld.radar_allowed = TRUE
      /\ NewWorld.xpdr_allowed = TRUE /\ NewWorld.nbl_allowed = FALSE
      /\ NewWorld.overcurrent = FALSE /\ NewWorld.pdu_limit = 0 /\ NewWorld.rcs_pct = 0
  BY DEF NewWorld
<1>2. ~(0 > 0) /\ "radar" \notin {} /\ "transponder" \notin {}
  OBVIOUS
<1>3. /\ NewWorld.radar_allowed = ("radar" \notin NewWorld.shed)
      /\ NewWorld.xpdr_allowed = ("transponder" \notin NewWorld.shed)
  BY <1>1, <1>2, Zenon
<1>4. ~(NewWorld.pdu_limit > 0) /\ ~(NewWorld.rcs_pct > 0)
  BY <1>1, <1>2, Zenon
<1>5. ~NewWorld.nbl_allowed /\ ~NewWorld.overcurrent /\ \A l \in NewWorld.shed : FALSE
  BY <1>1, Zenon
<1> QED
  BY <1>3, <1>4, <1>5, Zenon DEF Sound

\* A world that differs in none of the fields Sound reads is as sound.
LEMMA SameSound ==
  ASSUME NEW w, NEW v, Sound(w),
         v.shed = w.shed, v.loads = w.loads, v.overcurrent = w.overcurrent,
         v.radar_allowed = w.radar_allowed, v.xpdr_allowed = w.xpdr_allowed,
         v.nbl_allowed = w.nbl_allowed, v.pdu_limit = w.pdu_limit,
         v.rcs_pct > 0 => v.rcs_left > 0
  PROVE  Sound(v)
  BY DEF Sound

\* Connecting or opening the dock bridge.
LEMMA DockConnectedSound ==
  ASSUME NEW w \in World, Sound(w), NEW on \in BOOLEAN
  PROVE  LET v == SetDockConnected(w, on) IN
         v \in World /\ Sound(v) /\ v.radar_allowed = w.radar_allowed
<1> DEFINE v == [w EXCEPT !.dock_connected = on, !.dock_since = 0]
<1>1. CASE on = w.dock_connected
  BY <1>1 DEF SetDockConnected
<1>2. CASE on # w.dock_connected
  <2>1. SetDockConnected(w, on) = v
    BY <1>2 DEF SetDockConnected
  <2>2. v \in World
    <3>1. 0 \in 0..SoftStart
      BY Consts
    <3> DEFINE x == 0
    <3> HIDE DEF x
    <3>2. [w EXCEPT !.dock_connected = on, !.dock_since = x] \in World
      BY <3>1 DEF World, x
    <3> QED
      BY <3>2 DEF x
  <2>3. /\ v.shed = w.shed /\ v.loads = w.loads /\ v.overcurrent = w.overcurrent
        /\ v.radar_allowed = w.radar_allowed /\ v.xpdr_allowed = w.xpdr_allowed
        /\ v.nbl_allowed = w.nbl_allowed /\ v.pdu_limit = w.pdu_limit
        /\ v.rcs_pct = w.rcs_pct /\ v.rcs_left = w.rcs_left
    BY DEF World
  <2> HIDE DEF v
  <2>4. v.rcs_pct > 0 => v.rcs_left > 0
    BY <2>3 DEF Sound
  <2>5. Sound(v)
    BY <2>3, <2>4, SameSound
  <2> QED
    BY <2>1, <2>2, <2>3, <2>5
<1> QED
  BY <1>1, <1>2

\* A mechanical release opens the power bridge too.
LEMMA DockedSound ==
  ASSUME NEW w \in World, Sound(w), NEW on \in BOOLEAN
  PROVE  LET v == SetDocked(w, on) IN
         v \in World /\ Sound(v) /\ v.radar_allowed = w.radar_allowed
<1> DEFINE v == [w EXCEPT !.docked = on]
<1>1. v \in World
  BY DEF World
<1>2. /\ v.shed = w.shed /\ v.loads = w.loads /\ v.overcurrent = w.overcurrent
      /\ v.radar_allowed = w.radar_allowed /\ v.xpdr_allowed = w.xpdr_allowed
      /\ v.nbl_allowed = w.nbl_allowed /\ v.pdu_limit = w.pdu_limit
      /\ v.rcs_pct = w.rcs_pct /\ v.rcs_left = w.rcs_left
  BY DEF World
<1>3. SetDocked(w, on) = IF on THEN v ELSE SetDockConnected(v, FALSE)
  BY DEF SetDocked
<1> HIDE DEF v
<1>4. v.rcs_pct > 0 => v.rcs_left > 0
  BY <1>2 DEF Sound
<1>5. Sound(v)
  BY <1>2, <1>4, SameSound
<1>6. /\ SetDockConnected(v, FALSE) \in World
      /\ Sound(SetDockConnected(v, FALSE))
      /\ SetDockConnected(v, FALSE).radar_allowed = v.radar_allowed
  BY <1>1, <1>5, DockConnectedSound
<1> QED
  BY <1>1, <1>2, <1>3, <1>5, <1>6

\* A burst link or velocity command.
LEMMA SettersSound ==
  ASSUME NEW w \in World, Sound(w), NEW on \in BOOLEAN, NEW max \in NblMaxes,
         NEW x \in 0..1, NEW v,
         \/ v = [w EXCEPT !.nbl_active = on]
         \/ v = [w EXCEPT !.nbl_max = max]
         \/ v = [w EXCEPT !.speed = x]
  PROVE  v \in World /\ Sound(v) /\ v.radar_allowed = w.radar_allowed
<1>1. v \in World
  BY DEF World
<1>2. /\ v.shed = w.shed /\ v.loads = w.loads /\ v.overcurrent = w.overcurrent
      /\ v.radar_allowed = w.radar_allowed /\ v.xpdr_allowed = w.xpdr_allowed
      /\ v.nbl_allowed = w.nbl_allowed /\ v.pdu_limit = w.pdu_limit
      /\ v.rcs_pct = w.rcs_pct /\ v.rcs_left = w.rcs_left
  BY DEF World
<1>3. v.rcs_pct > 0 => v.rcs_left > 0
  BY <1>2 DEF Sound
<1> QED
  BY <1>1, <1>2, <1>3, SameSound

\* A thruster command stores a percentage only together with a duration.
LEMMA RcsSound ==
  ASSUME NEW w \in World, Sound(w),
         NEW axis \in Axes, NEW pct \in 0..MaxPct, NEW d \in 0..MaxBurn
  PROVE  LET v == SetRcs(w, axis, pct, d) IN
         v \in World /\ Sound(v) /\ v.radar_allowed = w.radar_allowed
<1> DEFINE stop == axis = "none" \/ pct = 0 \/ d = 0
           a == IF stop THEN "none" ELSE axis
           p == IF stop THEN 0 ELSE pct
           l == IF stop THEN 0 ELSE d
           v == [w EXCEPT !.rcs_axis = a, !.rcs_pct = p, !.rcs_left = l]
<1>1. a \in Axes /\ p \in 0..MaxPct /\ l \in 0..MaxBurn /\ (p > 0 => l > 0)
  BY Consts DEF Axes
<1>2. SetRcs(w, axis, pct, d) = v
  BY DEF SetRcs
<1> HIDE DEF stop, a, p, l
<1>3. v \in World
  BY <1>1 DEF World
<1>4. /\ v.shed = w.shed /\ v.loads = w.loads /\ v.overcurrent = w.overcurrent
      /\ v.radar_allowed = w.radar_allowed /\ v.xpdr_allowed = w.xpdr_allowed
      /\ v.nbl_allowed = w.nbl_allowed /\ v.pdu_limit = w.pdu_limit
      /\ v.rcs_pct = p /\ v.rcs_left = l
  BY DEF World
<1> HIDE DEF v
<1>5. Sound(v)
  BY <1>1, <1>4, SameSound
<1> QED
  BY <1>2, <1>3, <1>4, <1>5

-----------------------------------------------------------------------------
(* The service.                                                            *)

\* While the radar is allowed the newest frame is of the world as it is: this
\* is what makes the frame a pause freezes the right one.
FrameFresh == RadarEnabled /\ world.radar_allowed /\ frame # NoFrame => ~frame_stale

IInv == TypeOK /\ Sound(world) /\ OnePicture /\ FrameFresh

\* The three sentinels differ from every frame.
LEMMA Sentinels == NoFrame \notin Frames /\ Other \notin Frames /\ Other # NoFrame
<1>1. NoFrame.mode = "none" /\ Other.mode = "other sensor"
  BY DEF NoFrame, Other
<1>2. \A f \in Frames : f.mode \in XpdrModes
  BY DEF Frames
<1> QED
  BY <1>1, <1>2 DEF XpdrModes

\* The rotation has a first slot.
LEMMA LenType == Len(SensorCycle) \in Nat /\ 1 \in 1..Len(SensorCycle)
<1>1. Len(SensorCycle) \in Nat
  BY ServiceAssumption
<1> QED
  BY <1>1, ServiceAssumption

\* The service starts in its invariant.
LEMMA InitIInv == Init => IInv
<1> SUFFICES ASSUME Init PROVE IInv
  OBVIOUS
<1>1. TypeOK
  <2>1. index \in 1..Len(SensorCycle)
    BY ServiceAssumption, LenType DEF Init
  <2>2. commands \in 0..MaxCommands
    BY ServiceAssumption DEF Init
  <2>3. xpdr \in XpdrModes
    BY DEF Init, XpdrModes
  <2> QED
    BY <2>1, <2>2, <2>3, NewWorldType DEF Init, TypeOK, Heard
<1>2. Sound(world)
  BY NewSound DEF Init
<1>3. OnePicture /\ FrameFresh
  BY Sentinels DEF Init, OnePicture, FrameFresh
<1> QED
  BY <1>1, <1>2, <1>3 DEF IInv

\* A generated frame is a frame.
LEMMA FrameType ==
  ASSUME TypeOK, NEW w \in World
  PROVE  GenerateFrame(w) \in Frames
<1>1. XpdrActive(w) \in BOOLEAN
  BY Zenon DEF XpdrActive
<1>2. xpdr \in XpdrModes
  BY DEF TypeOK
<1> QED
  BY <1>1, <1>2 DEF GenerateFrame, Frames

\* A tick of a simulation that runs.
LEMMA TickLive ==
  ASSUME IInv, Live, NEW env \in Env, Tick(env)
  PROVE  IInv'
<1>1. /\ world \in World /\ Sound(world) /\ TypeOK
  BY DEF IInv, TypeOK
<1>2. LoadInputs \in Inputs
  <2>1. XpdrActive(world) \in BOOLEAN
    BY Zenon DEF XpdrActive
  <2> QED
    BY <2>1, ServiceAssumption DEF LoadInputs, Inputs
<1>3. world' = Step(world, LoadInputs, env)
  BY DEF Tick, MoveWorld
<1>4. world.rcs_pct > 0 => world.rcs_left > 0
  BY <1>1 DEF Sound
<1>5. world' \in World /\ Sound(world')
  BY <1>1, <1>2, <1>3, <1>4, StepSound
<1>6. /\ running' = running /\ paused' = paused /\ xpdr' = xpdr /\ commands' = commands
      /\ running /\ ~paused
      /\ reading' = SensorData(world') /\ index' = (index % Len(SensorCycle)) + 1
      /\ IF RadarEnabled /\ world'.radar_allowed
         THEN frame' = GenerateFrame(world') /\ frame_stale' = FALSE
         ELSE frame' = frame /\ frame_stale' = TRUE
  BY DEF Tick, Live
<1>7. GenerateFrame(world') \in Frames
  BY <1>1, <1>5, FrameType
<1>8. \/ reading' = Other
      \/ reading' = GenerateFrame(world') /\ RadarEnabled /\ world'.radar_allowed
  BY <1>6 DEF SensorData, ExternalRead
<1>9. trip_last' \in BOOLEAN /\ heard' \in Heard
  <2>1. world'.trip["core"] \in BOOLEAN
    BY <1>5, WorldFields
  <2>2. trip_last \in BOOLEAN /\ heard \in Heard
    BY <1>1 DEF TypeOK
  <2> QED
    BY <2>1, <2>2 DEF Tick, TripEdge, Publish, Heard, news
<1>10. index' \in 1..Len(SensorCycle)
  BY <1>1, <1>6, ServiceAssumption DEF TypeOK
<1>11. TypeOK'
  BY <1>1, <1>5, <1>6, <1>7, <1>8, <1>9, <1>10 DEF TypeOK
<1>12. OnePicture' /\ FrameFresh'
  BY <1>6, <1>7, <1>8, Sentinels DEF OnePicture, FrameFresh, ExternalRead
<1> QED
  BY <1>5, <1>11, <1>12 DEF IInv

\* A tick of a simulation that stands still serves the readers all the same.
LEMMA TickStill ==
  ASSUME IInv, ~Live, NEW env, Tick(env)
  PROVE  IInv'
<1>1. world \in World /\ Sound(world) /\ TypeOK /\ OnePicture /\ FrameFresh
  BY DEF IInv, TypeOK
<1>2. world' = world
  BY DEF Tick, MoveWorld
<1>3. /\ running' = running /\ paused' = paused /\ xpdr' = xpdr /\ commands' = commands
      /\ reading' = SensorData(world) /\ index' = (index % Len(SensorCycle)) + 1
      /\ frame' = frame /\ frame_stale' = (frame_stale \/ Live)
  BY <1>2 DEF Tick, Live
<1>4. frame_stale' = frame_stale
  BY <1>1, <1>3 DEF TypeOK
<1>5. \/ reading' = Other
      \/ reading' = frame /\ ExternalRead(world) = frame /\ frame # NoFrame /\ paused
  BY <1>3 DEF SensorData, ExternalRead, Live
<1>6. trip_last' \in BOOLEAN /\ heard' \in Heard
  <2>1. world'.trip["core"] \in BOOLEAN
    BY <1>1, <1>2, WorldFields
  <2>2. trip_last \in BOOLEAN /\ heard \in Heard
    BY <1>1 DEF TypeOK
  <2> QED
    BY <2>1, <2>2 DEF Tick, TripEdge, Publish, Heard, news
<1>7. index' \in 1..Len(SensorCycle)
  BY <1>1, <1>3, ServiceAssumption DEF TypeOK
<1>8. reading' \in Frames \cup {Other, NoFrame}
  BY <1>1, <1>5 DEF TypeOK
<1>9. TypeOK'
  BY <1>1, <1>2, <1>3, <1>4, <1>6, <1>7, <1>8 DEF TypeOK
<1>10. OnePicture'
  BY <1>1, <1>2, <1>3, <1>4, <1>5, Sentinels DEF OnePicture, ExternalRead
<1>11. FrameFresh' /\ Sound(world')
  BY <1>1, <1>2, <1>3, <1>4 DEF FrameFresh
<1> QED
  BY <1>9, <1>10, <1>11 DEF IInv

\* A setter's command: a sound world that allows the radar as before.
LEMMA SetWorldIInv ==
  ASSUME IInv, NEW w \in World, Sound(w), w.radar_allowed = world.radar_allowed, SetWorld(w)
  PROVE  IInv'
<1>1. commands' \in 0..MaxCommands
  BY ServiceAssumption DEF SetWorld, Command, IInv, TypeOK
<1>2. TypeOK'
  BY <1>1 DEF SetWorld, service, readers, news, IInv, TypeOK
<1>3. OnePicture' /\ FrameFresh'
  BY DEF SetWorld, service, readers, news, IInv, OnePicture, FrameFresh, ExternalRead
<1>4. Sound(world')
  BY DEF SetWorld
<1> QED
  BY <1>2, <1>3, <1>4 DEF IInv

\* The operator's commands.
LEMMA OperatorIInv == IInv /\ Operator => IInv'
<1> SUFFICES ASSUME IInv, Operator PROVE IInv'
  OBVIOUS
<1>1. world \in World /\ Sound(world) /\ TypeOK /\ OnePicture /\ FrameFresh
  BY DEF IInv, TypeOK
<1>2. Command => commands' \in 0..MaxCommands
  BY <1>1, ServiceAssumption DEF Command, TypeOK
<1>3. CASE SimStart
  <2>1. TypeOK'
    BY <1>1, <1>2, <1>3 DEF SimStart, readers, news, TypeOK
  <2>2. OnePicture' /\ FrameFresh' /\ Sound(world')
    BY <1>1, <1>3 DEF SimStart, readers, news, OnePicture, FrameFresh
  <2> QED
    BY <2>1, <2>2 DEF IInv
<1>4. CASE SimPause
  <2>1. TypeOK'
    BY <1>1, <1>2, <1>4 DEF SimPause, readers, news, TypeOK
  <2>2. OnePicture'
    BY <1>1, <1>4 DEF SimPause, readers, OnePicture, FrameFresh, ExternalRead
  <2>3. FrameFresh' /\ Sound(world')
    BY <1>1, <1>4 DEF SimPause, readers, FrameFresh
  <2> QED
    BY <2>1, <2>2, <2>3 DEF IInv
<1>5. CASE SimStop
  <2>1. TypeOK'
    BY <1>1, <1>2, <1>5 DEF SimStop, readers, news, TypeOK
  <2>2. OnePicture' /\ FrameFresh' /\ Sound(world')
    BY <1>1, <1>5 DEF SimStop, readers, news, OnePicture, FrameFresh
  <2> QED
    BY <2>1, <2>2 DEF IInv
<1>6. CASE SimReset
  <2>1. NewWorld.trip["core"] \in BOOLEAN
    BY NewWorldType, WorldFields
  <2>2. TypeOK'
    <3>1. index' \in 1..Len(SensorCycle)
      BY <1>6, ServiceAssumption, LenType DEF SimReset
    <3> QED
      BY <1>1, <1>2, <1>6, <2>1, <3>1, NewWorldType DEF SimReset, TypeOK
  <2>3. OnePicture' /\ FrameFresh' /\ Sound(world')
    BY <1>6, NewSound, Sentinels DEF SimReset, OnePicture, FrameFresh
  <2> QED
    BY <2>2, <2>3 DEF IInv
<1>7. ASSUME NEW mode \in XpdrModes, SetXpdr(mode) PROVE IInv'
  <2>1. TypeOK'
    BY <1>1, <1>2, <1>7 DEF SetXpdr, readers, news, TypeOK
  <2>2. OnePicture'
    BY <1>1, <1>7 DEF SetXpdr, readers, OnePicture, ExternalRead, GenerateFrame
  <2>3. FrameFresh' /\ Sound(world')
    BY <1>1, <1>7 DEF SetXpdr, readers, FrameFresh
  <2> QED
    BY <2>1, <2>2, <2>3 DEF IInv
<1>8. ASSUME NEW on \in BOOLEAN, DockBridge(on) PROVE IInv'
  BY <1>1, <1>8, DockConnectedSound, SetWorldIInv DEF DockBridge
<1>9. ASSUME NEW on \in BOOLEAN, Dock(on) PROVE IInv'
  BY <1>1, <1>9, DockedSound, SetWorldIInv DEF Dock
<1>10. ASSUME NEW on \in BOOLEAN, NblActive(on) PROVE IInv'
  <2> DEFINE v == [world EXCEPT !.nbl_active = on]
  <2>1. v \in World /\ Sound(v) /\ v.radar_allowed = world.radar_allowed
    <3>1. 0 \in 0..1 /\ NblMaxes # {}
      BY Consts
    <3> QED  BY <1>1, <1>10, <3>1, SettersSound
  <2> QED
    BY <1>10, <2>1, SetWorldIInv DEF NblActive
<1>11. ASSUME NEW max \in NblMaxes, NblSetMax(max) PROVE IInv'
  <2> DEFINE v == [world EXCEPT !.nbl_max = max]
  <2>1. v \in World /\ Sound(v) /\ v.radar_allowed = world.radar_allowed
    <3>1. 0 \in 0..1 /\ TRUE \in BOOLEAN
      OBVIOUS
    <3> QED  BY <1>1, <1>11, <3>1, SettersSound
  <2> QED
    BY <1>11, <2>1, SetWorldIInv DEF NblSetMax
<1>12. ASSUME NEW axis \in Axes, NEW pct \in 0..MaxPct, NEW d \in 0..MaxBurn,
               RcsFire(axis, pct, d)
       PROVE  IInv'
  BY <1>1, <1>12, RcsSound, SetWorldIInv DEF RcsFire
<1>13. CASE RcsStop
  <2>1. "none" \in Axes /\ 0 \in 0..MaxPct /\ 0 \in 0..MaxBurn
    BY Consts DEF Axes
  <2> QED
    BY <1>1, <1>13, <2>1, RcsSound, SetWorldIInv DEF RcsStop
<1>14. ASSUME NEW x \in 0..1, SetVelocity(x) PROVE IInv'
  <2> DEFINE v == [world EXCEPT !.speed = x]
  <2>1. v \in World /\ Sound(v) /\ v.radar_allowed = world.radar_allowed
    <3>1. TRUE \in BOOLEAN /\ NblMaxes # {}
      BY Consts
    <3> QED  BY <1>1, <1>14, <3>1, SettersSound
  <2> QED
    BY <1>14, <2>1, SetWorldIInv DEF SetVelocity
<1> QED
  BY <1>3, <1>4, <1>5, <1>6, <1>7, <1>8, <1>9, <1>10, <1>11, <1>12, <1>13, <1>14
     DEF Operator

\* Every step of the service keeps its invariant.
LEMMA NextIInv == IInv /\ [Next]_vars => IInv'
<1> SUFFICES ASSUME IInv, [Next]_vars PROVE IInv'
  OBVIOUS
<1>1. ASSUME NEW env \in TickEnv, Tick(env) PROVE IInv'
  <2>1. Live => env \in Env
    BY <1>1 DEF TickEnv
  <2> QED
    BY <1>1, <2>1, TickLive, TickStill
<1>2. CASE GetSensorData
  <2>1. TypeOK'
    BY <1>2 DEF GetSensorData, IInv, TypeOK
  <2>2. OnePicture'
    BY <1>2, Sentinels DEF GetSensorData, IInv, OnePicture, ExternalRead
  <2>3. FrameFresh' /\ Sound(world')
    BY <1>2 DEF GetSensorData, IInv, FrameFresh
  <2> QED
    BY <2>1, <2>2, <2>3 DEF IInv
<1>3. CASE Operator
  BY <1>3, OperatorIInv
<1>4. CASE UNCHANGED vars
  <2>1. TypeOK'
    BY <1>4 DEF vars, IInv, TypeOK
  <2>2. OnePicture'
    BY <1>4 DEF vars, IInv, OnePicture, ExternalRead, GenerateFrame, XpdrActive
  <2>3. FrameFresh' /\ Sound(world')
    BY <1>4 DEF vars, IInv, FrameFresh
  <2> QED
    BY <2>1, <2>2, <2>3 DEF IInv
<1> QED
  BY <1>1, <1>2, <1>3, <1>4 DEF Next, TickAny

\* The service's invariant holds in every configuration of the ship.
THEOREM Invariance == Spec => []IInv
  BY InitIInv, NextIInv, PTL DEF Spec

\* Every reachable state of the simulation service is typed: charge, tank,
\* temperatures and currents stay in their ranges.
THEOREM TypeCorrect == Spec => []TypeOK
<1>1. IInv => TypeOK
  BY DEF IInv
<1> QED
  BY <1>1, Invariance, PTL

\* A shed load draws nothing and the permissions say what the shed list says.
THEOREM ShedLoadsOff == Spec => []ShedDrawsNothing
<1>1. IInv => ShedDrawsNothing
  BY DEF IInv, Sound, ShedDrawsNothing
<1> QED
  BY <1>1, Invariance, PTL

\* The PDU declares a fault only when there is nothing left to shed.
THEOREM FaultLast == Spec => []OvercurrentIsLastResort
<1>1. IInv => OvercurrentIsLastResort
  BY DEF IInv, Sound, OvercurrentIsLastResort
<1> QED
  BY <1>1, Invariance, PTL

\* A thruster command that is on has time left.
THEOREM BurnsBounded == Spec => []RcsBounded
<1>1. IInv => RcsBounded
  BY DEF IInv, Sound, RcsBounded
<1> QED
  BY <1>1, Invariance, PTL

\* All readers of the radar see one picture.
THEOREM PictureIsOne == Spec => []OnePicture
<1>1. IInv => OnePicture
  BY DEF IInv
<1> QED
  BY <1>1, Invariance, PTL

\* A thermal trip takes effect in the next world step.
THEOREM TripsShed == Spec => TripShedsNextStep
<1> DEFINE A == WorldMoves =>
                /\ world.trip["pdu"] => \A l \in Sheddable : world'.loads[l] = 0
                /\ world.trip["core"] => world'.loads["nbl"] = 0
<1>1. IInv /\ [Next]_vars => [A]_vars
  <2> SUFFICES ASSUME IInv, Next, WorldMoves PROVE A
    OBVIOUS
  <2>1. PICK env \in TickEnv : Tick(env)
    <3>1. ~GetSensorData
      BY DEF WorldMoves, GetSensorData
    <3>2. ~Operator
      BY DEF WorldMoves, Operator, SimStart, SimPause, SimStop, SimReset, SetXpdr,
             DockBridge, Dock, NblActive, NblSetMax, RcsFire, RcsStop, SetVelocity,
             SetWorld, readers
    <3> QED
      BY <3>1, <3>2 DEF Next, TickAny
  <2>2. Live /\ env \in Env
    BY DEF WorldMoves, TickEnv
  <2>3. world' = Step(world, LoadInputs, env)
    BY <2>1, <2>2 DEF Tick, MoveWorld
  <2>4. LoadInputs \in Inputs
    <3>1. XpdrActive(world) \in BOOLEAN
      BY Zenon DEF XpdrActive
    <3> QED
      BY <3>1, ServiceAssumption DEF LoadInputs, Inputs
  <2>5. world \in World /\ (world.rcs_pct > 0 => world.rcs_left > 0)
    BY DEF IInv, TypeOK, Sound
  <2> QED
    BY <2>2, <2>3, <2>4, <2>5, StepSound
<1> QED
  BY <1>1, Invariance, PTL DEF Spec, TripShedsNextStep
=============================================================================
