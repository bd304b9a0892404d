----------------------------- MODULE WorldModel -----------------------------
(***************************************************************************)
(* The simulated ship of q_sim_service (core/world_model.py): one world    *)
(* step of the power, docking, propulsion and thermal planes, and the      *)
(* setters the operator's commands call.  A world is a record; a setter    *)
(* and a stage of step() is an operator from worlds to worlds, in the      *)
(* order step() runs them.                                                 *)
(*                                                                         *)
(* Watts, degrees, percent and seconds are small naturals; a step lasts    *)
(* one time unit.  What floating-point physics feeds into the control -    *)
(* processor load, valve phase, how far a thermal node moves - is chosen   *)
(* by the environment of the step (env).                                   *)
(***************************************************************************)
EXTENDS Naturals, FiniteSets

CONSTANTS
    SocMax, SocInit,                     \* battery levels, initial level
    SocShedLow, SocShedHigh,             \* soc_shed_low_pct, _high_pct
    BaseOut, BaseIn,                     \* base_power_out_w, base_power_in_w
    MotionW, RadarW, XpdrW, RcsW,        \* draw of each load per unit
    CpuLoads,                            \* what the processor may draw
    NblMaxes, NblSocMin, NblTempMax,     \* burst link limits
    MaxBusA, BusVMin, BusVSpan,          \* bus voltage and PDU current limit
    DockW, SoftStart,                    \* dock bridge power and its ramp
    CapMax, CapRate,                     \* supercapacitor energy and rate
    CapInit, DockInit, NblInit,          \* supercap_soc_pct_init, dock_connected_init,
                                         \* nbl_active_init
    ChargeMax, DischargeMax,             \* battery_max_(dis)charge_w, 0: none
    TempMax, TripC, HysC,                \* thermal nodes
    Propellant, MaxPct, MaxBurn          \* RCS tank, command size, duration

ASSUME WorldAssumption ==
    /\ {SocMax, SocInit, SocShedLow, SocShedHigh, BaseOut, BaseIn, MotionW, RadarW,
        XpdrW, RcsW, NblSocMin, NblTempMax, MaxBusA, BusVMin, BusVSpan,
        DockW, SoftStart, CapMax, CapRate, CapInit, ChargeMax, DischargeMax, TempMax,
        TripC, HysC, Propellant, MaxPct, MaxBurn} \subseteq Nat
    /\ NblMaxes \subseteq Nat /\ NblMaxes # {}
    /\ CpuLoads \subseteq Nat /\ CpuLoads # {}
    /\ SocMax > 0 /\ SocInit <= SocMax /\ SoftStart > 0
    /\ CapInit <= CapMax /\ DockInit \in BOOLEAN /\ NblInit \in BOOLEAN

Nodes == {"core", "pdu"}
Loads == {"motion", "mcqpu", "radar", "transponder", "nbl", "rcs"}
Axes == {"none", "grouped", "bare"}   \* with a thruster group, without one
Reasons == {"low_soc", "thermal_overheat", "nbl_budget", "pdu_overcurrent"}

World ==
    [soc: 0..SocMax, soc_shed: BOOLEAN, cap: 0..CapMax,
     temp: [Nodes -> 0..TempMax], trip: [Nodes -> BOOLEAN],
     speed: 0..1,
     nbl_active: BOOLEAN, nbl_max: NblMaxes, nbl_allowed: BOOLEAN,
     dock_connected: BOOLEAN, dock_since: 0..SoftStart,
     docked: BOOLEAN,
     rcs_axis: Axes, rcs_pct: 0..MaxPct, rcs_left: 0..MaxBurn,
     propellant: 0..Propellant,
     fuel_rate: 0..MaxPct, rcs_active: BOOLEAN,
     radar_allowed: BOOLEAN, xpdr_allowed: BOOLEAN,
     loads: [Loads -> Nat], shed: SUBSET Loads, reasons: SUBSET Reasons,
     throttled: SUBSET Loads, overcurrent: BOOLEAN,
     pdu_limit: Nat, power_out: Nat]

\* What the rest of the service tells a step (set_runtime_load_inputs).
Inputs == [radar_enabled: BOOLEAN, transponder_active: BOOLEAN]

\* What the physics chooses: processor load, valve phase, node temperatures.
Env == [cpu: CpuLoads, open: 0..1, temp: [Nodes -> 0..TempMax]]

\* WorldModel(bot_config=...): the world a (re)start begins with.
NewWorld ==
    [soc |-> SocInit, soc_shed |-> FALSE, cap |-> CapInit,
     temp |-> [n \in Nodes |-> 0], trip |-> [n \in Nodes |-> FALSE],
     speed |-> 0,
     nbl_active |-> NblInit, nbl_max |-> CHOOSE m \in NblMaxes : TRUE,
     nbl_allowed |-> FALSE,
     dock_connected |-> DockInit, dock_since |-> 0, docked |-> FALSE,
     rcs_axis |-> "none", rcs_pct |-> 0, rcs_left |-> 0, propellant |-> Propellant,
     fuel_rate |-> 0, rcs_active |-> FALSE,
     radar_allowed |-> TRUE, xpdr_allowed |-> TRUE,
     loads |-> [l \in Loads |-> 0], shed |-> {}, reasons |-> {},
     throttled |-> {}, overcurrent |-> FALSE,
     pdu_limit |-> 0, power_out |-> 0]

Least(m, n) == IF m <= n THEN m ELSE n
Minus(m, n) == IF n <= m THEN m - n ELSE 0
Capped(m, max) == IF max = 0 THEN m ELSE Least(m, max)
-----------------------------------------------------------------------------
(* Setters.                                                                *)

\* set_dock_connected: only a change restarts the soft-start ramp.
SetDockConnected(w, on) ==
    IF on = w.dock_connected THEN w
    ELSE [w EXCEPT !.dock_connected = on, !.dock_since = 0]

\* set_docking_connected: a mechanical release also opens the power bridge.
SetDocked(w, on) ==
    LET d == [w EXCEPT !.docked = on]
    IN  IF on THEN d ELSE SetDockConnected(d, FALSE)

\* Mutant: a duration of zero is stored like any other.
SetRcs_AnyDuration(w, axis, pct, duration) ==
    [w EXCEPT !.rcs_axis = axis, !.rcs_pct = pct, !.rcs_left = duration]

\* set_rcs_command: no axis, no percentage or no duration is a stop.  An axis
\* without a thruster group is accepted like any other.
SetRcs(w, axis, pct, duration) ==
    IF axis = "none" \/ pct = 0 \/ duration = 0
    THEN [w EXCEPT !.rcs_axis = "none", !.rcs_pct = 0, !.rcs_left = 0]
    ELSE [w EXCEPT !.rcs_axis = axis, !.rcs_pct = pct, !.rcs_left = duration]
-----------------------------------------------------------------------------
(* Stages of step().                                                       *)

\* SoC hysteresis, then the flags and shed lists it and the thermal trips
\* of the step before give.
SocShed(w) == /\ w.soc_shed \/ w.soc <= SocShedLow
              /\ w.soc < SocShedHigh

\* Mutant: the thermal trip of the PDU is not looked at.
Supervise_ColdPdu(w) ==
    LET low == SocShed(w)
    IN  [w EXCEPT
            !.soc_shed = low,
            !.radar_allowed = ~low,
            !.xpdr_allowed = ~low,
            !.shed = IF low THEN {"radar", "transponder"} ELSE {},
            !.reasons = IF low THEN {"low_soc"} ELSE {},
            !.throttled = {},
            !.overcurrent = FALSE,
            !.pdu_limit = MaxBusA * (BusVMin + (BusVSpan * w.soc) \div SocMax)]

Supervise(w) ==
    LET low == SocShed(w)
        hot == w.trip["pdu"]
    IN  [w EXCEPT
            !.soc_shed = low,
            !.radar_allowed = ~low /\ ~hot,
            !.xpdr_allowed = ~low /\ ~hot,
            !.shed = (IF low \/ hot THEN {"radar", "transponder"} ELSE {})
                       \cup (IF w.trip["core"] THEN {"nbl"} ELSE {}),
            !.reasons = (IF low THEN {"low_soc"} ELSE {})
                          \cup (IF hot \/ w.trip["core"]
                                THEN {"thermal_overheat"} ELSE {}),
            !.throttled = {},
            !.overcurrent = FALSE,
            !.pdu_limit = MaxBusA * (BusVMin + (BusVSpan * w.soc) \div SocMax)]

\* A command some thruster carries out.
RcsFires(w) == w.rcs_axis = "grouped" /\ w.rcs_pct > 0

\* Mutant: an empty tank leaves the command on.
RcsStep_DryStaysOn(w) ==
    IF ~RcsFires(w) \/ w.propellant = 0 THEN [w EXCEPT !.rcs_active = FALSE]
    ELSE LET ends == w.rcs_left = 1
         IN  [w EXCEPT
                !.rcs_active = TRUE,
                !.propellant = Minus(w.propellant, w.rcs_pct),
                !.rcs_left = Minus(w.rcs_left, 1),
                !.rcs_pct = IF ends THEN 0 ELSE w.rcs_pct,
                !.fuel_rate = IF ends THEN 0 ELSE w.rcs_pct]

\* _rcs_step: burn one time unit of the command that is left.  A command for an
\* axis without a group stays as it is, its time too.
RcsStep(w) ==
    IF ~RcsFires(w) THEN [w EXCEPT !.rcs_active = FALSE]
    ELSE IF w.propellant = 0
    THEN [w EXCEPT !.rcs_active = FALSE, !.rcs_pct = 0, !.fuel_rate = 0]
    ELSE LET ends == w.rcs_left = 1
             dry  == w.rcs_pct >= w.propellant
         IN  [w EXCEPT
                !.rcs_active = TRUE,
                !.propellant = Minus(w.propellant, w.rcs_pct),
                !.rcs_left = Minus(w.rcs_left, 1),
                !.rcs_pct = IF ends \/ dry THEN 0 ELSE w.rcs_pct,
                !.fuel_rate = IF ends THEN 0 ELSE w.rcs_pct]

\* The burst link is allowed by charge, core temperature and both trips.
NblPermitted(w) ==
    /\ w.nbl_active
    /\ w.soc >= NblSocMin
    /\ w.temp["core"] <= NblTempMax
    /\ ~w.trip["core"] /\ ~w.trip["pdu"]

\* The demand of each load before the PDU intervenes; before is the world
\* _rcs_step started from.
Demand(w, before, in, env) ==
    LET drawn == [motion      |-> w.speed * MotionW,
                  mcqpu       |-> env.cpu,
                  radar       |-> IF in.radar_enabled /\ w.radar_allowed
                                  THEN RadarW ELSE 0,
                  transponder |-> IF in.transponder_active /\ w.xpdr_allowed
                                  THEN XpdrW ELSE 0,
                  nbl         |-> IF NblPermitted(w) THEN w.nbl_max ELSE 0,
                  rcs         |-> IF w.rcs_active
                                  THEN before.rcs_pct * RcsW * env.open ELSE 0]
        barred == w.nbl_active /\ ~NblPermitted(w)
        why    == IF w.trip["core"] \/ w.trip["pdu"]
                  THEN "thermal_overheat" ELSE "nbl_budget"
    IN  [w EXCEPT
            !.loads = drawn,
            !.nbl_allowed = NblPermitted(w),
            !.shed = IF barred THEN w.shed \cup {"nbl"} ELSE w.shed,
            !.reasons = IF barred THEN w.reasons \cup {why} ELSE w.reasons]

\* Draw of the bus without the supercapacitor (power_out_wo_supercap).
Total(l) == BaseOut + l["motion"] + l["mcqpu"] + l["radar"]
                    + l["transponder"] + l["nbl"] + l["rcs"]

\* Dock bridge: the ramp goes on while connected; the watts it lends.
DockStep(w) ==
    IF w.dock_connected
    THEN [w EXCEPT !.dock_since = Least(w.dock_since + 1, SoftStart)]
    ELSE [w EXCEPT !.dock_since = 0]

DockPower(w) ==
    IF w.dock_connected THEN (DockW * w.dock_since) \div SoftStart ELSE 0

\* PDU over its limit: every sheddable load goes, then motion is throttled,
\* then the thrusters, and what is still too much is a fault.
Sheddable == {"nbl", "radar", "transponder"}

Throttle(l, load, limit) ==
    [l EXCEPT ![load] = Minus(@, Minus(Total(l), limit))]

\* Mutant: the fault is declared before the thrusters are throttled.
Pdu_FaultFirst(w) ==
    LET over  == w.pdu_limit > 0 /\ Total(w.loads) > w.pdu_limit
        gone  == {l \in Sheddable : w.loads[l] > 0}
        shed  == [l \in Loads |-> IF l \in gone THEN 0 ELSE w.loads[l]]
        slow  == Throttle(shed, "motion", w.pdu_limit)
    IN  IF ~over THEN w
        ELSE [w EXCEPT
                !.loads = slow,
                !.shed = w.shed \cup gone,
                !.radar_allowed = w.radar_allowed /\ "radar" \notin gone,
                !.xpdr_allowed = w.xpdr_allowed /\ "transponder" \notin gone,
                !.overcurrent = Total(slow) > w.pdu_limit]

\* Mutant: an overcurrent cuts the loads and leaves the permissions.
Pdu_KeepsFlags(w) ==
    LET over == w.pdu_limit > 0 /\ Total(w.loads) > w.pdu_limit
        gone == {l \in Sheddable : w.loads[l] > 0}
        shed == [l \in Loads |-> IF l \in gone THEN 0 ELSE w.loads[l]]
    IN  IF ~over THEN w
        ELSE [w EXCEPT !.loads = shed, !.shed = w.shed \cup gone]

Pdu(w) ==
    LET over  == w.pdu_limit > 0 /\ Total(w.loads) > w.pdu_limit
        gone  == {l \in Sheddable : w.loads[l] > 0}
        shed  == [l \in Loads |-> IF l \in gone THEN 0 ELSE w.loads[l]]
        slow  == Throttle(shed, "motion", w.pdu_limit)
        final == Throttle(slow, "rcs", w.pdu_limit)
    IN  IF ~over THEN w
        ELSE [w EXCEPT
                !.loads = final,
                !.shed = w.shed \cup gone,
                !.reasons = IF gone = {} THEN w.reasons
                            ELSE w.reasons \cup {"pdu_overcurrent"},
                !.throttled = {l \in {"motion", "rcs"} : final[l] < w.loads[l]},
                !.radar_allowed = w.radar_allowed /\ "radar" \notin gone,
                !.xpdr_allowed = w.xpdr_allowed /\ "transponder" \notin gone,
                !.overcurrent = Total(final) > w.pdu_limit]

\* Mutant: the battery level is not clamped to its capacity.
Store_NoClamp(w) ==
    LET in0  == BaseIn + DockPower(w)
        out0 == Total(w.loads)
    IN  [w EXCEPT !.power_out = out0,
                  !.soc = Minus(w.soc + Minus(in0, out0), Minus(out0, in0)),
                  !.nbl_allowed = w.nbl_allowed /\ w.loads["nbl"] > 0]

\* Supercapacitor and battery: a surplus charges the first, then the second.
Store(w) ==
    LET in0    == BaseIn + DockPower(w)
        out0   == Total(w.loads)
        charge == Least(Least(Minus(in0, out0), CapMax - w.cap), CapRate)
        lend   == Least(Least(Minus(out0, in0), w.cap), CapRate)
        in1    == in0 + lend
        out1   == out0 + charge
        up     == Capped(Minus(in1, out1), ChargeMax)
        down   == Capped(Minus(out1, in1), DischargeMax)
    IN  [w EXCEPT
            !.cap = (w.cap + charge) - lend,
            !.power_out = out1,
            !.soc = Minus(Least(w.soc + up, SocMax), down),
            !.nbl_allowed = w.nbl_allowed /\ w.loads["nbl"] > 0]

\* _thermal_step: new temperatures, trips with hysteresis.
ThermalStep(w, env) ==
    [w EXCEPT
        !.temp = env.temp,
        !.trip = [n \in Nodes |->
                    /\ w.trip[n] \/ env.temp[n] >= TripC
                    /\ env.temp[n] + HysC > TripC]]

\* The temperatures one step can reach: a node moves at most one degree.
Reachable(w, temp) ==
    \A n \in Nodes : temp[n] <= w.temp[n] + 1 /\ w.temp[n] <= temp[n] + 1

Step(w, in, env) ==
    LET supervised == Supervise(w)
        burnt      == RcsStep(supervised)
        demanded   == Demand(burnt, supervised, in, env)
    IN  ThermalStep(Store(Pdu(DockStep(demanded))), env)
=============================================================================
