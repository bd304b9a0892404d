----------------------------- MODULE SimService -----------------------------
(***************************************************************************)
(* q_sim_service (service.py, grpc_server.py): one asyncio loop runs the   *)
(* simulation tick, the gRPC readers and the operator's control commands   *)
(* one after the other, in any order, around one WorldModel.               *)
(*                                                                         *)
(* Of the deque radar_frames only the newest frame is ever read.  A frame  *)
(* is what it shows of the transponder; frame_stale says that the world    *)
(* has moved since the newest frame was taken (its timestamp is not the    *)
(* world's).  heard is what became of the last news about the core on the  *)
(* thermal trip subject.                                                   *)
(***************************************************************************)
EXTENDS WorldModel, Sequences

CONSTANTS
    RadarEnabled,     \* RADAR_ENABLED
    CommsEnabled,     \* comms_plane.enabled
    SensorCycle,      \* _sensor_cycle, "radar" or "other" per slot
    MaxCommands       \* bound: operator commands in a behaviour

ASSUME ServiceAssumption ==
    /\ RadarEnabled \in BOOLEAN /\ CommsEnabled \in BOOLEAN
    /\ SensorCycle \in Seq({"radar", "other"}) /\ Len(SensorCycle) > 1
    /\ MaxCommands \in Nat

VARIABLES
    running, paused,  \* _sim_running, _sim_paused
    world,            \* world_model
    xpdr,             \* transponder_mode
    frame,            \* radar_frames[-1]
    frame_stale,
    reading,          \* sensor_data_queue: at most its newest reading
    index,            \* _sensor_index
    trip_last,        \* _thermal_trip_last["core"]
    heard,
    commands          \* operator commands so far

vars == <<running, paused, world, xpdr, frame, frame_stale, reading, index,
          trip_last, heard, commands>>
service == <<running, paused, xpdr>>
readers == <<frame, frame_stale, reading, index>>
news    == <<trip_last, heard>>

XpdrModes == {"ON", "OFF", "SILENT", "SPOOF"}
Frames    == [mode: XpdrModes, on: BOOLEAN]
NoFrame   == [mode |-> "none", on |-> FALSE]
Other     == [mode |-> "other sensor", on |-> FALSE]

\* What became of the last edge: there was none, the subscribers were told, or
\* it was dropped.
Heard == {"nothing", "trip", "clear", "lost trip", "lost clear"}

TypeOK ==
    /\ running \in BOOLEAN /\ paused \in BOOLEAN
    /\ world \in World
    /\ xpdr \in XpdrModes
    /\ frame \in Frames \cup {NoFrame} /\ frame_stale \in BOOLEAN
    /\ reading \in Frames \cup {Other, NoFrame}
    /\ index \in 1..Len(SensorCycle)
    /\ trip_last \in BOOLEAN /\ heard \in Heard
    /\ commands \in 0..MaxCommands

Init ==
    /\ running = FALSE /\ paused = FALSE
    /\ world = NewWorld
    /\ xpdr = IF CommsEnabled THEN "ON" ELSE "OFF"
    /\ frame = NoFrame /\ frame_stale = FALSE
    /\ reading = NoFrame /\ index = 1
    /\ trip_last = FALSE /\ heard = "nothing"
    /\ commands = 0
-----------------------------------------------------------------------------
(* Reading the radar.                                                      *)

\* _is_transponder_active, on the permission the last step left.
XpdrActive(w) == CommsEnabled /\ w.xpdr_allowed /\ xpdr \in {"ON", "SPOOF"}

\* generate_radar_frame: what the newest frame would show now.
GenerateFrame(w) == [mode |-> xpdr, on |-> XpdrActive(w)]

\* radar_frame_for_external_read, for GetRadarFrame and the sensor rotation.
ExternalRead(w) ==
    IF ~RadarEnabled \/ ~w.radar_allowed \/ ~running THEN NoFrame
    ELSE IF paused THEN frame
    ELSE GenerateFrame(w)

\* Mutant: the rotation generates a frame of its own in a paused simulation.
SensorData_Fresh(w) ==
    IF SensorCycle[index] = "radar" /\ ExternalRead(w) # NoFrame
    THEN GenerateFrame(w) ELSE Other

\* generate_sensor_data: the radar's slot falls back to another sensor.
SensorData(w) ==
    IF SensorCycle[index] = "radar" /\ ExternalRead(w) # NoFrame
    THEN ExternalRead(w) ELSE Other
-----------------------------------------------------------------------------
(* The tick.                                                               *)

\* step(): the world moves only in a running, unpaused simulation; the
\* readers and the trip news (when their interval is over) are served in
\* every state; a frame is published only when the world moved.
Live == running /\ ~paused

LoadInputs == [radar_enabled |-> RadarEnabled,
               transponder_active |-> XpdrActive(world)]

MoveWorld(env) ==
    IF Live THEN Step(world, LoadInputs, env) ELSE world

\* publish_event: best effort, dropped without a connection or on an error.
Publish(kind) == heard' \in {kind, [trip |-> "lost trip", clear |-> "lost clear"][kind]}

\* Mutant: the end of a trip is published but not remembered.
TripEdge_NoMemory(w) ==
    IF w.trip["core"] = trip_last THEN UNCHANGED news
    ELSE /\ trip_last' = TRUE
         /\ Publish(IF w.trip["core"] THEN "trip" ELSE "clear")

\* _maybe_publish_thermal_trip_edges: the edge is remembered as told whether or
\* not it was dropped.
TripEdge(w) ==
    IF w.trip["core"] = trip_last THEN UNCHANGED news
    ELSE /\ trip_last' = w.trip["core"]
         /\ Publish(IF w.trip["core"] THEN "trip" ELSE "clear")

Tick(env) ==
    /\ Live => Reachable(world, env.temp)
    /\ world' = MoveWorld(env)
    /\ \E due \in BOOLEAN : IF due THEN TripEdge(world') ELSE UNCHANGED news
    /\ reading' = SensorData(world')
    /\ index' = (index % Len(SensorCycle)) + 1
    /\ IF Live /\ RadarEnabled /\ world'.radar_allowed
       THEN frame' = GenerateFrame(world') /\ frame_stale' = FALSE
       ELSE frame' = frame /\ frame_stale' = (frame_stale \/ Live)
    /\ UNCHANGED <<running, paused, xpdr, commands>>

\* What the physics may choose: a world that stands still has no choice, and
\* the valves have no phase without a burn.
TickEnv == IF Live THEN {e \in Env : e.open = 0 \/ RcsFires(world)}
           ELSE {CHOOSE e \in Env : e.temp = world.temp}

TickAny == \E env \in TickEnv : Tick(env)

\* GetSensorData takes the newest reading (and waits when there is none).
GetSensorData ==
    /\ reading # NoFrame
    /\ reading' = NoFrame
    /\ UNCHANGED <<running, paused, world, xpdr, frame, frame_stale, index,
                   trip_last, heard, commands>>
-----------------------------------------------------------------------------
(* apply_control_command and receive_actuator_command, one action per      *)
(* command; a refused command changes nothing.                             *)

Command == commands < MaxCommands /\ commands' = commands + 1

SimStart == /\ Command
            /\ running' = TRUE /\ paused' = FALSE
            /\ UNCHANGED <<world, xpdr, readers, news>>

\* A pause freezes only a world that runs.
SimPause == /\ Command
            /\ running
            /\ paused' = TRUE
            /\ UNCHANGED <<running, world, xpdr, readers, news>>

SimStop == /\ Command
           /\ running' = FALSE /\ paused' = FALSE
           /\ UNCHANGED <<world, xpdr, readers, news>>

\* reset_simulation: a new world, its trip state taken over as already
\* told, queues and frames empty, the rotation back to its start.
SimReset == /\ Command
            /\ running' = FALSE /\ paused' = FALSE
            /\ world' = NewWorld
            /\ trip_last' = NewWorld.trip["core"] /\ heard' = heard
            /\ frame' = NoFrame /\ frame_stale' = FALSE
            /\ reading' = NoFrame /\ index' = 1
            /\ UNCHANGED xpdr

SetXpdr(mode) == /\ Command
                 /\ CommsEnabled
                 /\ xpdr' = mode
                 /\ UNCHANGED <<running, paused, world, readers, news>>

\* Commands that only call one of the world's setters.
SetWorld(w) == /\ Command
               /\ world' = w
               /\ UNCHANGED <<service, readers, news>>

DockBridge(on)  == SetWorld(SetDockConnected(world, on))
Dock(on)        == SetWorld(SetDocked(world, on))
NblActive(on)   == SetWorld([world EXCEPT !.nbl_active = on])
NblSetMax(max)  == SetWorld([world EXCEPT !.nbl_max = max])
RcsStop         == SetWorld(SetRcs(world, "none", 0, 0))
RcsFire(axis, pct, d) == SetWorld(SetRcs(world, axis, pct, d))
SetVelocity(v)  == SetWorld([world EXCEPT !.speed = v])

Operator ==
    \/ SimStart \/ SimPause \/ SimStop \/ SimReset
    \/ \E mode \in XpdrModes : SetXpdr(mode)
    \/ \E on \in BOOLEAN : DockBridge(on) \/ Dock(on) \/ NblActive(on)
    \/ \E max \in NblMaxes : NblSetMax(max)
    \/ \E axis \in Axes \ {"none"}, pct \in 0..MaxPct, d \in 0..MaxBurn :
          RcsFire(axis, pct, d)
    \/ RcsStop
    \/ \E v \in 0..1 : SetVelocity(v)

Next == TickAny \/ GetSensorData \/ Operator

Spec == Init /\ [][Next]_vars

\* sim_service_loop ticks for ever and the events interval is finite: infinitely
\* many ticks find it over and leave the news up to date.
PublishingTick == /\ index' # index /\ commands' = commands
                  /\ trip_last' = world'.trip["core"]

FairSpec == Spec /\ []<><<PublishingTick>>_vars
-----------------------------------------------------------------------------
(* Properties.                                                             *)

\* A load the step reports as shed draws nothing, the permissions the radar
\* and the transponder are read by say the same as the shed list, and an
\* allowed burst link is one that draws power: the lists, the flags and the
\* watts of one step are written by four stages and must agree.
ShedDrawsNothing ==
    /\ \A l \in world.shed : world.loads[l] = 0
    /\ world.radar_allowed = ("radar" \notin world.shed)
    /\ world.xpdr_allowed = ("transponder" \notin world.shed)
    /\ world.nbl_allowed => "nbl" \notin world.shed /\ world.loads["nbl"] > 0

\* The PDU declares PDU_OVERCURRENT only when nothing is left to shed or to
\* throttle, and without the fault the loads keep to its limit.
OvercurrentIsLastResort ==
    /\ world.overcurrent =>
          \A l \in Sheddable \cup {"motion", "rcs"} : world.loads[l] = 0
    /\ ~world.overcurrent /\ world.pdu_limit > 0 =>
          Total(world.loads) <= world.pdu_limit

\* A thermal trip takes effect in the next world step and not later: the PDU
\* trip takes radar, transponder and burst link, the core trip the link.
WorldMoves == Live /\ running' /\ index' # index

TripShedsNextStep ==
    [][WorldMoves =>
        /\ world.trip["pdu"] =>
              \A l \in Sheddable : world'.loads[l] = 0
        /\ world.trip["core"] => world'.loads["nbl"] = 0]_vars

\* Whoever reads the radar sees the same picture: a radar reading waiting in
\* the sensor queue is the newest published frame, and neither it nor the
\* frame a paused simulation hands out is older than the frozen world,
\* whatever was shed, stopped, restarted or switched in between.
OnePicture ==
    /\ reading \in Frames => reading = frame /\ ~frame_stale
    /\ paused /\ ExternalRead(world) # NoFrame => ~frame_stale

\* Thrusters never fire without an end: a command that is on has time left,
\* for _rcs_step treats a duration of zero as no limit.
RcsBounded == world.rcs_pct > 0 => world.rcs_left > 0

\* A burn comes to its end in a simulation that keeps running: the time or
\* the propellant runs out, also when the operator fires anew meanwhile.  A
\* command for an axis without thrusters burns nothing and stays set.
RcsEnds == RcsFires(world) ~> ~RcsFires(world) \/ ~Live

\* A core trip that stays was news: subscribers were told last of a trip, or
\* that edge was dropped, whatever the interval of the events and however often
\* the state changed and news were dropped before.  A dropped edge is not
\* repeated.
TripNewsSettles == <>[](world.trip["core"]) => <>[](heard \in {"trip", "lost trip"})
=============================================================================
