------------------------------ MODULE ShipFSM ------------------------------
(***************************************************************************)
(* The ship's state machine, q_core_agent/core/ship_fsm_handler.py, on top *)
(* of the actuator controller of ship_actuators.py.                        *)
(*                                                                         *)
(* Everything is sequential: a caller issues propulsion commands, and from *)
(* time to time writes the safe-mode keys of context_data and calls        *)
(* process_fsm_state (a cycle). What a cycle reads and does not keep (the  *)
(* health checks, the caller's safe_*_ok hints, the best station track) is *)
(* its input. The strings of triggers and of safe_mode_reason are left     *)
(* out; a request for SAFE_MODE with the reason UNKNOWN is no request.     *)
(*                                                                         *)
(* Of the station track only the verdict is kept: "lost" (none, stale, low *)
(* quality, invalid, or out of range), "near" (in docking range), "dock"   *)
(* (close and slow enough to be docked) and "dockpartial" (the same from a *)
(* track without age or quality).                                          *)
(***************************************************************************)
EXTENDS Integers

CONSTANTS
    ExitCount,   \* QIKI_SAFE_EXIT_CONFIRMATION_COUNT
    DockCount,   \* QIKI_DOCKING_CONFIRMATION_COUNT
    MaxHits      \* bound: how far docking_confirm_hits is followed

\* Both counts are read as max(1, ...).
ASSUME ShipAssumption ==
    /\ ExitCount \in Nat \ {0} /\ DockCount \in Nat \ {0}
    /\ MaxHits \in Nat /\ MaxHits > DockCount

VARIABLES
    ship,        \* ship_state_name
    exitHits,    \* safe_mode_exit_hits
    dockHits,    \* docking_confirm_hits
    mode,        \* controller.current_mode
    last,        \* controller.last_actuation: what was asked, and the receipt
    gateRun,     \* history: consecutive cycles with every exit gate open
    dockRun,     \* history: consecutive cycles with a track that is docked
    interrupted  \* history: a docking was interrupted by SAFE_MODE

fsmVars  == <<ship, exitHits, dockHits>>
history  == <<gateRun, dockRun, interrupted>>
vars == <<fsmVars, mode, last, history>>

ShipStates == {"SHIP_STARTUP", "SHIP_IDLE", "FLIGHT_CRUISE",
               "FLIGHT_MANEUVERING", "DOCKING_APPROACH", "DOCKING_ENGAGED",
               "SAFE_MODE", "EMERGENCY_STOP", "SYSTEMS_ERROR"}
Modes == {"IDLE", "MANEUVERING", "CRUISE", "EMERGENCY"}

\* What _dispatch_command can answer; LOST is FAILED, TIMEOUT or UNAVAILABLE,
\* which are treated alike. It never answers EXECUTED.
Outcomes == {"ACCEPTED", "REJECTED", "LOST"}

\* thrust: whether the command asks the main drive for thrust.
Receipt(action, status, thrust) ==
    [action |-> action, status |-> status, thrust |-> thrust]
NoReceipt == Receipt("none", "none", FALSE)
Receipts == [action : {"none", "main", "rcs", "sensor"},
             status : Outcomes \cup {"none", "EXECUTED"},
             thrust : BOOLEAN]

\* The three gates (BIOS, sensors, provider) are "refused" when a hint of
\* the caller says "0", "closed" when a hint is absent and the ship's own
\* check stands in for it and fails, else "open".
Frames == {"lost", "near", "dock", "dockpartial"}
Inputs == [request : BOOLEAN, gates : {"open", "closed", "refused"},
           sys : BOOLEAN, frame : Frames]

----------------------------------------------------------------------------
(* The actuator controller.                                                *)

\* Mutant: "thrust >= 0" sets the cruise mode.
SetMainDrive_AnyThrust(thrust) ==
    \E status \in Outcomes :
        /\ last' = Receipt("main", status, thrust)
        /\ mode' = IF status = "ACCEPTED" THEN "CRUISE" ELSE mode
        /\ UNCHANGED <<fsmVars, history>>

\* set_main_drive_thrust: the mode follows a command that was accepted.
SetMainDrive(thrust) ==
    \E status \in Outcomes :
        /\ last' = Receipt("main", status, thrust)
        /\ mode' = IF status # "ACCEPTED" THEN mode
                   ELSE IF thrust THEN "CRUISE" ELSE "IDLE"
        /\ UNCHANGED <<fsmVars, history>>

\* fire_rcs_thruster, once for each axis of execute_maneuver.
FireRcs ==
    \E status \in Outcomes :
        /\ last' = Receipt("rcs", status, FALSE)
        /\ mode' = IF status = "ACCEPTED" THEN "MANEUVERING" ELSE mode
        /\ UNCHANGED <<fsmVars, history>>

\* activate_sensor and deactivate_sensor overwrite the last receipt too.
SwitchSensor ==
    \E status \in Outcomes :
        /\ last' = Receipt("sensor", status, FALSE)
        /\ UNCHANGED <<fsmVars, mode, history>>

\* emergency_stop: the drive and four thrusters are set to 0, whatever each
\* command answers; the last receipt is that of the last thruster.
StopAll ==
    /\ mode' = "EMERGENCY"
    /\ \E status \in Outcomes : last' = Receipt("rcs", status, FALSE)

EmergencyStop == StopAll /\ UNCHANGED <<fsmVars, history>>

\* The channel confirms the execution of the last command (external).
Executed ==
    /\ last.status = "ACCEPTED"
    /\ last' = [last EXCEPT !.status = "EXECUTED"]
    /\ UNCHANGED <<fsmVars, mode, history>>

----------------------------------------------------------------------------
(* What process_fsm_state looks at, given its input.                       *)

ForceSafeMode(in) ==
    \/ in.request \/ in.gates = "refused"
    \/ last.status = "LOST" /\ last.action \in {"main", "rcs"}

\* _actuation_gate: the mode counts only with the receipt of its execution.
ExecutedFor(action) == last.action = action /\ last.status = "EXECUTED"
Cruising    == mode = "CRUISE" /\ ExecutedFor("main")
Maneuvering == mode = "MANEUVERING" /\ ExecutedFor("rcs")

InRange(in)  == in.frame # "lost"
Dockable(in) == in.frame \in {"dock", "dockpartial"}
Required(in) == IF in.frame = "dockpartial" THEN DockCount + 1 ELSE DockCount

----------------------------------------------------------------------------
(* One cycle, by the state it starts in.                                   *)

\* Mutant: the exit counter of the last stay is kept.
EnterSafeMode_KeepsHits(in) ==
    /\ ship # "SAFE_MODE" /\ ForceSafeMode(in)
    /\ ship' = "SAFE_MODE"
    /\ StopAll
    /\ interrupted' = (interrupted \/ ship \in {"DOCKING_APPROACH", "DOCKING_ENGAGED"})
    /\ UNCHANGED <<exitHits, dockHits>>

\* Any state but SAFE_MODE. docking_confirm_hits is left as it is.
EnterSafeMode(in) ==
    /\ ship # "SAFE_MODE" /\ ForceSafeMode(in)
    /\ ship' = "SAFE_MODE"
    /\ exitHits' = 0
    /\ StopAll
    /\ interrupted' = (interrupted \/ ship \in {"DOCKING_APPROACH", "DOCKING_ENGAGED"})
    /\ UNCHANGED dockHits

\* SAFE_MODE with every gate open: the hits are counted, and enough of them
\* end it. A request is consumed and changes nothing.
Recover(in) ==
    /\ ship = "SAFE_MODE" /\ in.gates = "open"
    /\ exitHits' = exitHits + 1
    /\ ship' = IF exitHits' >= ExitCount THEN "SHIP_IDLE" ELSE "SAFE_MODE"
    /\ UNCHANGED <<dockHits, mode, last, interrupted>>

\* SAFE_MODE with a gate closed: the count starts again.
Hold(in) ==
    /\ ship = "SAFE_MODE" /\ in.gates # "open"
    /\ exitHits' = 0
    /\ UNCHANGED <<ship, dockHits, mode, last, interrupted>>

\* The states in which nothing but the state changes.
CalmStep(in) ==
    /\ \/ /\ ship = "SHIP_STARTUP"
          /\ ship' = IF in.sys THEN "SHIP_IDLE" ELSE "SYSTEMS_ERROR"
       \/ /\ ship = "SHIP_IDLE"
          /\ ship' = IF ~in.sys THEN "SYSTEMS_ERROR"
                     ELSE IF Cruising THEN "FLIGHT_CRUISE"
                     ELSE IF Maneuvering THEN "FLIGHT_MANEUVERING"
                     ELSE IF mode \in {"IDLE", "EMERGENCY"} /\ InRange(in)
                     THEN "DOCKING_APPROACH" ELSE ship
       \/ /\ ship = "FLIGHT_CRUISE" /\ in.sys
          /\ ship' = IF Maneuvering THEN "FLIGHT_MANEUVERING"
                     ELSE IF mode = "IDLE" THEN "SHIP_IDLE" ELSE ship
       \/ /\ ship = "FLIGHT_MANEUVERING" /\ in.sys
          /\ ship' = IF Cruising THEN "FLIGHT_CRUISE"
                     ELSE IF mode = "IDLE" THEN "SHIP_IDLE"
                     ELSE IF mode # "CRUISE" /\ InRange(in)
                     THEN "DOCKING_APPROACH" ELSE ship
       \/ /\ ship = "EMERGENCY_STOP"
          /\ ship' = IF in.sys /\ mode = "EMERGENCY" THEN "SHIP_IDLE" ELSE ship
       \/ /\ ship = "SYSTEMS_ERROR"
          /\ ship' = IF in.sys THEN "SHIP_IDLE" ELSE ship
       \/ ship = "DOCKING_ENGAGED" /\ ship' = ship
    /\ UNCHANGED <<dockHits, mode, last>>

\* A system failure in flight or in the approach.
Abort(in) ==
    /\ ship \in {"FLIGHT_CRUISE", "FLIGHT_MANEUVERING", "DOCKING_APPROACH"}
    /\ ~in.sys
    /\ ship' = "EMERGENCY_STOP"
    /\ dockHits' = IF ship = "DOCKING_APPROACH" THEN 0 ELSE dockHits
    /\ StopAll

\* Mutant: a lost target keeps the confirmations.
Approach_LostKeepsHits(in) ==
    /\ ship = "DOCKING_APPROACH" /\ in.sys
    /\ \/ /\ Dockable(in) /\ dockHits < MaxHits
          /\ dockHits' = dockHits + 1
          /\ ship' = IF dockHits' >= Required(in) THEN "DOCKING_ENGAGED" ELSE ship
       \/ /\ ~Dockable(in)
          /\ dockHits' = IF InRange(in) THEN 0 ELSE dockHits
          /\ ship' = IF InRange(in) THEN ship ELSE "FLIGHT_MANEUVERING"
    /\ UNCHANGED <<mode, last>>

\* The approach: confirm, or start again, or lose the target.
Approach(in) ==
    /\ ship = "DOCKING_APPROACH" /\ in.sys
    /\ \/ /\ Dockable(in) /\ dockHits < MaxHits
          /\ dockHits' = dockHits + 1
          /\ ship' = IF dockHits' >= Required(in) THEN "DOCKING_ENGAGED" ELSE ship
       \/ /\ ~Dockable(in)
          /\ dockHits' = 0
          /\ ship' = IF InRange(in) THEN ship ELSE "FLIGHT_MANEUVERING"
    /\ UNCHANGED <<mode, last>>

\* process_fsm_state.
Process(in) ==
    /\ \/ EnterSafeMode(in)
       \/ Recover(in)
       \/ Hold(in)
       \/ /\ ship # "SAFE_MODE" /\ ~ForceSafeMode(in)
          /\ CalmStep(in) \/ Abort(in) \/ Approach(in)
          /\ UNCHANGED <<exitHits, interrupted>>
    /\ gateRun' = IF in.gates # "open" THEN 0
                  ELSE IF gateRun < ExitCount THEN gateRun + 1 ELSE gateRun
    /\ dockRun' = IF ~Dockable(in) THEN 0
                  ELSE IF dockRun <= DockCount THEN dockRun + 1 ELSE dockRun

\* A cycle, whatever the checks, the hints, the request and the track say.
Cycle == \E in \in Inputs : Process(in)

----------------------------------------------------------------------------
Init ==
    /\ ship = "SHIP_STARTUP" /\ exitHits = 0 /\ dockHits = 0
    /\ mode = "IDLE" /\ last = NoReceipt
    /\ gateRun = 0 /\ dockRun = 0 /\ interrupted = FALSE

Next ==
    \/ Cycle
    \/ \E thrust \in BOOLEAN : SetMainDrive(thrust)
    \/ FireRcs \/ SwitchSensor \/ EmergencyStop \/ Executed

Spec == Init /\ [][Next]_vars

----------------------------------------------------------------------------
(* Properties.                                                             *)

\* Every variable stays within its type; the exit counter never passes the
\* number of confirmations asked for.
TypeOK ==
    /\ ship \in ShipStates
    /\ exitHits \in 0..ExitCount /\ dockHits \in 0..MaxHits
    /\ mode \in Modes /\ last \in Receipts
    /\ gateRun \in 0..ExitCount /\ dockRun \in 0..(DockCount + 1)
    /\ interrupted \in BOOLEAN

\* SAFE_MODE is only left after ExitCount cycles in a row, this one included,
\* with the BIOS, sensor and provider gates open, whatever the ship did
\* before and however often it has been in SAFE_MODE.
SafeExitConfirmed ==
    [][ship = "SAFE_MODE" /\ ship' # "SAFE_MODE" => gateRun' = ExitCount]_vars

\* ACCEPTED is not EXECUTED: cruise flight starts only when the last command
\* asked the main drive for thrust and was executed; a stop command, or a
\* receipt for another command, never starts it.
CruiseNeedsExecutedThrust ==
    [][ship # "FLIGHT_CRUISE" /\ ship' = "FLIGHT_CRUISE"
         => last = Receipt("main", "EXECUTED", TRUE)]_vars

\* As long as SAFE_MODE has not cut a docking short, docking is confirmed by
\* DockCount docked tracks in a row.
UninterruptedDockingConfirmed ==
    [][ship # "DOCKING_ENGAGED" /\ ship' = "DOCKING_ENGAGED" /\ ~interrupted
         => dockRun' >= DockCount]_vars

\* "Docking confirmed N in a row": so it is always.
DockingConfirmedInARow ==
    [][ship # "DOCKING_ENGAGED" /\ ship' = "DOCKING_ENGAGED"
         => dockRun' >= DockCount]_vars
=============================================================================
