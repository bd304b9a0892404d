--------------------------- MODULE ShipFSMProofs ---------------------------
(***************************************************************************)
(* Proofs about ShipFSM for every number of confirmations. None of the     *)
(* three action properties is inductive: each rests on what the counters   *)
(* and the last receipt mean in every reachable state (IInv).              *)
(***************************************************************************)
EXTENDS ShipFSM, TLAPS

\* In SAFE_MODE the exit counter counts open cycles, and is short of the goal.
ExitCounted == ship = "SAFE_MODE" => exitHits <= gateRun /\ exitHits < ExitCount

\* The cruise mode comes from a command that asked for thrust.
ReceiptFits ==
    (mode = "CRUISE" /\ last.action = "main" /\ last.status \in {"ACCEPTED", "EXECUTED"})
        => last.thrust = TRUE

\* Until a docking is interrupted the confirmations are consecutive, and
\* there are none outside a docking.
DockCounted ==
    ~interrupted =>
        /\ ship = "DOCKING_APPROACH" => dockHits <= dockRun
        /\ ship \notin {"DOCKING_APPROACH", "DOCKING_ENGAGED"} => dockHits = 0

IInv == TypeOK /\ ExitCounted /\ ReceiptFits /\ DockCounted

\* A receipt is a receipt: what the controller stores after a command.
LEMMA ReceiptType ==
    ASSUME NEW action \in {"none", "main", "rcs", "sensor"},
           NEW status \in Outcomes \cup {"none", "EXECUTED"},
           NEW thrust \in BOOLEAN
    PROVE  /\ Receipt(action, status, thrust) \in Receipts
           /\ Receipt(action, status, thrust).action = action
           /\ Receipt(action, status, thrust).status = status
           /\ Receipt(action, status, thrust).thrust = thrust
BY DEF Receipt, Receipts

\* The first state of the machine: startup, no command, every counter 0.
LEMMA InitIInv == Init => IInv
<1> SUFFICES ASSUME Init PROVE IInv
  OBVIOUS
<1>1. last \in Receipts /\ last.action = "none"
  <2>1. last = Receipt("none", "none", FALSE)
    BY Zenon DEF Init, NoReceipt
  <2> QED BY <2>1 DEF Receipt, Receipts
<1>2. TypeOK
  <2>1. interrupted \in BOOLEAN
    BY Zenon DEF Init
  <2>2. /\ ship \in ShipStates /\ mode \in Modes
        /\ exitHits \in 0..ExitCount /\ dockHits \in 0..MaxHits
        /\ gateRun \in 0..ExitCount /\ dockRun \in 0..(DockCount + 1)
    BY ShipAssumption DEF Init, ShipStates, Modes
  <2> QED BY <1>1, <2>1, <2>2 DEF TypeOK
<1>3. ExitCounted /\ ReceiptFits /\ DockCounted
  BY <1>1 DEF Init, ExitCounted, ReceiptFits, DockCounted
<1> QED BY <1>2, <1>3 DEF IInv

\* emergency_stop leaves a thruster's receipt and the emergency mode.
LEMMA StopAllEffect ==
    ASSUME StopAll
    PROVE  /\ mode' = "EMERGENCY" /\ mode' \in Modes /\ last' \in Receipts
           /\ last'.action = "rcs"
<1>1. PICK status \in Outcomes : last' = Receipt("rcs", status, FALSE)
  BY DEF StopAll
<1>2. last' \in Receipts /\ last'.action = "rcs"
  BY <1>1, ReceiptType
<1> QED BY <1>2 DEF StopAll, Modes

\* The commands of the controller leave the machine alone and keep the
\* receipt fitting the mode.
LEMMA CommandStep ==
    ASSUME IInv, (\E thrust \in BOOLEAN : SetMainDrive(thrust)) \/ FireRcs
                 \/ SwitchSensor \/ EmergencyStop \/ Executed
    PROVE  IInv'
<1>1. UNCHANGED <<fsmVars, history>>
  BY DEF SetMainDrive, FireRcs, SwitchSensor, EmergencyStop, Executed
<1>2. ExitCounted' /\ DockCounted'
  BY <1>1 DEF IInv, ExitCounted, DockCounted, fsmVars, history
<1>3. mode' \in Modes /\ last' \in Receipts /\ ReceiptFits'
  <2>1. CASE \E thrust \in BOOLEAN : SetMainDrive(thrust)
    <3>1. PICK thrust \in BOOLEAN : SetMainDrive(thrust)
      BY <2>1
    <3>2. PICK status \in Outcomes :
             /\ last' = Receipt("main", status, thrust)
             /\ mode' = IF status # "ACCEPTED" THEN mode
                        ELSE IF thrust THEN "CRUISE" ELSE "IDLE"
      BY <3>1 DEF SetMainDrive
    <3>3. /\ last' \in Receipts /\ last'.action = "main"
          /\ last'.status = status /\ last'.thrust = thrust
      BY <3>2, ReceiptType
    <3>4. mode' \in Modes
      BY <3>2 DEF IInv, TypeOK, Modes
    <3>5. status # "EXECUTED"
      BY DEF Outcomes
    <3>6. CASE status # "ACCEPTED"
      BY <3>3, <3>4, <3>5, <3>6 DEF ReceiptFits
    <3>7. CASE status = "ACCEPTED" /\ thrust = TRUE
      BY <3>3, <3>4, <3>7 DEF ReceiptFits
    <3>8. CASE status = "ACCEPTED" /\ thrust = FALSE
      <4>1. mode' = "IDLE"
        BY <3>2, <3>8
      <4> QED BY <3>3, <3>4, <4>1 DEF ReceiptFits
    <3> QED BY <3>6, <3>7, <3>8
  <2>2. CASE FireRcs
    <3>1. PICK status \in Outcomes :
             /\ last' = Receipt("rcs", status, FALSE)
             /\ mode' = IF status = "ACCEPTED" THEN "MANEUVERING" ELSE mode
      BY <2>2 DEF FireRcs
    <3>2. last' \in Receipts /\ last'.action = "rcs"
      BY <3>1, ReceiptType
    <3> QED BY <3>1, <3>2 DEF IInv, TypeOK, Modes, ReceiptFits
  <2>3. CASE SwitchSensor
    <3>1. PICK status \in Outcomes :
             last' = Receipt("sensor", status, FALSE) /\ mode' = mode
      BY <2>3 DEF SwitchSensor
    <3>2. last' \in Receipts /\ last'.action = "sensor"
      BY <3>1, ReceiptType
    <3> QED BY <3>1, <3>2 DEF IInv, TypeOK, ReceiptFits
  <2>4. CASE EmergencyStop
    BY <2>4, StopAllEffect DEF EmergencyStop, ReceiptFits
  <2>5. CASE Executed
    BY <2>5 DEF Executed, IInv, TypeOK, Receipts, ReceiptFits, Outcomes
  <2> QED BY <2>1, <2>2, <2>3, <2>4, <2>5
<1> QED BY <1>1, <1>2, <1>3 DEF IInv, TypeOK, fsmVars, history

\* The two histories of a cycle stay in their range, and count.
LEMMA HistoryStep ==
    ASSUME IInv, NEW in \in Inputs, Process(in)
    PROVE  /\ gateRun' \in 0..ExitCount /\ dockRun' \in 0..(DockCount + 1)
           /\ in.gates = "open" =>
                 gateRun' = ExitCount \/ gateRun' = gateRun + 1
           /\ Dockable(in) =>
                 dockRun' = DockCount + 1 \/ dockRun' = dockRun + 1
BY ShipAssumption DEF IInv, TypeOK, Process

\* A cycle that enters SAFE_MODE.
LEMMA EnterStep ==
    ASSUME IInv, NEW in \in Inputs, Process(in), EnterSafeMode(in)
    PROVE  IInv'
<1>1. mode' \in Modes /\ last' \in Receipts /\ ReceiptFits'
  BY StopAllEffect DEF EnterSafeMode, ReceiptFits
<1>2. TypeOK'
  BY <1>1, HistoryStep, ShipAssumption
     DEF IInv, TypeOK, EnterSafeMode, ShipStates
<1>3. ExitCounted'
  BY <1>2, ShipAssumption DEF EnterSafeMode, ExitCounted, TypeOK
<1>4. DockCounted'
  BY DEF IInv, DockCounted, EnterSafeMode
<1> QED BY <1>1, <1>2, <1>3, <1>4 DEF IInv

\* A cycle in SAFE_MODE.
LEMMA SafeStep ==
    ASSUME IInv, NEW in \in Inputs, Process(in), Recover(in) \/ Hold(in)
    PROVE  IInv'
<1>1. mode' \in Modes /\ last' \in Receipts /\ ReceiptFits'
  BY DEF Recover, Hold, IInv, TypeOK, ReceiptFits
<1>2. TypeOK' /\ ExitCounted'
  <2>1. CASE Recover(in)
    BY <2>1, <1>1, HistoryStep, ShipAssumption
       DEF IInv, TypeOK, ExitCounted, Recover, ShipStates
  <2>2. CASE Hold(in)
    BY <2>2, <1>1, HistoryStep, ShipAssumption
       DEF IInv, TypeOK, ExitCounted, Hold, ShipStates
  <2> QED BY <2>1, <2>2
<1>3. DockCounted'
  BY DEF IInv, DockCounted, Recover, Hold
<1> QED BY <1>1, <1>2, <1>3 DEF IInv

\* A cycle outside SAFE_MODE that nothing forces into it.
LEMMA PlainStep ==
    ASSUME IInv, NEW in \in Inputs, Process(in),
           ship # "SAFE_MODE", CalmStep(in) \/ Abort(in) \/ Approach(in),
           UNCHANGED <<exitHits, interrupted>>
    PROVE  IInv' /\ ship' # "SAFE_MODE"
<1>1. CASE CalmStep(in)
  <2>1. ship' \in ShipStates \ {"SAFE_MODE"}
    BY <1>1 DEF IInv, TypeOK, CalmStep, ShipStates
  <2>2. TypeOK' /\ ReceiptFits'
    BY <1>1, <2>1, HistoryStep DEF IInv, TypeOK, CalmStep, ReceiptFits
  <2>3. DockCounted'
    <3>1. dockHits' = dockHits /\ interrupted' = interrupted
      BY <1>1 DEF CalmStep
    <3>2. ship' = "DOCKING_APPROACH" => ship \notin {"DOCKING_APPROACH", "DOCKING_ENGAGED"}
      BY <1>1 DEF CalmStep
    <3>3. ship' \notin {"DOCKING_APPROACH", "DOCKING_ENGAGED"} =>
             ship \notin {"DOCKING_APPROACH", "DOCKING_ENGAGED"}
      BY <1>1 DEF CalmStep
    <3> QED BY <3>1, <3>2, <3>3, HistoryStep, ShipAssumption DEF IInv, TypeOK, DockCounted
  <2> QED BY <2>1, <2>2, <2>3 DEF IInv, ExitCounted
<1>2. CASE Abort(in)
  <2>1. mode' \in Modes /\ last' \in Receipts /\ ReceiptFits'
    BY <1>2, StopAllEffect DEF Abort, ReceiptFits
  <2>2. TypeOK'
    BY <1>2, <2>1, HistoryStep, ShipAssumption
       DEF IInv, TypeOK, Abort, ShipStates
  <2>3. DockCounted'
    BY <1>2 DEF IInv, DockCounted, Abort
  <2> QED BY <1>2, <2>1, <2>2, <2>3 DEF IInv, ExitCounted, Abort
<1>3. CASE Approach(in)
  <2>1. ship' \in ShipStates \ {"SAFE_MODE"}
    BY <1>3 DEF Approach, ShipStates
  <2>2. dockHits' \in 0..MaxHits
    BY <1>3, ShipAssumption DEF Approach, IInv, TypeOK
  <2>3. TypeOK' /\ ReceiptFits'
    BY <1>3, <2>1, <2>2, HistoryStep DEF IInv, TypeOK, Approach, ReceiptFits
  <2>4. DockCounted'
    <3>1. CASE Dockable(in)
      <4>1. /\ dockHits' = dockHits + 1
            /\ ship' = IF dockHits' >= Required(in) THEN "DOCKING_ENGAGED" ELSE ship
        BY <1>3, <3>1 DEF Approach
      <4>2. Required(in) <= DockCount + 1
        BY ShipAssumption DEF Required
      <4>3. ship' = "DOCKING_APPROACH" => dockHits' <= DockCount
        BY <4>1, <4>2, ShipAssumption DEF Required, IInv, TypeOK
      <4>4. ship = "DOCKING_APPROACH" /\ ship' \in {"DOCKING_APPROACH", "DOCKING_ENGAGED"}
        BY <1>3, <4>1 DEF Approach
      <4> QED BY <3>1, <4>1, <4>3, <4>4, HistoryStep, ShipAssumption
              DEF IInv, TypeOK, DockCounted
    <3>2. CASE ~Dockable(in)
      <4>1. dockHits' = 0
        BY <1>3, <3>2 DEF Approach
      <4> QED BY <4>1, <2>3 DEF DockCounted, TypeOK
    <3> QED BY <3>1, <3>2
  <2> QED BY <2>1, <2>3, <2>4 DEF IInv, ExitCounted
<1> QED BY <1>1, <1>2, <1>3

\* Every step of the specification keeps IInv.
LEMMA IInvStep == IInv /\ [Next]_vars => IInv'
<1> SUFFICES ASSUME IInv, [Next]_vars PROVE IInv'
  OBVIOUS
<1>1. CASE Cycle
  <2>1. PICK in \in Inputs : Process(in)
    BY <1>1 DEF Cycle
  <2>2. CASE EnterSafeMode(in)
    BY <2>1, <2>2, EnterStep
  <2>3. CASE Recover(in) \/ Hold(in)
    BY <2>1, <2>3, SafeStep
  <2>4. CASE /\ ship # "SAFE_MODE"
             /\ CalmStep(in) \/ Abort(in) \/ Approach(in)
             /\ UNCHANGED <<exitHits, interrupted>>
    BY <2>1, <2>4, PlainStep
  <2> QED BY <2>1, <2>2, <2>3, <2>4 DEF Process
<1>2. CASE (\E thrust \in BOOLEAN : SetMainDrive(thrust)) \/ FireRcs
           \/ SwitchSensor \/ EmergencyStop \/ Executed
  BY <1>2, CommandStep
<1>3. CASE UNCHANGED vars
  BY <1>3 DEF IInv, TypeOK, ExitCounted, ReceiptFits, DockCounted, vars,
     fsmVars, history
<1> QED BY <1>1, <1>2, <1>3 DEF Next

\* IInv holds in every reachable state.
LEMMA AlwaysIInv == Spec => []IInv
BY InitIInv, IInvStep, PTL DEF Spec

\* The variables of the machine and of the controller keep their types: the
\* exit counter of process_fsm_state never passes the count asked for.
THEOREM ShipTypes == Spec => []TypeOK
<1>1. IInv => TypeOK
  BY DEF IInv
<1> QED BY <1>1, AlwaysIInv, PTL

\* SAFE_MODE is left only by a cycle that completes a run of open gates.
LEMMA SafeExitStep ==
    ASSUME IInv, [Next]_vars, ship = "SAFE_MODE", ship' # "SAFE_MODE"
    PROVE  gateRun' = ExitCount
<1>1. Cycle
  BY DEF Next, vars, fsmVars, SetMainDrive, FireRcs, SwitchSensor, EmergencyStop,
     Executed
<1>2. PICK in \in Inputs : Process(in)
  BY <1>1 DEF Cycle
<1>3. Recover(in)
  BY <1>2 DEF Process, EnterSafeMode, Hold
<1>4. exitHits + 1 >= ExitCount /\ in.gates = "open"
  BY <1>3 DEF Recover
<1> QED BY <1>2, <1>4, HistoryStep, ShipAssumption DEF IInv, TypeOK, ExitCounted

\* However SAFE_MODE was entered and left before, it is left only after
\* ExitCount cycles in a row with the BIOS, sensor and provider gates open.
THEOREM SafeExitIsConfirmed == Spec => SafeExitConfirmed
<1>1. IInv /\ [Next]_vars =>
        [ship = "SAFE_MODE" /\ ship' # "SAFE_MODE" => gateRun' = ExitCount]_vars
  BY SafeExitStep
<1> QED BY <1>1, AlwaysIInv, PTL DEF Spec, SafeExitConfirmed

\* Cruise flight is entered only with the fitting receipt.
LEMMA CruiseStep ==
    ASSUME IInv, [Next]_vars, ship # "FLIGHT_CRUISE", ship' = "FLIGHT_CRUISE"
    PROVE  last = Receipt("main", "EXECUTED", TRUE)
<1>1. Cycle
  BY DEF Next, vars, fsmVars, SetMainDrive, FireRcs, SwitchSensor, EmergencyStop,
     Executed
<1>2. PICK in \in Inputs : Process(in)
  BY <1>1 DEF Cycle
<1>3. CalmStep(in)
  BY <1>2 DEF Process, EnterSafeMode, Recover, Hold, Abort, Approach
<1>4. Cruising
  BY <1>3 DEF CalmStep
<1>5. last.action = "main" /\ last.status = "EXECUTED" /\ last.thrust = TRUE
  BY <1>4 DEF Cruising, ExecutedFor, IInv, ReceiptFits
<1> QED BY <1>5 DEF IInv, TypeOK, Receipts, Receipt

\* No stop command, no command that was only accepted and no receipt of
\* another command takes the ship into cruise flight.
THEOREM CruiseIsExecuted == Spec => CruiseNeedsExecutedThrust
<1>1. IInv /\ [Next]_vars =>
        [ship # "FLIGHT_CRUISE" /\ ship' = "FLIGHT_CRUISE"
            => last = Receipt("main", "EXECUTED", TRUE)]_vars
  BY CruiseStep
<1> QED BY <1>1, AlwaysIInv, PTL DEF Spec, CruiseNeedsExecutedThrust

\* Docking that was never interrupted is confirmed by consecutive tracks.
LEMMA DockStep ==
    ASSUME IInv, [Next]_vars, ~interrupted,
           ship # "DOCKING_ENGAGED", ship' = "DOCKING_ENGAGED"
    PROVE  dockRun' >= DockCount
<1>1. Cycle
  BY DEF Next, vars, fsmVars, SetMainDrive, FireRcs, SwitchSensor, EmergencyStop,
     Executed
<1>2. PICK in \in Inputs : Process(in)
  BY <1>1 DEF Cycle
<1>3. Approach(in)
  BY <1>2 DEF Process, EnterSafeMode, Recover, Hold, Abort, CalmStep
<1>4. /\ ship = "DOCKING_APPROACH" /\ Dockable(in)
      /\ dockHits' = dockHits + 1 /\ dockHits' >= Required(in)
  BY <1>3 DEF Approach
<1>5. Required(in) >= DockCount
  BY ShipAssumption DEF Required
<1>6. dockHits + 1 >= DockCount
  BY <1>4, <1>5, ShipAssumption DEF Required, IInv, TypeOK
<1> QED BY <1>2, <1>4, <1>6, HistoryStep, ShipAssumption DEF IInv, TypeOK, DockCounted

\* The only way to dock on fewer than DockCount consecutive tracks is through
\* a SAFE_MODE that interrupted an earlier approach or docking.
THEOREM UninterruptedDocking == Spec => UninterruptedDockingConfirmed
<1>1. IInv /\ [Next]_vars =>
        [ship # "DOCKING_ENGAGED" /\ ship' = "DOCKING_ENGAGED" /\ ~interrupted
            => dockRun' >= DockCount]_vars
  BY DockStep
<1> QED BY <1>1, AlwaysIInv, PTL DEF Spec, UninterruptedDockingConfirmed
=============================================================================
