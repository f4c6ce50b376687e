-------------------------- MODULE ArmControllerProofs --------------------------
(***************************************************************************)
(* What holds of the arm controller and the heartbeat node beside it, for  *)
(* any motors, positions and torques, and any number of losses and faults. *)
(***************************************************************************)
EXTENDS ArmController, Cia402Proofs, FiniteSetTheorems, SequenceTheorems

-----------------------------------------------------------------------------
(* Types.                                                                  *)

\* A joint is only ever asked for, and only ever holds, a position.
JointsHold ==
  \A m \in Joints : target[m] \in Positions /\ plan[m].arg \in Positions /\ held[m] \in Positions

TypeInv == TypeOK /\ JointsHold

\* What the type invariant says of the controller's own variables.
ArmTypes ==
  /\ target \in [ArmMotors -> Values]
  /\ real \subseteq ArmMotors
  /\ arm \in [ArmMotors -> ArmRecords]
  /\ lastRun \in [ArmMotors -> Positions]
  /\ override \subseteq ArmMotors
  /\ latched \in BOOLEAN /\ driveFaultStop \in BOOLEAN
  /\ plan \in [ArmMotors -> Plans]

\* The groups of motors and of values, and that zero is a value of each kind.
LEMMA Groups ==
  /\ Joints \subseteq ArmMotors /\ Grippers \subseteq ArmMotors
  /\ ArmMotors \subseteq Motors /\ DriveMotors \subseteq Motors
  /\ Joints \cap Grippers = {} /\ IsFiniteSet(Motors) /\ IsFiniteSet(ArmMotors)
  /\ Positions \subseteq Values /\ Torques \subseteq Values
  /\ 0 \in Positions /\ 0 \in Torques /\ 0 \in Values
<1>1. ArmMotors \subseteq Motors /\ IsFiniteSet(Motors)
  BY CanBusAssumption DEF Motors
<1>2. IsFiniteSet(ArmMotors)
  BY <1>1, FS_Subset
<1>3. QED
  BY <1>1, <1>2, CanBusAssumption DEF Motors, ArmMotors, Values

\* What a halt leaves in a drive is a value, and a position in that of a joint.
LEMMA HaltTyped ==
  ASSUME BusTypeOK, JointsHold, NEW m \in Motors
  PROVE  /\ HaltedTarget(m) \in Values /\ (m \in Joints => HaltedTarget(m) \in Positions)
         /\ HaltedProfile(m) \in BOOLEAN /\ (HaltedProfile(m) => profile[m])
<1>1. held[m] \in Values /\ commanded[m] \in Positions /\ profile[m] \in BOOLEAN
      /\ link[m] \in {"up", "down"}
  BY DEF BusTypeOK
<1>2. HaltedTarget(m) \in Values /\ (m \in Joints => HaltedTarget(m) \in Positions)
  BY <1>1, Groups DEF HaltedTarget, JointsHold
<1>3. QED
  BY <1>1, <1>2 DEF HaltedProfile

\* Disarming enables nothing, and turns off every motor of the set it can reach.
LEMMA DrivesDisarmed ==
  ASSUME BusTypeOK, JointsHold, NEW S, DisarmDrives(S)
  PROVE  /\ cia' \in [Motors -> CiaStates]
         /\ held' \in [Motors -> Values] /\ \A m \in Joints : held'[m] \in Positions
         /\ profile' \in [Motors -> BOOLEAN]
         /\ UNCHANGED <<feedback, commanded>>
         /\ \A m \in Motors : NotDriven(m) /\ (Moving(m)' => Moving(m))
         /\ \A m \in Motors : m \in S /\ link[m] = "up" => ~Enabled(m)'
         /\ \A m \in Motors : m \notin S => cia'[m] = cia[m]
<1>1. \A m \in Motors : cia[m] \in CiaStates
  BY DEF BusTypeOK
<1>2. \A m \in Motors :
        LET c == DISARM(cia[m], LostTo(m, DisarmWrites))
        IN /\ c \in CiaStates
           /\ c = "OPERATION_ENABLED" => cia[m] = "OPERATION_ENABLED"
           /\ link[m] = "up" => c = "SWITCH_ON_DISABLED"
  BY <1>1, DisarmTyped DEF LostTo
<1>3. cia' = [m \in Motors |->
        IF m \in S THEN DISARM(cia[m], LostTo(m, DisarmWrites)) ELSE cia[m]]
  BY DEF DisarmDrives
<1>4. /\ cia' \in [Motors -> CiaStates]
      /\ \A m \in Motors : /\ Enabled(m)' => Enabled(m)
                           /\ m \in S /\ link[m] = "up" => ~Enabled(m)'
                           /\ m \notin S => cia'[m] = cia[m]
  BY <1>1, <1>2, <1>3 DEF Enabled
<1>5. \A m \in Motors :
        /\ HaltedTarget(m) \in Values /\ (m \in Joints => HaltedTarget(m) \in Positions)
        /\ HaltedProfile(m) \in BOOLEAN /\ (HaltedProfile(m) => profile[m])
  BY HaltTyped
<1>6. held' = [m \in Motors |-> IF m \in S THEN HaltedTarget(m) ELSE held[m]]
  BY DEF DisarmDrives
<1>7. held' \in [Motors -> Values] /\ \A m \in Joints : held'[m] \in Positions
  BY <1>5, <1>6, Groups DEF BusTypeOK, JointsHold
<1>8. profile' = [m \in Motors |-> IF m \in S THEN HaltedProfile(m) ELSE profile[m]]
  BY DEF DisarmDrives
<1>9. profile' \in [Motors -> BOOLEAN] /\ \A m \in Motors : profile'[m] => profile[m]
  BY <1>5, <1>8 DEF BusTypeOK
<1>10. \A m \in Motors : m \notin Joints => HaltedTarget(m) \in {0, held[m]}
  BY DEF HaltedTarget, BusTypeOK
<1>11. \A m \in Motors : Moving(m)' => Moving(m)
  BY <1>6, <1>9, <1>10 DEF Moving
<1>12. QED
  BY <1>4, <1>7, <1>9, <1>11 DEF NotDriven, DisarmDrives

\* A settled entry and an empty plan have their types.
LEMMA EntriesTyped ==
  /\ \A s \in ArmStates : Settled(s) \in ArmRecords /\ Settled(s).state = s
  /\ \A op \in {"NONE", "ARM", "RUN", "DISARM"} : Do(op) \in Plans /\ Do(op).arg \in Positions
  /\ Nothing \in Plans /\ Nothing.arg \in Positions /\ Nothing.op = "NONE"
BY Groups DEF Settled, ArmRecords, Do, Nothing, Plans

\* At the start every motor is disarmed and nothing is planned.
LEMMA TypeInvInit == Init => TypeInv
<1> SUFFICES ASSUME Init PROVE TypeInv
  OBVIOUS
<1>1. BusTypeOK
  BY Groups DEF Init, BusInit, BusTypeOK, CiaStates
<1>2. MonitorTypeOK
  <2>1. activeQ \in Seq(SUBSET ArmMotors)
    BY DEF Init, MonitorInit
  <2>2. armFaultQ \in Seq(ArmMotors \cup {ALL})
    BY DEF Init, MonitorInit
  <2>3. QED
    BY <2>1, <2>2 DEF Init, MonitorInit, MonitorTypeOK
<1>3. ArmTypes
  BY EntriesTyped, Groups DEF Init, ArmTypes, ArmStates
<1>4. JointsHold
  BY EntriesTyped, Groups DEF Init, BusInit, JointsHold
<1>5. QED
  BY <1>1, <1>2, <1>3, <1>4 DEF TypeInv, TypeOK, ArmTypes

\* The motors and their links.
LEMMA MotorsTyped == TypeInv /\ MotorsMove => TypeInv'
<1> SUFFICES ASSUME TypeInv, MotorsMove PROVE TypeInv'
  OBVIOUS
<1> USE DEF TypeInv, TypeOK
<1>1. UNCHANGED <<monitor, armVars>>
  BY DEF MotorsMove
<1>2. BusTypeOK' /\ \A m \in Joints : held'[m] \in Positions
  <2>1. PICK m \in Motors : Travel(m) \/ DriveFaults(m) \/ LinkLost(m) \/ LinkReturns(m)
    BY DEF MotorsMove
  <2>2. CASE Travel(m)
    BY <2>2 DEF Travel, BusTypeOK, JointsHold, wires
  <2>3. CASE DriveFaults(m)
    BY <2>3 DEF DriveFaults, BusTypeOK, JointsHold, CiaStates
  <2>4. CASE LinkLost(m) \/ LinkReturns(m)
    BY <2>4 DEF LinkLost, LinkReturns, BusTypeOK, JointsHold, drives
  <2>5. QED
    BY <2>1, <2>2, <2>3, <2>4
<1>3. MonitorTypeOK'
  BY <1>1 DEF monitor, maps, latches, polling, canThread, topics, MonitorTypeOK
<1>4. QED
  BY <1>1, <1>2, <1>3 DEF armVars, JointsHold

\* A fault report disarms motors and adds the names of arm motors, or of all, to the
\* messages under way; the flags of the node are only ever set.
LEMMA TriggerTyped ==
  ASSUME TypeInv, NEW driveFault \in BOOLEAN, NEW busFault \in BOOLEAN,
         NEW armFaults \in SUBSET ArmMotors, Trigger(driveFault, busFault, armFaults)
  PROVE  /\ cia' \in [Motors -> CiaStates]
         /\ held' \in [Motors -> Values] /\ \A m \in Joints : held'[m] \in Positions
         /\ profile' \in [Motors -> BOOLEAN]
         /\ UNCHANGED <<feedback, commanded>>
         /\ \A m \in Motors : NotDriven(m) /\ (Moving(m)' => Moving(m))
         /\ driveTriggered' \in BOOLEAN /\ (driveTriggered => driveTriggered')
         /\ driveFaultQ' \in BOOLEAN /\ busLatched' \in BOOLEAN
         /\ armFaulted \subseteq armFaulted' /\ armFaulted' \subseteq ArmMotors
         /\ armFaultQ' \in Seq(ArmMotors \cup {ALL})
         /\ ~busFault => \A m \in ArmMotors :
              cia'[m] = cia[m] \/ driveTriggered' \/ m \in armFaulted'
<1> USE DEF TypeInv, TypeOK
<1> DEFINE drive == driveFault /\ ~driveTriggered
           whole == busFault /\ ~busLatched
           single == IF busLatched THEN {} ELSE armFaults \ armFaulted
           hit == CASE drive -> Motors
                    [] ~drive /\ whole -> ArmMotors
                    [] OTHER -> single
           last == IF whole THEN <<ALL>> ELSE <<>>
<1>1. /\ driveTriggered \in BOOLEAN /\ driveFaultQ \in BOOLEAN /\ busLatched \in BOOLEAN
      /\ armFaulted \subseteq ArmMotors /\ armFaultQ \in Seq(ArmMotors \cup {ALL})
  BY DEF MonitorTypeOK
<1>2. drive \in BOOLEAN /\ whole \in BOOLEAN
  BY <1>1
<1>3. single \subseteq ArmMotors
  OBVIOUS
<1>4. /\ driveTriggered' = (driveTriggered \/ drive)
      /\ driveFaultQ' = (driveFaultQ \/ drive)
      /\ busLatched' = (busLatched \/ whole)
      /\ armFaulted' = armFaulted \cup single
      /\ DisarmDrives(hit)
  BY DEF Trigger
<1>5. PICK order \in [1..Cardinality(single) -> single] :
        armFaultQ' = armFaultQ \o order \o last
  BY DEF Trigger
<1>6. ~busFault => driveTriggered' \/ hit \subseteq armFaulted'
  <2>1. SUFFICES ASSUME busFault = FALSE, drive = FALSE PROVE hit = single
    BY <1>4
  <2>2. ~drive /\ ~whole
    BY <2>1
  <2> HIDE DEF drive, whole, single
  <2>3. QED
    BY <2>2
<1> HIDE DEF drive, whole, hit
<1>7. order \in Seq(ArmMotors \cup {ALL})
  <2>1. Cardinality(single) \in Nat
    BY <1>3, Groups, FS_Subset, FS_CardinalityType
  <2> HIDE DEF single
  <2>2. order \in [1..Cardinality(single) -> ArmMotors \cup {ALL}]
    BY <1>3, <1>5
  <2>3. QED
    BY <2>1, <2>2
<1>8. last \in Seq(ArmMotors \cup {ALL})
  <2>1. last = <<ALL>> \/ last = <<>>
    OBVIOUS
  <2> HIDE DEF last
  <2>2. <<ALL>> \in Seq(ArmMotors \cup {ALL}) /\ <<>> \in Seq(ArmMotors \cup {ALL})
    OBVIOUS
  <2>3. QED
    BY <2>1, <2>2
<1> HIDE DEF single, last
<1>9. armFaultQ' \in Seq(ArmMotors \cup {ALL})
  BY <1>1, <1>5, <1>7, <1>8, ConcatProperties
<1>10. driveTriggered' \in BOOLEAN /\ driveFaultQ' \in BOOLEAN /\ busLatched' \in BOOLEAN
  BY <1>4
<1>11. armFaulted \subseteq armFaulted' /\ armFaulted' \subseteq ArmMotors
  BY <1>1, <1>3, <1>4
<1>12. driveTriggered => driveTriggered'
  BY <1>4
<1>13. /\ cia' \in [Motors -> CiaStates]
       /\ held' \in [Motors -> Values] /\ \A m \in Joints : held'[m] \in Positions
       /\ profile' \in [Motors -> BOOLEAN]
       /\ UNCHANGED <<feedback, commanded>>
       /\ \A m \in Motors : NotDriven(m) /\ (Moving(m)' => Moving(m))
       /\ \A m \in Motors : m \notin hit => cia'[m] = cia[m]
  BY <1>4, DrivesDisarmed
<1>14. ~busFault => \A m \in ArmMotors :
         cia'[m] = cia[m] \/ driveTriggered' \/ m \in armFaulted'
  BY <1>6, <1>11, <1>13, Groups
<1>15. QED
  BY <1>9, <1>10, <1>11, <1>12, <1>13, <1>14

\* The heartbeat node.
LEMMA MonitorTyped == TypeInv /\ MonitorNext /\ UNCHANGED armVars => TypeInv'
<1> SUFFICES ASSUME TypeInv, MonitorNext, UNCHANGED armVars PROVE TypeInv'
  OBVIOUS
<1> USE DEF TypeInv, TypeOK
<1>1. AliveArm \subseteq ArmMotors
  BY DEF AliveArm
<1>2. ASSUME BusTypeOK', MonitorTypeOK', \A m \in Joints : held'[m] \in Positions
      PROVE  TypeInv'
  BY <1>2 DEF armVars, JointsHold
<1>3. ASSUME NEW m \in Motors, Heartbeat(m) \/ BeatGoesStale(m) \/ LossGrowsLong(m)
      PROVE  TypeInv'
  <2>1. UNCHANGED <<bus, latches, pollStep, pollList, canList, topics>>
    BY <1>3 DEF Heartbeat, BeatGoesStale, LossGrowsLong, polling, canThread
  <2>2. BusTypeOK' /\ \A k \in Joints : held'[k] \in Positions
    BY <2>1 DEF bus, drives, wires, BusTypeOK, JointsHold
  <2>3. /\ beat' \in [Motors -> {"fresh", "stale"}]
        /\ alive' \in [Motors -> BOOLEAN]
        /\ lostSince' \in [Motors -> {"None", "Recent", "Long"}]
        /\ canStep' \in {"idle", "list", "publish"}
    BY <1>3 DEF Heartbeat, BeatGoesStale, LossGrowsLong, MonitorTypeOK, canThread
  <2>4. MonitorTypeOK'
    BY <2>1, <2>3 DEF MonitorTypeOK, latches, topics
  <2>5. QED
    BY <1>2, <2>2, <2>4
<1>4. CASE CanComputesList \/ PollComputesList
  <2>1. UNCHANGED <<bus, maps, latches, topics>>
    BY <1>4 DEF CanComputesList, PollComputesList
  <2>2. BusTypeOK' /\ \A k \in Joints : held'[k] \in Positions
    BY <2>1 DEF bus, drives, wires, BusTypeOK, JointsHold
  <2>3. MonitorTypeOK'
    BY <1>1, <1>4 DEF CanComputesList, PollComputesList, MonitorTypeOK, maps, latches, topics,
       polling, canThread
  <2>4. QED
    BY <1>2, <2>2, <2>3
<1>5. CASE CanPublishes \/ PollPublishes
  <2>1. UNCHANGED <<bus, maps, latches, armFaultQ, driveFaultQ>>
    BY <1>5 DEF CanPublishes, PollPublishes
  <2>2. BusTypeOK' /\ \A k \in Joints : held'[k] \in Positions
    BY <2>1 DEF bus, drives, wires, BusTypeOK, JointsHold
  <2>3. activeQ' \in Seq(SUBSET ArmMotors)
    <3>1. \E l \in SUBSET ArmMotors : activeQ' = Append(activeQ, l)
      BY <1>5 DEF CanPublishes, PollPublishes, MonitorTypeOK
    <3>2. QED
      BY <3>1 DEF MonitorTypeOK
  <2>4. /\ pollStep' \in {"idle", "list", "publish", "check"}
        /\ canStep' \in {"idle", "list", "publish"}
        /\ pollList' \subseteq ArmMotors /\ canList' \subseteq ArmMotors
    BY <1>5 DEF CanPublishes, PollPublishes, MonitorTypeOK, polling, canThread
  <2>5. MonitorTypeOK'
    BY <2>1, <2>3, <2>4 DEF MonitorTypeOK, maps, latches
  <2>6. QED
    BY <1>2, <2>2, <2>5
<1>6. CASE PollUpdates
  <2>1. UNCHANGED <<drives, wires, beat, latches, pollList, canThread, topics>>
        /\ executor' = "monitor"
    BY <1>6 DEF PollUpdates
  <2>2. BusTypeOK' /\ \A k \in Joints : held'[k] \in Positions
    BY <2>1 DEF drives, wires, BusTypeOK, JointsHold
  <2>3. /\ alive' \in [Motors -> BOOLEAN]
        /\ pollStep' \in {"idle", "list", "publish", "check"}
    BY <1>6 DEF PollUpdates
  <2>4. lostSince' \in [Motors -> {"None", "Recent", "Long"}]
    <3>1. \A m \in Motors : beat[m] \in {"fresh", "stale"} /\ lostSince[m] \in {"None", "Recent", "Long"}
      BY DEF MonitorTypeOK
    <3>2. QED
      BY <1>6, <3>1 DEF PollUpdates
  <2>5. MonitorTypeOK'
    BY <2>1, <2>3, <2>4 DEF MonitorTypeOK, latches, canThread, topics
  <2>6. QED
    BY <1>2, <2>2, <2>5
<1>7. CASE CheckHeartbeatFaults \/ PublishDiagnostics
  <2>1. PICK driveFault \in BOOLEAN, busFault \in BOOLEAN, armFaults \in SUBSET ArmMotors :
          Trigger(driveFault, busFault, armFaults)
    <3>1. CASE CheckHeartbeatFaults
      BY <3>1 DEF CheckHeartbeatFaults
    <3>2. CASE PublishDiagnostics
      BY <3>2 DEF PublishDiagnostics
    <3>3. QED
      BY <1>7, <3>1, <3>2
  <2>2. /\ UNCHANGED <<wires, maps, pollList, canThread, activeQ>>
        /\ pollStep' \in {"idle", "check"} /\ executor' \in {"free", "monitor"}
    BY <1>7 DEF CheckHeartbeatFaults, PublishDiagnostics
  <2>3. BusTypeOK' /\ \A k \in Joints : held'[k] \in Positions
    BY <2>1, <2>2, TriggerTyped DEF BusTypeOK, wires
  <2>4. MonitorTypeOK'
    BY <2>1, <2>2, TriggerTyped DEF MonitorTypeOK, maps, canThread
  <2>5. QED
    BY <1>2, <2>3, <2>4
<1>8. QED
  BY <1>3, <1>4, <1>5, <1>6, <1>7 DEF MonitorNext

\* What a tick decides has its types; for a motor it does not consider it is nothing.
LEMMA DecisionTyped ==
  ASSUME TypeInv, NEW m \in ArmMotors
  PROVE  /\ PlannedAction(m) \in Plans /\ DecidedArm(m) \in ArmRecords
         /\ m \in Joints => PlannedAction(m).arg \in Positions
         /\ ~IsReal(m) => PlannedAction(m) = Nothing /\ DecidedArm(m) = arm[m]
<1>1. target[m] \in Values /\ arm[m] \in ArmRecords /\ (m \in Joints => target[m] \in Positions)
  BY DEF TypeInv, TypeOK, JointsHold
<1>2. PlannedAction(m) \in {Nothing, Do("ARM"), Do("DISARM"), Run(0), Run(target[m])}
  BY DEF PlannedAction
<1>3. PlannedAction(m) \in Plans /\ (m \in Joints => PlannedAction(m).arg \in Positions)
  BY <1>1, <1>2, EntriesTyped, Groups DEF Run, Plans
<1>4. DecidedArm(m) \in ArmRecords
  BY <1>1, EntriesTyped DEF DecidedArm, ArmRecords, ArmStates
<1>5. ~IsReal(m) => PlannedAction(m) = Nothing /\ DecidedArm(m) = arm[m]
  BY DEF PlannedAction, DecidedArm, Considered, IsReal
<1>6. QED
  BY <1>3, <1>4, <1>5

\* An action of a tick is done to a motor that it was planned for: writes that enable
\* it, that move it, or that stop it.
LEMMA ExecuteTyped == TypeInv /\ (\E m \in ArmMotors : Execute(m)) => TypeInv'
<1> SUFFICES ASSUME TypeInv, NEW m \in ArmMotors, Execute(m) PROVE TypeInv'
  OBVIOUS
<1> USE DEF TypeInv, TypeOK
<1>1. m \in Motors /\ plan[m] \in Plans /\ (m \in Joints => plan[m].arg \in Positions)
  BY Groups DEF JointsHold
<1>2. /\ HaltedTarget(m) \in Values /\ (m \in Joints => HaltedTarget(m) \in Positions)
      /\ HaltedProfile(m) \in BOOLEAN
  BY <1>1, HaltTyped
<1>3. /\ plan' = [plan EXCEPT ![m] = Nothing] /\ executor' \in {"tick", "free"}
      /\ UNCHANGED <<feedback, wires, monitor, target, real, override, latched, driveFaultStop>>
  BY DEF Execute, ExecuteArm, ExecuteRun, ExecuteDisarm, Finish
<1>4. /\ cia' \in [Motors -> CiaStates]
      /\ held' \in [Motors -> Values] /\ \A k \in Joints : held'[k] \in Positions
      /\ profile' \in [Motors -> BOOLEAN]
      /\ commanded' \in [Motors -> Positions]
      /\ lastRun' \in [ArmMotors -> Positions]
      /\ arm' \in [ArmMotors -> ArmRecords]
  <2>1. CASE ExecuteArm(m)
    <3>1. ARM(cia[m], LostTo(m, ArmWrites)) \in CiaStates
      BY <1>1, ArmTyped DEF BusTypeOK
    <3>2. [state |-> "ARMING", arming |-> "Wait", idle |-> "None"] \in ArmRecords
      BY DEF ArmRecords, ArmStates
    <3>3. QED
      BY <1>1, <1>2, <2>1, <3>1, <3>2 DEF ExecuteArm, BusTypeOK, JointsHold
  <2>2. CASE ExecuteRun(m)
    <3>1. plan[m].arg \in Values
      BY <1>1 DEF Plans
    <3>2. cia' = cia /\ held' \in [Motors -> Values] /\ \A k \in Joints : held'[k] \in Positions
      BY <1>1, <2>2, <3>1 DEF ExecuteRun, BusTypeOK, JointsHold
    <3>3. profile' \in [Motors -> BOOLEAN]
      BY <1>1, <2>2 DEF ExecuteRun, BusTypeOK
    <3>4. commanded' \in [Motors -> Positions] /\ lastRun' \in [ArmMotors -> Positions]
      BY <1>1, <2>2 DEF ExecuteRun, BusTypeOK
    <3>5. arm' \in [ArmMotors -> ArmRecords]
      BY <2>2 DEF ExecuteRun, ArmRecords
    <3>6. QED
      BY <3>2, <3>3, <3>4, <3>5 DEF BusTypeOK
  <2>3. CASE ExecuteDisarm(m)
    <3>1. DISARM(cia[m], LostTo(m, DisarmWrites)) \in CiaStates
      BY <1>1, DisarmTyped DEF BusTypeOK
    <3>2. Settled("DISARMED") \in ArmRecords
      BY EntriesTyped DEF ArmStates
    <3>3. QED
      BY <1>1, <1>2, <2>3, <3>1, <3>2 DEF ExecuteDisarm, BusTypeOK, JointsHold
  <2>4. QED
    BY <2>1, <2>2, <2>3 DEF Execute
<1>5. plan' \in [ArmMotors -> Plans] /\ \A k \in Joints : plan'[k].arg \in Positions
  BY <1>3, EntriesTyped, Groups DEF JointsHold
<1>6. BusTypeOK'
  BY <1>3, <1>4 DEF BusTypeOK, wires
<1>7. MonitorTypeOK'
  BY <1>3 DEF monitor, maps, latches, polling, canThread, topics, MonitorTypeOK
<1>8. QED
  BY <1>3, <1>4, <1>5, <1>6, <1>7 DEF JointsHold

\* A message that takes motors away disarms them, whatever its cause.
LEMMA MotorsTaken ==
  ASSUME TypeInv, LatchArmBus \/ \E m \in ArmMotors : RemoveMotor(m)
  PROVE  /\ cia' \in [Motors -> CiaStates]
         /\ held' \in [Motors -> Values] /\ \A m \in Joints : held'[m] \in Positions
         /\ profile' \in [Motors -> BOOLEAN]
         /\ UNCHANGED <<feedback, commanded>>
         /\ \A m \in Motors : NotDriven(m) /\ (Moving(m)' => Moving(m))
         /\ real' \subseteq real /\ override' \subseteq ArmMotors
         /\ arm' \in [ArmMotors -> ArmRecords]
         /\ latched' \in BOOLEAN /\ (latched => latched')
<1> USE DEF TypeInv, TypeOK
<1>1. Settled("DISARMED") \in ArmRecords
  BY EntriesTyped DEF ArmStates
<1>2. CASE UNCHANGED <<drives, real, arm, override, latched>>
  BY <1>2 DEF drives, BusTypeOK, JointsHold, NotDriven, Enabled, Moving
<1>3. CASE \E S : DisarmDrives(S)
  <2>1. /\ real' \subseteq real /\ override' \subseteq ArmMotors
        /\ arm' \in [ArmMotors -> ArmRecords]
        /\ latched' \in BOOLEAN /\ (latched => latched')
    BY <1>1 DEF LatchArmBus, RemoveMotor
  <2>2. QED
    BY <1>3, <2>1, DrivesDisarmed
<1>4. QED
  BY <1>2, <1>3 DEF LatchArmBus, RemoveMotor

\* The handlers, the decision and the timers.
LEMMA ArmNextTyped == TypeInv /\ ArmNext => TypeInv'
<1> SUFFICES ASSUME TypeInv, ArmNext PROVE TypeInv'
  OBVIOUS
<1> USE DEF TypeInv, TypeOK
<1>1. CASE OnArmCmd \/ OnSbusJs
  <2>1. /\ target' \in [ArmMotors -> Values] /\ \A m \in Joints : target'[m] \in Positions
        /\ UNCHANGED <<bus, monitor, real, arm, lastRun, override, latched, driveFaultStop, plan>>
    BY <1>1, Groups DEF OnArmCmd, OnSbusJs, JointsHold
  <2>2. BusTypeOK' /\ MonitorTypeOK'
    BY <2>1 DEF bus, drives, wires, BusTypeOK, monitor, maps, latches, polling, canThread, topics,
       MonitorTypeOK
  <2>3. QED
    BY <2>1, <2>2 DEF JointsHold, bus, drives
<1>2. CASE (\E m \in ArmMotors : RearmWaitElapses(m) \/ IdleElapses(m)) \/ TickDecides
  <2>1. /\ UNCHANGED <<drives, wires, monitor, target, real, lastRun, override, latched, driveFaultStop>>
        /\ executor' \in {executor, "tick", "free"}
    BY <1>2 DEF RearmWaitElapses, IdleElapses, TickDecides, bus
  <2>2. BusTypeOK' /\ MonitorTypeOK'
    BY <2>1 DEF drives, wires, BusTypeOK, monitor, maps, latches, polling, canThread, topics,
       MonitorTypeOK
  <2>3. /\ arm' \in [ArmMotors -> ArmRecords] /\ plan' \in [ArmMotors -> Plans]
        /\ \A m \in Joints : plan'[m].arg \in Positions
    <3>1. CASE \E m \in ArmMotors : RearmWaitElapses(m) \/ IdleElapses(m)
      <4>1. PICK m \in ArmMotors :
              \/ arm' = [arm EXCEPT ![m].arming = "Due"]
              \/ arm' = [arm EXCEPT ![m].idle = "Long"]
        BY <3>1 DEF RearmWaitElapses, IdleElapses
      <4>2. arm' \in [ArmMotors -> ArmRecords]
        BY <4>1 DEF ArmRecords
      <4>3. plan' = plan
        BY <3>1 DEF RearmWaitElapses, IdleElapses
      <4>4. QED
        BY <4>2, <4>3 DEF JointsHold
    <3>2. CASE TickDecides
      BY <3>2, DecisionTyped, Groups DEF TickDecides
    <3>3. QED
      BY <1>2, <3>1, <3>2
  <2>4. QED
    BY <2>1, <2>2, <2>3 DEF JointsHold, drives
<1>3. CASE OnArmActive
  <2>1. /\ UNCHANGED <<bus, maps, latches, polling, canThread, armFaultQ, driveFaultQ,
                       target, real, arm, lastRun, latched, driveFaultStop, plan>>
        /\ activeQ # <<>> /\ activeQ' = Tail(activeQ)
        /\ override' \subseteq ArmMotors
    BY <1>3 DEF OnArmActive
  <2>2. activeQ' \in Seq(SUBSET ArmMotors)
    BY <2>1, HeadTailProperties DEF MonitorTypeOK
  <2>3. BusTypeOK' /\ MonitorTypeOK'
    BY <2>1, <2>2 DEF bus, drives, wires, BusTypeOK, maps, latches, polling, canThread, MonitorTypeOK
  <2>4. QED
    BY <2>1, <2>3 DEF JointsHold, bus, drives
<1>4. CASE OnArmFault \/ OnArmBattery
  <2>1. /\ LatchArmBus \/ \E m \in ArmMotors : RemoveMotor(m)
        /\ armFaultQ' \in Seq(ArmMotors \cup {ALL})
        /\ UNCHANGED <<wires, executor, maps, latches, polling, canThread, activeQ,
                       driveFaultQ, target, lastRun, driveFaultStop, plan>>
    <3>1. CASE OnArmFault
      <4>1. Head(armFaultQ) \in ArmMotors \cup {ALL} /\ Tail(armFaultQ) \in Seq(ArmMotors \cup {ALL})
        BY <3>1, HeadTailProperties DEF OnArmFault, MonitorTypeOK
      <4>2. QED
        BY <3>1, <4>1 DEF OnArmFault
    <3>2. CASE OnArmBattery
      BY <3>2 DEF OnArmBattery, monitor, topics, MonitorTypeOK
    <3>3. QED
      BY <1>4, <3>1, <3>2
  <2>2. BusTypeOK'
    BY <2>1, MotorsTaken DEF BusTypeOK, wires
  <2>3. MonitorTypeOK'
    BY <2>1 DEF MonitorTypeOK, maps, latches, polling, canThread
  <2>4. QED
    BY <2>1, <2>2, <2>3, MotorsTaken DEF JointsHold
<1>5. CASE OnDriveFault
  <2>1. /\ DisarmDrives(real) /\ driveFaultQ' = FALSE /\ driveFaultStop' = TRUE
        /\ UNCHANGED <<wires, executor, maps, latches, polling, canThread, activeQ, armFaultQ,
                       target, real, lastRun, override, latched, plan>>
    BY <1>5 DEF OnDriveFault
  <2>2. arm' \in [ArmMotors -> ArmRecords]
    BY <1>5, EntriesTyped DEF OnDriveFault, ArmStates
  <2>3. BusTypeOK' /\ MonitorTypeOK'
    BY <2>1, DrivesDisarmed DEF BusTypeOK, wires, MonitorTypeOK, maps, latches, polling, canThread
  <2>4. QED
    BY <2>1, <2>2, <2>3, DrivesDisarmed DEF JointsHold
<1>6. CASE \E m \in ArmMotors : Execute(m)
  BY <1>6, ExecuteTyped
<1>7. QED
  BY <1>1, <1>2, <1>3, <1>4, <1>5, <1>6 DEF ArmNext

\* Every step of the three keeps the types.
LEMMA TypeInvNext == TypeInv /\ [Next]_vars => TypeInv'
<1> SUFFICES ASSUME TypeInv, [Next]_vars PROVE TypeInv'
  OBVIOUS
<1>1. CASE UNCHANGED vars
  BY <1>1 DEF vars, bus, drives, wires, monitor, maps, latches, polling, canThread, topics, armVars,
     TypeInv, TypeOK, BusTypeOK, MonitorTypeOK, JointsHold
<1>2. CASE Next
  BY <1>2, ArmNextTyped, MotorsTyped, MonitorTyped DEF Next
<1>3. QED
  BY <1>1, <1>2

\* Every variable of the arm controller, the heartbeat node and the bus keeps its type.
THEOREM ArmTypeCorrect == Spec => []TypeOK
<1>1. TypeInv => TypeOK
  BY DEF TypeInv
<1>2. QED
  BY <1>1, TypeInvInit, TypeInvNext, PTL DEF Spec

-----------------------------------------------------------------------------
(* Loopback and the latch.                                                 *)

\* A plan exists only during a tick and only for motors that are real, and nothing
\* that could change which are runs meanwhile; what the controller was not given, or
\* gave back, it does not take for armed.
TickInv ==
  /\ executor # "tick" => \A m \in ArmMotors : plan[m] = Nothing
  /\ pollStep # "idle" => executor = "monitor"
  /\ \A m \in ArmMotors : plan[m].op # "NONE" => IsReal(m)
  /\ latched => real = {}
  /\ \A m \in ArmMotors : m \notin real => arm[m].state \in {"DISARMED", "FAULTED"}

\* The steps that leave the executor, the plan and the motors in use alone.
LEMMA TickKept ==
  TickInv /\ UNCHANGED <<executor, pollStep, plan, real, override, latched, arm>> => TickInv'
BY DEF TickInv, IsReal

\* The tick, and every callback between two ticks.
LEMMA TickInvNext == TypeInv /\ TickInv /\ [Next]_vars => TickInv'
<1> SUFFICES ASSUME TypeInv, TickInv, [Next]_vars PROVE TickInv'
  OBVIOUS
<1> USE DEF TypeInv, TypeOK
<1>1. CASE UNCHANGED vars \/ MotorsMove \/ OnArmCmd \/ OnSbusJs
  <2>1. UNCHANGED <<executor, pollStep, plan, real, override, latched, arm>>
    BY <1>1 DEF vars, bus, wires, monitor, polling, armVars, MotorsMove, Travel, DriveFaults,
       LinkLost, LinkReturns, OnArmCmd, OnSbusJs
  <2>2. QED
    BY <2>1, TickKept
<1>2. CASE UNCHANGED armVars
           /\ ((\E m \in Motors : Heartbeat(m) \/ BeatGoesStale(m) \/ LossGrowsLong(m))
               \/ CanComputesList \/ CanPublishes)
  <2>1. UNCHANGED <<executor, pollStep, plan, real, override, latched, arm>>
    BY <1>2 DEF armVars, bus, polling, Heartbeat, BeatGoesStale, LossGrowsLong, CanComputesList,
       CanPublishes
  <2>2. QED
    BY <2>1, TickKept
<1>3. CASE UNCHANGED armVars
           /\ (PollUpdates \/ PollComputesList \/ PollPublishes \/ CheckHeartbeatFaults
               \/ PublishDiagnostics)
  <2>1. /\ executor # "tick"
        /\ executor' # "tick"
        /\ pollStep' # "idle" => executor' = "monitor"
    BY <1>3 DEF PollUpdates, PollComputesList, PollPublishes, CheckHeartbeatFaults,
       PublishDiagnostics, TickInv, bus
  <2>2. UNCHANGED <<plan, real, override, latched, arm>>
    BY <1>3 DEF armVars
  <2>3. QED
    BY <2>1, <2>2 DEF TickInv, IsReal
<1>4. CASE OnArmActive \/ OnArmFault \/ OnArmBattery \/ OnDriveFault
  <2>1. executor = "free" /\ UNCHANGED <<executor, pollStep, plan>>
    BY <1>4 DEF OnArmActive, OnArmFault, OnArmBattery, OnDriveFault, bus, polling, monitor
  <2>2. latched' => real' = {}
    BY <1>4 DEF OnArmActive, OnArmFault, OnArmBattery, OnDriveFault, LatchArmBus, RemoveMotor,
       TickInv
  <2>3. \A m \in ArmMotors : m \notin real' => arm'[m].state \in {"DISARMED", "FAULTED"}
    <3>1. \A m \in ArmMotors : Settled("DISARMED").state = "DISARMED"
                               /\ Settled("FAULTED").state = "FAULTED"
      BY DEF Settled
    <3>2. CASE OnArmActive
      BY <3>2 DEF OnArmActive, TickInv
    <3>3. CASE OnDriveFault
      BY <3>1, <3>3 DEF OnDriveFault, TickInv
    <3>4. CASE LatchArmBus
      BY <3>1, <3>4 DEF LatchArmBus, TickInv
    <3>5. CASE \E k : RemoveMotor(k)
      BY <3>1, <3>5 DEF RemoveMotor, TickInv
    <3>6. QED
      BY <1>4, <3>2, <3>3, <3>4, <3>5 DEF OnArmFault, OnArmBattery
  <2>4. QED
    BY <2>1, <2>2, <2>3, EntriesTyped DEF TickInv
<1>5. CASE TickDecides
  <2>1. /\ \A m \in ArmMotors : plan'[m] = PlannedAction(m) /\ arm'[m] = DecidedArm(m)
        /\ executor' # "tick" => \A m \in ArmMotors : plan'[m] = Nothing
        /\ UNCHANGED <<pollStep, real, override, latched>> /\ executor = "free"
    BY <1>5 DEF TickDecides, monitor, polling
  <2>2. pollStep = "idle"
    BY <2>1 DEF TickInv
  <2>3. \A m \in ArmMotors : ~IsReal(m) => plan'[m] = Nothing /\ arm'[m] = arm[m]
    BY <2>1, DecisionTyped
  <2>4. QED
    BY <2>1, <2>2, <2>3, EntriesTyped DEF TickInv, IsReal
<1>6. ASSUME NEW m \in ArmMotors, Execute(m) PROVE TickInv'
  <2>1. /\ plan[m].op # "NONE"
        /\ plan' = [plan EXCEPT ![m] = Nothing]
        /\ executor' = IF \E k \in ArmMotors \ {m} : plan[k] # Nothing THEN "tick" ELSE "free"
        /\ UNCHANGED <<pollStep, real, override, latched>>
        /\ \A k \in ArmMotors \ {m} : arm'[k] = arm[k]
    BY <1>6 DEF Execute, ExecuteArm, ExecuteRun, ExecuteDisarm, Finish, monitor, polling
  <2>2. IsReal(m) /\ executor = "tick"
    BY <2>1, EntriesTyped DEF TickInv
  <2>3. executor' # "tick" => \A k \in ArmMotors : plan'[k] = Nothing
    BY <2>1
  <2>4. \A k \in ArmMotors : plan'[k] = Nothing \/ plan'[k] = plan[k]
    BY <2>1
  <2>5. QED
    BY <2>1, <2>2, <2>3, <2>4, EntriesTyped DEF TickInv, IsReal
<1>7. ASSUME NEW m \in ArmMotors, RearmWaitElapses(m) \/ IdleElapses(m) PROVE TickInv'
  <2>1. UNCHANGED <<executor, pollStep, plan, real, override, latched>>
    BY <1>7 DEF RearmWaitElapses, IdleElapses, bus, monitor, polling
  <2>2. \A k \in ArmMotors : arm'[k].state = arm[k].state
    BY <1>7 DEF RearmWaitElapses, IdleElapses, ArmRecords
  <2>3. QED
    BY <2>1, <2>2 DEF TickInv, IsReal
<1>8. QED
  BY <1>1, <1>2, <1>3, <1>4, <1>5, <1>6, <1>7 DEF Next, ArmNext, MonitorNext

\* At the start nothing is planned, and a latched arm has no motors.
LEMMA TickInvInit == Init => TickInv
<1> SUFFICES ASSUME Init PROVE TickInv
  OBVIOUS
<1>1. executor = "free" /\ pollStep = "idle" /\ \A m \in ArmMotors : plan[m] = Nothing
  BY DEF Init, BusInit, MonitorInit
<1>2. \A m \in ArmMotors : arm[m].state = "DISARMED"
  BY DEF Init, Settled
<1>3. latched => real = {}
  BY DEF Init
<1>4. QED
  BY <1>1, <1>2, <1>3, EntriesTyped DEF TickInv

\* Whatever is not an action of a tick enables no arm drive and sets none moving.
LEMMA OnlyTicksDrive ==
  ASSUME TypeInv, [Next]_vars, ~(\E k \in ArmMotors : Execute(k)), NEW m \in ArmMotors
  PROVE  NotDriven(m) /\ (Moving(m)' => Moving(m))
<1> DEFINE Goal == NotDriven(m) /\ (Moving(m)' => Moving(m))
<1> USE DEF TypeInv, TypeOK
<1>1. m \in Motors
  BY Groups
<1>2. ASSUME cia'[m] = cia[m] \/ cia'[m] = "FAULT", profile'[m] = profile[m], held'[m] = held[m]
      PROVE  Goal
  BY <1>2 DEF NotDriven, Enabled, Moving
<1>3. CASE UNCHANGED <<cia, profile, held>>
  BY <1>2, <1>3
<1>4. CASE UNCHANGED vars \/ OnArmCmd \/ OnSbusJs \/ OnArmActive \/ TickDecides
           \/ \E k \in ArmMotors : RearmWaitElapses(k) \/ IdleElapses(k)
  BY <1>3, <1>4 DEF vars, bus, drives, OnArmCmd, OnSbusJs, OnArmActive, TickDecides,
     RearmWaitElapses, IdleElapses
<1>5. CASE MotorsMove
  BY <1>1, <1>2, <1>3, <1>5 DEF MotorsMove, Travel, DriveFaults, LinkLost, LinkReturns, drives,
     BusTypeOK
<1>6. CASE OnArmFault \/ OnArmBattery
  <2>1. LatchArmBus \/ \E k \in ArmMotors : RemoveMotor(k)
    <3>1. CASE OnArmFault /\ Head(armFaultQ) # ALL
      <4>1. Head(armFaultQ) \in ArmMotors \cup {ALL}
        BY <3>1, HeadTailProperties DEF OnArmFault, MonitorTypeOK
      <4>2. QED
        BY <3>1, <4>1 DEF OnArmFault
    <3>2. QED
      BY <1>6, <3>1 DEF OnArmFault, OnArmBattery
  <2>2. QED
    BY <1>1, <2>1, MotorsTaken
<1>7. CASE OnDriveFault
  <2>1. DisarmDrives(real)
    BY <1>7 DEF OnDriveFault
  <2>2. QED
    BY <1>1, <2>1, DrivesDisarmed
<1>8. CASE MonitorNext
  <2>1. CASE CheckHeartbeatFaults \/ PublishDiagnostics
    <3>1. PICK driveFault \in BOOLEAN, busFault \in BOOLEAN, armFaults \in SUBSET ArmMotors :
            Trigger(driveFault, busFault, armFaults)
      BY <2>1 DEF CheckHeartbeatFaults, PublishDiagnostics
    <3>2. QED
      BY <1>1, <3>1, TriggerTyped
  <2>2. CASE ~(CheckHeartbeatFaults \/ PublishDiagnostics)
    BY <1>3, <1>8, <2>2 DEF MonitorNext, Heartbeat, BeatGoesStale, LossGrowsLong, CanComputesList,
       CanPublishes, PollUpdates, PollComputesList, PollPublishes, bus, drives
  <2>3. QED
    BY <2>1, <2>2
<1>9. QED
  BY <1>4, <1>5, <1>6, <1>7, <1>8 DEF Next, ArmNext

\* Only a tick's actions enable a drive or set it moving, and only a real motor's.
LEMMA OnlyRealDriven ==
  TypeInv /\ TickInv /\ [Next]_vars => \A m \in ArmMotors : ~IsReal(m) => NotDriven(m)
<1> SUFFICES ASSUME TypeInv, TickInv, [Next]_vars, NEW m \in ArmMotors, ~IsReal(m)
             PROVE  NotDriven(m)
  OBVIOUS
<1>1. ASSUME NEW k \in ArmMotors, Execute(k) PROVE NotDriven(m)
  <2>1. plan[k].op # "NONE"
    BY <1>1 DEF Execute, ExecuteArm, ExecuteRun, ExecuteDisarm
  <2>2. m # k
    BY <2>1 DEF TickInv
  <2>3. cia'[m] = cia[m] /\ profile'[m] = profile[m]
    BY <1>1, <2>2, Groups
    DEF Execute, ExecuteArm, ExecuteRun, ExecuteDisarm, BusTypeOK, TypeInv, TypeOK
  <2>4. QED
    BY <2>3 DEF NotDriven, Enabled
<1>2. QED
  BY <1>1, OnlyTicksDrive

\* A joint in loopback is never enabled or set moving, whatever messages and faults
\* arrive and however ticks and callbacks follow one another.
THEOREM LoopbackIsLeftAlone == Spec => LoopbackNeverCommanded
<1>1. TypeInv /\ TickInv /\ [Next]_vars
        => [\A m \in ArmMotors : ~IsReal(m) => NotDriven(m)]_vars
  BY OnlyRealDriven
<1>2. QED
  BY <1>1, TypeInvInit, TypeInvNext, TickInvInit, TickInvNext, PTL DEF Spec, LoopbackNeverCommanded

\* The latch is never taken back.
LEMMA LatchKept == TypeInv /\ [Next]_vars => (latched => latched')
<1> SUFFICES ASSUME TypeInv, [Next]_vars, latched PROVE latched'
  OBVIOUS
<1>1. CASE OnArmFault \/ OnArmBattery
  BY <1>1 DEF OnArmFault, OnArmBattery, LatchArmBus, RemoveMotor
<1>2. CASE ArmNext /\ ~(OnArmFault \/ OnArmBattery)
  BY <1>2 DEF ArmNext, OnArmCmd, OnSbusJs, OnArmActive, OnDriveFault, TickDecides, Execute,
     ExecuteArm, ExecuteRun, ExecuteDisarm, RearmWaitElapses, IdleElapses
<1>3. CASE UNCHANGED armVars
  BY <1>3 DEF armVars
<1>4. QED
  BY <1>1, <1>2, <1>3 DEF Next, MotorsMove, vars

\* Once latched the arm stays latched, and no arm drive is enabled or set moving again.
THEOREM LatchHolds == Spec => LatchedArmStaysOff
<1>1. TypeInv /\ TickInv /\ [Next]_vars
        => [latched => latched' /\ \A m \in ArmMotors : NotDriven(m)]_vars
  BY LatchKept, OnlyRealDriven DEF TickInv, IsReal
<1>2. QED
  BY <1>1, TypeInvInit, TypeInvNext, TickInvInit, TickInvNext, PTL DEF Spec, LatchedArmStaysOff

-----------------------------------------------------------------------------
(* What the controller believes of its drives.                             *)

\* Only a motor that was off its bus has missed a beat.
LossInv ==
  \A m \in Motors :
    link[m] = "down" \/ beat[m] = "stale" \/ lostSince[m] # "None" => m \in wasLost

\* What is believed of one motor is true; of one that is being armed the same is
\* true as of an armed one.
Believed(m) ==
  /\ arm[m].state \in {"DISARMED", "FAULTED"} => ~Enabled(m)
  /\ arm[m].state \in {"ARMING", "ARMED"} =>
       Enabled(m) \/ cia[m] = "FAULT" \/ driveTriggered \/ m \in armFaulted

BeliefInv == wasLost = {} => \A m \in ArmMotors : Believed(m)

\* A motor stays in the set of those that were lost.
LEMMA LossInvNext == TypeInv /\ LossInv /\ [Next]_vars => LossInv' /\ wasLost \subseteq wasLost'
<1> SUFFICES ASSUME TypeInv, LossInv, [Next]_vars PROVE LossInv' /\ wasLost \subseteq wasLost'
  OBVIOUS
<1> USE DEF TypeInv, TypeOK
<1>1. CASE UNCHANGED <<link, beat, lostSince, wasLost>>
  BY <1>1 DEF LossInv
<1>2. CASE UNCHANGED vars \/ ArmNext
  BY <1>1, <1>2 DEF vars, bus, wires, monitor, maps, ArmNext, OnArmCmd, OnSbusJs, OnArmActive,
     OnArmFault, OnArmBattery, OnDriveFault, TickDecides, Execute, ExecuteArm, ExecuteRun,
     ExecuteDisarm, RearmWaitElapses, IdleElapses
<1>3. CASE MotorsMove
  <2>1. PICK m \in Motors : Travel(m) \/ DriveFaults(m) \/ LinkLost(m) \/ LinkReturns(m)
    BY <1>3 DEF MotorsMove
  <2>2. UNCHANGED <<beat, lostSince>>
    BY <1>3 DEF MotorsMove, monitor, maps
  <2>3. CASE Travel(m) \/ DriveFaults(m)
    BY <1>1, <2>2, <2>3 DEF Travel, DriveFaults, wires
  <2>4. CASE LinkLost(m) \/ LinkReturns(m)
    BY <2>2, <2>4 DEF LinkLost, LinkReturns, LossInv, BusTypeOK
  <2>5. QED
    BY <2>1, <2>3, <2>4
<1>4. CASE MonitorNext
  <2>1. ASSUME NEW m \in Motors, Heartbeat(m) \/ BeatGoesStale(m) \/ LossGrowsLong(m)
        PROVE  LossInv' /\ wasLost \subseteq wasLost'
    BY <2>1 DEF Heartbeat, BeatGoesStale, LossGrowsLong, LossInv, MonitorTypeOK, bus, wires
  <2>2. CASE PollUpdates
    <3>1. UNCHANGED <<link, beat, wasLost>>
      BY <2>2 DEF PollUpdates, wires
    <3>2. \A m \in Motors : lostSince'[m] # "None" => beat[m] = "stale" \/ lostSince[m] # "None"
      BY <2>2 DEF PollUpdates, MonitorTypeOK
    <3>3. QED
      BY <3>1, <3>2 DEF LossInv
  <2>3. CASE CanComputesList \/ CanPublishes \/ PollComputesList \/ PollPublishes
             \/ CheckHeartbeatFaults \/ PublishDiagnostics
    BY <1>1, <2>3 DEF CanComputesList, CanPublishes, PollComputesList, PollPublishes,
       CheckHeartbeatFaults, PublishDiagnostics, bus, wires, maps
  <2>4. QED
    BY <1>4, <2>1, <2>2, <2>3 DEF MonitorNext
<1>5. QED
  BY <1>2, <1>3, <1>4 DEF Next

\* A belief outlasts every step that does not enable the drive, if there is an excuse
\* for turning it off.
LEMMA BeliefKept ==
  ASSUME NEW m \in ArmMotors, Believed(m), arm'[m].state = arm[m].state,
         driveTriggered => driveTriggered', armFaulted \subseteq armFaulted',
         \/ cia'[m] = cia[m] \/ cia'[m] = "FAULT"
         \/ NotDriven(m) /\ (driveTriggered' \/ m \in armFaulted')
  PROVE  Believed(m)'
BY DEF Believed, NotDriven, Enabled

\* With every motor on its bus ARM enables, DISARM turns off, and only a fault or the
\* heartbeat node does so behind the controller's back.
LEMMA BeliefNext ==
  TypeInv /\ TickInv /\ LossInv /\ BeliefInv /\ [Next]_vars => BeliefInv'
<1> SUFFICES ASSUME TypeInv, TickInv, LossInv, BeliefInv, [Next]_vars, wasLost' = {},
                    NEW m \in ArmMotors
             PROVE  Believed(m)'
  BY DEF BeliefInv
<1> USE DEF TypeInv, TypeOK
<1>1. /\ wasLost = {} /\ m \in Motors
      /\ \A k \in Motors : link[k] = "up" /\ lostSince[k] = "None"
  BY LossInvNext, Groups DEF LossInv, BusTypeOK
<1>2. Believed(m) /\ arm[m].state \in ArmStates
  BY <1>1 DEF BeliefInv, ArmRecords
<1>3. CASE UNCHANGED <<arm, cia, driveTriggered, armFaulted>>
  BY <1>2, <1>3, BeliefKept
<1>4. CASE UNCHANGED vars \/ OnArmCmd \/ OnSbusJs \/ OnArmActive
  BY <1>3, <1>4 DEF vars, bus, drives, monitor, latches, armVars, OnArmCmd, OnSbusJs, OnArmActive
<1>5. CASE MotorsMove
  <2>1. UNCHANGED <<arm, driveTriggered, armFaulted>>
    BY <1>5 DEF MotorsMove, armVars, monitor, latches
  <2>2. cia'[m] = cia[m] \/ cia'[m] = "FAULT"
    BY <1>1, <1>5 DEF MotorsMove, Travel, DriveFaults, LinkLost, LinkReturns, drives, BusTypeOK
  <2>3. QED
    BY <1>2, <2>1, <2>2, BeliefKept
<1>6. CASE MonitorNext /\ UNCHANGED armVars
  <2>1. CASE CheckHeartbeatFaults \/ PublishDiagnostics
    <3>1. PICK driveFault \in BOOLEAN, armFaults \in SUBSET ArmMotors :
            Trigger(driveFault, FALSE, armFaults)
      <4>1. ~(\E k \in ArmMotors : lostSince[k] = "Long")
        BY <1>1, Groups
      <4>2. CASE CheckHeartbeatFaults
        BY <4>1, <4>2 DEF CheckHeartbeatFaults
      <4>3. CASE PublishDiagnostics
        BY <4>3 DEF PublishDiagnostics
      <4>4. QED
        BY <2>1, <4>2, <4>3
    <3>2. /\ driveTriggered => driveTriggered'
          /\ armFaulted \subseteq armFaulted'
          /\ NotDriven(m)
          /\ cia'[m] = cia[m] \/ driveTriggered' \/ m \in armFaulted'
      BY <1>1, <3>1, TriggerTyped
    <3>3. arm' = arm
      BY <1>6 DEF armVars
    <3>4. QED
      BY <1>2, <3>2, <3>3, BeliefKept
  <2>2. CASE ~(CheckHeartbeatFaults \/ PublishDiagnostics)
    BY <1>3, <1>6, <2>2 DEF MonitorNext, armVars, Heartbeat, BeatGoesStale, LossGrowsLong,
       CanComputesList, CanPublishes, PollUpdates, PollComputesList, PollPublishes, bus, drives,
       latches
  <2>3. QED
    BY <2>1, <2>2
<1>7. CASE OnArmFault \/ OnArmBattery \/ OnDriveFault
  <2>1. UNCHANGED <<driveTriggered, armFaulted>>
    BY <1>7 DEF OnArmFault, OnArmBattery, OnDriveFault, latches, monitor
  <2>2. m \notin real => ~Enabled(m)
    BY <1>2 DEF TickInv, Believed
  <2>3. Settled("DISARMED").state = "DISARMED" /\ Settled("FAULTED").state = "FAULTED"
    BY DEF Settled
  <2>4. CASE OnDriveFault
    <3>1. NotDriven(m) /\ (m \in real => ~Enabled(m)')
      BY <1>1, <2>4, DrivesDisarmed DEF OnDriveFault
    <3>2. m \in real => arm'[m].state = "FAULTED"
      BY <2>3, <2>4 DEF OnDriveFault
    <3>3. m \notin real => arm'[m] = arm[m] /\ cia'[m] = cia[m]
      BY <1>1, <2>4, DrivesDisarmed DEF OnDriveFault
    <3>4. QED
      BY <1>2, <2>1, <3>1, <3>2, <3>3, BeliefKept DEF Believed
  <2>5. CASE LatchArmBus
    <3>1. CASE latched
      BY <1>3, <2>1, <2>5, <3>1 DEF LatchArmBus, drives
    <3>2. CASE ~latched
      <4>1. NotDriven(m) /\ (m \in real => ~Enabled(m)')
        BY <1>1, <2>5, <3>2, DrivesDisarmed DEF LatchArmBus
      <4>2. arm'[m].state = "DISARMED"
        BY <2>3, <2>5, <3>2 DEF LatchArmBus
      <4>3. QED
        BY <2>2, <4>1, <4>2 DEF Believed, NotDriven
    <3>3. QED
      BY <3>1, <3>2
  <2>6. ASSUME NEW k, RemoveMotor(k) PROVE Believed(m)'
    <3>1. CASE latched \/ k \notin real
      BY <1>3, <2>1, <2>6, <3>1 DEF RemoveMotor, drives
    <3>2. CASE ~(latched \/ k \notin real)
      <4>1. DisarmDrives({k}) /\ arm' = [arm EXCEPT ![k] = Settled("DISARMED")]
        BY <2>6, <3>2 DEF RemoveMotor
      <4>2. CASE m = k
        <5>1. arm'[m].state = "DISARMED" /\ ~Enabled(m)'
          BY <1>1, <2>3, <4>1, <4>2, DrivesDisarmed
        <5>2. QED
          BY <5>1 DEF Believed
      <4>3. CASE m # k
        <5>1. arm'[m] = arm[m] /\ cia'[m] = cia[m]
          BY <1>1, <4>1, <4>3, DrivesDisarmed
        <5>2. QED
          BY <1>2, <2>1, <5>1, BeliefKept
      <4>4. QED
        BY <4>2, <4>3
    <3>3. QED
      BY <3>1, <3>2
  <2>7. QED
    BY <1>7, <2>4, <2>5, <2>6 DEF OnArmFault, OnArmBattery
<1>8. CASE TickDecides
  <2>1. UNCHANGED <<cia, driveTriggered, armFaulted>> /\ arm'[m] = DecidedArm(m)
    BY <1>8 DEF TickDecides, drives, monitor, latches
  <2>2. \/ arm'[m].state = arm[m].state
        \/ arm[m].state = "ARMING" /\ arm'[m].state = "ARMED"
    BY <2>1 DEF DecidedArm, Settled, ArmRecords
  <2>3. QED
    BY <1>2, <2>1, <2>2 DEF Believed, Enabled
<1>9. ASSUME NEW k \in ArmMotors, Execute(k) PROVE Believed(m)'
  <2>1. UNCHANGED <<driveTriggered, armFaulted>>
    BY <1>9 DEF Execute, ExecuteArm, ExecuteRun, ExecuteDisarm, monitor, latches
  <2>2. CASE k # m
    <3>1. arm'[m] = arm[m] /\ cia'[m] = cia[m]
      BY <1>1, <1>9, <2>2 DEF Execute, ExecuteArm, ExecuteRun, ExecuteDisarm, BusTypeOK
    <3>2. QED
      BY <1>2, <2>1, <3>1, BeliefKept
  <2>3. CASE k = m
    <3>1. LostTo(m, ArmWrites) = {} /\ LostTo(m, DisarmWrites) = {} /\ cia[m] \in CiaStates
      BY <1>1 DEF LostTo, BusTypeOK
    <3>2. CASE ExecuteArm(m)
      <4>1. cia'[m] = ARM(cia[m], {}) /\ arm'[m].state = "ARMING"
        BY <1>1, <3>1, <3>2 DEF ExecuteArm, BusTypeOK
      <4>2. Enabled(m)'
        BY <3>1, <4>1, ArmTyped DEF Enabled
      <4>3. QED
        BY <4>1, <4>2 DEF Believed
    <3>3. CASE ExecuteRun(m)
      <4>1. arm'[m].state = arm[m].state /\ cia' = cia
        BY <3>3 DEF ExecuteRun, ArmRecords
      <4>2. QED
        BY <1>2, <2>1, <4>1, BeliefKept
    <3>4. CASE ExecuteDisarm(m)
      <4>1. cia'[m] = DISARM(cia[m], {}) /\ arm'[m].state = "DISARMED"
        BY <1>1, <3>1, <3>4 DEF ExecuteDisarm, BusTypeOK, Settled
      <4>2. ~Enabled(m)'
        BY <3>1, <4>1, DisarmTyped DEF Enabled
      <4>3. QED
        BY <4>1, <4>2 DEF Believed
    <3>5. QED
      BY <1>9, <2>3, <3>2, <3>3, <3>4 DEF Execute
  <2>4. QED
    BY <2>2, <2>3
<1>10. ASSUME NEW k \in ArmMotors, RearmWaitElapses(k) \/ IdleElapses(k) PROVE Believed(m)'
  <2>1. UNCHANGED <<cia, driveTriggered, armFaulted>>
    BY <1>10 DEF RearmWaitElapses, IdleElapses, bus, drives, monitor, latches
  <2>2. arm'[m].state = arm[m].state
    BY <1>10 DEF RearmWaitElapses, IdleElapses, ArmRecords
  <2>3. QED
    BY <1>2, <2>1, <2>2, BeliefKept
<1>11. QED
  BY <1>4, <1>5, <1>6, <1>7, <1>8, <1>9, <1>10 DEF Next, ArmNext

\* While no motor was ever off its bus, what the controller believes of each of its
\* motors is true of the drive, although it takes a motor for armed by time alone.
THEOREM BeliefHolds == Spec => []BeliefMatchesDrive
<1>1. Init => LossInv
  BY DEF Init, BusInit, MonitorInit, LossInv
<1>2. Init => BeliefInv
  BY Groups DEF Init, BusInit, BeliefInv, Believed, Enabled, Settled
<1>3. BeliefInv => BeliefMatchesDrive
  BY DEF BeliefInv, Believed, BeliefMatchesDrive
<1>4. TypeInv /\ LossInv /\ [Next]_vars => LossInv'
  BY LossInvNext
<1>5. QED
  BY <1>1, <1>2, <1>3, <1>4, TypeInvInit, TypeInvNext, TickInvInit, TickInvNext, BeliefNext, PTL
  DEF Spec

-----------------------------------------------------------------------------
(* A stopped arm is off.                                                   *)

\* A planned action fits the state its motor had when it was decided.
PlanFits ==
  \A m \in ArmMotors :
    /\ plan[m].op = "ARM" => arm[m].state = "DISARMED"
    /\ plan[m].op \in {"RUN", "DISARM"} => arm[m].state = "ARMED"

\* After a drive-bus fault no tick plans anything, and no motor is taken for armed.
StopNoted ==
  driveFaultStop => \A m \in ArmMotors : arm[m].state \in {"DISARMED", "FAULTED"}
                                         /\ plan[m] = Nothing

\* Of one motor that never was off its bus it is enough that the controller takes it
\* for disarmed: BeliefMatchesDrive says it only while no motor was lost.
OffInv ==
  \A m \in ArmMotors \ wasLost :
    arm[m].state \in {"DISARMED", "FAULTED"} => ~Enabled(m)

StopInv == PlanFits /\ StopNoted /\ OffInv

\* A timer running out changes no arm state.
LEMMA TimersKeepState ==
  ASSUME TypeInv, NEW k \in ArmMotors, RearmWaitElapses(k) \/ IdleElapses(k), NEW m \in ArmMotors
  PROVE  arm'[m].state = arm[m].state
BY DEF RearmWaitElapses, IdleElapses, ArmRecords, TypeInv, TypeOK

\* What the actions of a tick do to the states of the motors.
LEMMA ExecuteStates ==
  ASSUME TypeInv, NEW k \in ArmMotors, Execute(k)
  PROVE  /\ plan' = [plan EXCEPT ![k] = Nothing] /\ plan[k].op \in {"ARM", "RUN", "DISARM"}
         /\ \A m \in ArmMotors \ {k} : arm'[m] = arm[m] /\ plan'[m] = plan[m]
         /\ ExecuteArm(k) => arm'[k].state = "ARMING"
         /\ ExecuteRun(k) => arm'[k].state = arm[k].state
         /\ ExecuteDisarm(k) => arm'[k].state = "DISARMED"
         /\ UNCHANGED <<real, latched, driveFaultStop>>
<1> USE DEF TypeInv, TypeOK
<1>1. /\ plan' = [plan EXCEPT ![k] = Nothing] /\ plan[k].op \in {"ARM", "RUN", "DISARM"}
      /\ UNCHANGED <<real, latched, driveFaultStop>>
  BY DEF Execute, ExecuteArm, ExecuteRun, ExecuteDisarm, Finish
<1>2. \A m \in ArmMotors \ {k} : arm'[m] = arm[m] /\ plan'[m] = plan[m]
  BY <1>1 DEF Execute, ExecuteArm, ExecuteRun, ExecuteDisarm
<1>3. ExecuteArm(k) => arm'[k].state = "ARMING"
  BY DEF ExecuteArm
<1>4. ExecuteRun(k) => arm'[k].state = arm[k].state
  BY DEF ExecuteRun, ArmRecords
<1>5. ExecuteDisarm(k) => arm'[k].state = "DISARMED"
  BY DEF ExecuteDisarm, Settled
<1>6. QED
  BY <1>1, <1>2, <1>3, <1>4, <1>5

\* Between two ticks nothing is planned, and a message leaves a motor its state or
\* settles it.
LEMMA MessageStates ==
  ASSUME TypeInv, TickInv, OnArmActive \/ OnArmFault \/ OnArmBattery \/ OnDriveFault,
         NEW m \in ArmMotors
  PROVE  /\ plan[m] = Nothing /\ plan' = plan
         /\ arm'[m] = arm[m] \/ arm'[m].state \in {"DISARMED", "FAULTED"}
         /\ OnDriveFault => arm'[m].state \in {"DISARMED", "FAULTED"}
         /\ OnArmActive \/ OnArmFault \/ OnArmBattery => UNCHANGED driveFaultStop
<1> USE DEF TypeInv, TypeOK
<1>1. plan[m] = Nothing /\ plan' = plan
  BY DEF OnArmActive, OnArmFault, OnArmBattery, OnDriveFault, TickInv
<1>2. Settled("DISARMED").state = "DISARMED" /\ Settled("FAULTED").state = "FAULTED"
  BY DEF Settled
<1>3. arm'[m] = arm[m] \/ arm'[m].state \in {"DISARMED", "FAULTED"}
  BY <1>2 DEF OnArmActive, OnArmFault, OnArmBattery, OnDriveFault, LatchArmBus, RemoveMotor
<1>4. OnDriveFault => arm'[m].state \in {"DISARMED", "FAULTED"}
  BY <1>2 DEF OnDriveFault, TickInv
<1>5. OnArmActive \/ OnArmFault \/ OnArmBattery => UNCHANGED driveFaultStop
  BY DEF OnArmActive, OnArmFault, OnArmBattery
<1>6. QED
  BY <1>1, <1>3, <1>4, <1>5

\* The plan stays in step with the states, and a drive-bus fault ends all plans.
LEMMA PlanFitsNext ==
  TypeInv /\ TickInv /\ PlanFits /\ StopNoted /\ [Next]_vars => PlanFits' /\ StopNoted'
<1> SUFFICES ASSUME TypeInv, TickInv, PlanFits, StopNoted, [Next]_vars, NEW m \in ArmMotors
             PROVE  /\ plan'[m].op = "ARM" => arm'[m].state = "DISARMED"
                    /\ plan'[m].op \in {"RUN", "DISARM"} => arm'[m].state = "ARMED"
                    /\ driveFaultStop' => /\ arm'[m].state \in {"DISARMED", "FAULTED"}
                                          /\ plan'[m] = Nothing
  BY DEF PlanFits, StopNoted
<1> DEFINE Goal == /\ plan'[m].op = "ARM" => arm'[m].state = "DISARMED"
                   /\ plan'[m].op \in {"RUN", "DISARM"} => arm'[m].state = "ARMED"
                   /\ driveFaultStop' => /\ arm'[m].state \in {"DISARMED", "FAULTED"}
                                         /\ plan'[m] = Nothing
<1>0. Nothing.op = "NONE"
  BY EntriesTyped
<1>1. ASSUME arm'[m].state = arm[m].state, plan'[m] = plan[m], UNCHANGED driveFaultStop
      PROVE  Goal
  BY <1>1 DEF PlanFits, StopNoted
<1>2. CASE UNCHANGED armVars
  BY <1>1, <1>2 DEF armVars
<1>3. CASE OnArmCmd \/ OnSbusJs
  BY <1>1, <1>3 DEF OnArmCmd, OnSbusJs
<1>4. CASE OnArmActive \/ OnArmFault \/ OnArmBattery \/ OnDriveFault
  BY <1>0, <1>1, <1>4, MessageStates
<1>5. CASE TickDecides
  <2>1. /\ plan'[m] = PlannedAction(m) /\ arm'[m] = DecidedArm(m)
        /\ ~driveFaultStop /\ UNCHANGED driveFaultStop
    BY <1>5 DEF TickDecides
  <2>2. PlannedAction(m).op = "ARM" => arm[m].state = "DISARMED"
    BY DEF PlannedAction, Do, Run, Nothing, ArmedIdle
  <2>3. PlannedAction(m).op \in {"RUN", "DISARM"} => arm[m].state = "ARMED"
    BY DEF PlannedAction, Do, Run, Nothing, ArmedIdle
  <2>4. arm[m].state \in {"DISARMED", "ARMED"} => DecidedArm(m).state = arm[m].state
    BY DEF DecidedArm, ArmRecords, TypeInv, TypeOK
  <2>5. QED
    BY <2>1, <2>2, <2>3, <2>4
<1>6. ASSUME NEW k \in ArmMotors, Execute(k) PROVE Goal
  <2>1. driveFaultStop' = driveFaultStop /\ ~driveFaultStop
    BY <1>0, <1>6, ExecuteStates DEF StopNoted
  <2>2. CASE m = k
    BY <1>0, <1>6, <2>1, <2>2, ExecuteStates DEF TypeInv, TypeOK
  <2>3. CASE m # k
    BY <1>1, <1>6, <2>1, <2>3, ExecuteStates
  <2>4. QED
    BY <2>2, <2>3
<1>7. ASSUME NEW k \in ArmMotors, RearmWaitElapses(k) \/ IdleElapses(k) PROVE Goal
  BY <1>1, <1>7, TimersKeepState DEF RearmWaitElapses, IdleElapses
<1>8. QED
  BY <1>2, <1>3, <1>4, <1>5, <1>6, <1>7 DEF Next, ArmNext, MotorsMove, vars

\* Whoever settles a motor that is on its bus has its drive off.
LEMMA OffInvNext ==
  TypeInv /\ TickInv /\ LossInv /\ OffInv /\ [Next]_vars => OffInv'
<1> SUFFICES ASSUME TypeInv, TickInv, LossInv, OffInv, [Next]_vars,
                    NEW m \in ArmMotors, m \notin wasLost',
                    arm'[m].state \in {"DISARMED", "FAULTED"}
             PROVE  ~Enabled(m)'
  BY DEF OffInv
<1> USE DEF TypeInv, TypeOK
<1>1. m \notin wasLost /\ m \in Motors /\ link[m] = "up"
  BY LossInvNext, Groups DEF LossInv, BusTypeOK
<1>2. arm[m].state \in {"DISARMED", "FAULTED"} => ~Enabled(m)
  BY <1>1 DEF OffInv
<1>3. ASSUME ~(\E k \in ArmMotors : Execute(k)),
             arm'[m].state = arm[m].state \/ arm[m].state \in {"DISARMED", "FAULTED"}
      PROVE  ~Enabled(m)'
  BY <1>2, <1>3, OnlyTicksDrive DEF NotDriven
<1>4. CASE \E k \in ArmMotors : Execute(k)
  <2>1. PICK k \in ArmMotors : Execute(k)
    BY <1>4
  <2>2. CASE k # m
    <3>1. cia'[m] = cia[m] /\ arm'[m] = arm[m]
      BY <1>1, <2>1, <2>2, ExecuteStates
      DEF Execute, ExecuteArm, ExecuteRun, ExecuteDisarm, BusTypeOK
    <3>2. QED
      BY <1>2, <3>1 DEF Enabled
  <2>3. CASE k = m
    <3>1. ~ExecuteArm(m)
      BY <2>1, <2>3, ExecuteStates
    <3>2. CASE ExecuteRun(m)
      <4>1. cia' = cia /\ arm'[m].state = arm[m].state
        BY <2>1, <2>3, <3>2, ExecuteStates DEF ExecuteRun
      <4>2. QED
        BY <1>2, <4>1 DEF Enabled
    <3>3. CASE ExecuteDisarm(m)
      <4>1. cia'[m] = DISARM(cia[m], {}) /\ cia[m] \in CiaStates
        BY <1>1, <3>3 DEF ExecuteDisarm, LostTo, BusTypeOK
      <4>2. QED
        BY <4>1, DisarmTyped DEF Enabled
    <3>4. QED
      BY <2>1, <2>3, <3>1, <3>2, <3>3 DEF Execute
  <2>4. QED
    BY <2>2, <2>3
<1> SUFFICES ASSUME ~(\E k \in ArmMotors : Execute(k)) PROVE ~Enabled(m)'
  BY <1>4
<1>5. CASE UNCHANGED arm
  BY <1>3, <1>5
<1>6. CASE OnArmFault \/ OnArmBattery \/ OnDriveFault
  <2>1. m \notin real => ~Enabled(m)
    BY <1>2 DEF TickInv
  <2>2. NotDriven(m)
    BY OnlyTicksDrive
  <2>3. CASE OnDriveFault
    BY <1>1, <2>1, <2>2, <2>3, DrivesDisarmed DEF OnDriveFault, NotDriven
  <2>4. CASE LatchArmBus /\ ~latched
    BY <1>1, <2>1, <2>2, <2>4, DrivesDisarmed DEF LatchArmBus, NotDriven
  <2>5. ASSUME NEW k, RemoveMotor(k), ~latched, k \in real PROVE ~Enabled(m)'
    <3>1. DisarmDrives({k}) /\ arm' = [arm EXCEPT ![k] = Settled("DISARMED")]
      BY <2>5 DEF RemoveMotor
    <3>2. m = k => ~Enabled(m)'
      BY <1>1, <3>1, DrivesDisarmed
    <3>3. m # k => arm'[m] = arm[m]
      BY <3>1
    <3>4. QED
      BY <1>3, <3>2, <3>3
  <2>6. CASE UNCHANGED arm
    BY <1>5, <2>6
  <2>7. QED
    BY <1>6, <2>3, <2>4, <2>5, <2>6
    DEF OnArmFault, OnArmBattery, LatchArmBus, RemoveMotor
<1>7. CASE TickDecides
  <2>1. arm'[m] = DecidedArm(m)
    BY <1>7 DEF TickDecides
  <2>2. arm'[m].state = arm[m].state
    BY <2>1 DEF DecidedArm, Settled, ArmRecords
  <2>3. QED
    BY <1>3, <2>2
<1>8. CASE \E k \in ArmMotors : RearmWaitElapses(k) \/ IdleElapses(k)
  BY <1>3, <1>8, TimersKeepState
<1>9. QED
  BY <1>5, <1>6, <1>7, <1>8
  DEF Next, ArmNext, vars, armVars, MotorsMove, OnArmCmd, OnSbusJs, OnArmActive

\* All three at once, and what they rest on, hold from the start.
LEMMA StopInvHolds == Spec => [](TypeInv /\ TickInv /\ StopInv)
<1>1. Init => LossInv
  BY DEF Init, BusInit, MonitorInit, LossInv
<1>2. Init => StopInv
  BY EntriesTyped, Groups
  DEF Init, BusInit, StopInv, PlanFits, StopNoted, OffInv, Enabled, Settled
<1>3. TypeInv /\ LossInv /\ [Next]_vars => LossInv'
  BY LossInvNext
<1>4. TypeInv /\ TickInv /\ LossInv /\ StopInv /\ [Next]_vars => StopInv'
  BY PlanFitsNext, OffInvNext DEF StopInv
<1>5. QED
  BY <1>1, <1>2, <1>3, <1>4, TypeInvInit, TypeInvNext, TickInvInit, TickInvNext, PTL DEF Spec

\* The safe half of DriveFaultStopsArm and LostMotorLatchesBus: whatever else was lost,
\* the arm drives that were on their bus all along are off once the arm is stopped.
THEOREM StoppedArmStaysOff == Spec => []StoppedArmIsOff
<1>1. TickInv /\ StopInv => StoppedArmIsOff
  BY DEF TickInv, StopInv, StopNoted, OffInv, StoppedArmIsOff
<1>2. QED
  BY <1>1, StopInvHolds, PTL

-----------------------------------------------------------------------------
(* The controller implements the abstract contract.                        *)

\* The life of a motor that is in is its arm state under another name.
LEMMA LifeIsArmState ==
  ASSUME TypeInv, NEW m \in ArmMotors
  PROVE  /\ Out(m) => LifeOf(m) = "OUT"
         /\ ~Out(m) /\ arm[m].state = "DISARMED" => LifeOf(m) = "OFF"
         /\ ~Out(m) /\ arm[m].state # "DISARMED" =>
              LifeOf(m) = arm[m].state /\ LifeOf(m) \in {"ARMING", "ARMED"}
<1>1. arm[m].state \in ArmStates
  BY DEF TypeInv, TypeOK, ArmRecords
<1>2. Out(m) => LifeOf(m) = "OUT"
  BY DEF LifeOf
<1>3. ~Out(m) /\ arm[m].state = "DISARMED" => LifeOf(m) = "OFF"
  BY DEF LifeOf
<1>4. ~Out(m) /\ arm[m].state # "DISARMED" => LifeOf(m) = arm[m].state
  BY DEF LifeOf
<1>5. ~Out(m) => arm[m].state # "FAULTED"
  BY DEF Out
<1>6. QED
  BY <1>1, <1>2, <1>3, <1>4, <1>5 DEF ArmStates

\* What a step must be seen to do to the motors one by one, to be a step of the contract.
LEMMA ContractBecomes ==
  ASSUME NEW S \in SUBSET ArmMotors, NEW st,
         \A m \in S : LifeOf(m)' = st,
         \A m \in ArmMotors \ S : LifeOf(m)' = LifeOf(m)
  PROVE  Contract!Becomes(S, st)
BY DEF Contract!Becomes

LEMMA ContractOnlyStops ==
  ASSUME \A m \in ArmMotors : NotDriven(m) /\ (Moving(m)' => Moving(m))
  PROVE  Contract!OnlyStops
BY DEF Contract!OnlyStops, NotDriven

\* Every arm drive is off and at rest before the first command; an arm that is latched
\* from the start has all its motors out.
LEMMA ContractInit == Init => Contract!Init
<1> SUFFICES ASSUME Init PROVE Contract!Init
  OBVIOUS
<1>1. \A m \in ArmMotors : ~Enabled(m) /\ ~Moving(m)
  BY Groups DEF Init, BusInit, Enabled, Moving
<1>2. \A m \in ArmMotors : arm[m].state = "DISARMED"
  BY DEF Init, Settled
<1>3. latched => \A m \in ArmMotors : LifeOf(m) = "OUT"
  BY TypeInvInit, LifeIsArmState DEF Out
<1>4. ~latched => \A m \in ArmMotors : LifeOf(m) = "OFF"
  BY <1>2, TypeInvInit, LifeIsArmState DEF Init, Out
<1>5. \/ [m \in ArmMotors |-> LifeOf(m)] \in [ArmMotors -> {"OUT"}]
      \/ [m \in ArmMotors |-> LifeOf(m)] \in [ArmMotors -> {"OFF"}]
  BY <1>3, <1>4
<1>6. QED
  BY <1>1, <1>5 DEF Contract!Init

\* A motor whose arm state is kept, and that is taken out by nothing, keeps its life.
LEMMA LifeKept ==
  ASSUME TypeInv, TypeInv', NEW m \in ArmMotors, arm'[m].state = arm[m].state,
         latched' = latched, m \in real' <=> m \in real
  PROVE  LifeOf(m)' = LifeOf(m)
<1>1. Out(m)' <=> Out(m)
  BY DEF Out
<1>2. arm[m].state \in ArmStates /\ arm'[m].state \in ArmStates
  BY DEF TypeInv, TypeOK, ArmRecords
<1>3. Out(m)' => LifeOf(m)' = "OUT"
  BY DEF LifeOf
<1>4. ~Out(m)' /\ arm'[m].state = "DISARMED" => LifeOf(m)' = "OFF"
  BY DEF LifeOf
<1>5. ~Out(m)' /\ arm'[m].state # "DISARMED" => LifeOf(m)' = arm'[m].state
  BY DEF LifeOf
<1>6. QED
  BY <1>1, <1>3, <1>4, <1>5, LifeIsArmState

\* An action of a tick is a step of the contract for its motor.
LEMMA ContractExecute ==
  ASSUME TypeInv, TypeInv', TickInv, PlanFits, NEW k \in ArmMotors, Execute(k)
  PROVE  Contract!Arm(k) \/ Contract!Run(k) \/ Contract!Disarm(k)
<1> USE DEF TypeInv, TypeOK
<1>1. ~latched /\ k \in real
  BY ExecuteStates DEF TickInv, IsReal
<1>2. UNCHANGED <<real, latched>>
  BY ExecuteStates
<1>3. \A m \in ArmMotors \ {k} : LifeOf(m)' = LifeOf(m)
  BY <1>2, ExecuteStates, LifeKept
<1>4. \A m \in ArmMotors \ {k} : (Enabled(m)' <=> Enabled(m)) /\ (Moving(m)' <=> Moving(m))
  <2>1. \A m \in ArmMotors \ {k} :
          cia'[m] = cia[m] /\ profile'[m] = profile[m] /\ held'[m] = held[m]
    BY Groups DEF Execute, ExecuteArm, ExecuteRun, ExecuteDisarm, BusTypeOK
  <2>2. QED
    BY <2>1 DEF Enabled, Moving
<1>5. arm[k].state # "FAULTED" => ~Out(k)
  BY <1>1 DEF Out
<1>6. arm'[k].state \in {"ARMING", "ARMED"} => ~Out(k)' /\ LifeOf(k)' = arm'[k].state
  <2>1. arm'[k].state \in {"ARMING", "ARMED"} => ~Out(k)'
    BY <1>1, <1>2 DEF Out
  <2>2. ~Out(k)' /\ arm'[k].state # "DISARMED" => LifeOf(k)' = arm'[k].state
    BY DEF LifeOf
  <2>3. QED
    BY <2>1, <2>2
<1>7. ASSUME held'[k] = HaltedTarget(k), profile'[k] = HaltedProfile(k)
      PROVE  Moving(k)' => Moving(k)
  <2>1. k \in Motors /\ (k \notin Joints => HaltedTarget(k) \in {0, held[k]})
    BY Groups DEF HaltedTarget, BusTypeOK
  <2>2. HaltedProfile(k) => profile[k]
    BY DEF HaltedProfile
  <2>3. QED
    BY <1>7, <2>1, <2>2 DEF Moving
<1>8. CASE ExecuteArm(k)
  <2>1. LifeOf(k) = "OFF"
    BY <1>5, <1>8, LifeIsArmState DEF PlanFits, ExecuteArm
  <2>2. LifeOf(k)' = "ARMING"
    BY <1>6, <1>8, ExecuteStates
  <2>3. Moving(k)' => Moving(k)
    BY <1>7, <1>8, Groups DEF ExecuteArm, BusTypeOK
  <2>4. Contract!Becomes({k}, "ARMING")
    BY <1>3, <2>2, ContractBecomes
  <2>5. Contract!Arm(k)
    BY <1>4, <2>1, <2>3, <2>4 DEF Contract!Arm
  <2>6. QED
    BY <2>5
<1>9. CASE ExecuteRun(k)
  <2>1. LifeOf(k) = "ARMED" /\ LifeOf(k)' = "ARMED"
    BY <1>5, <1>6, <1>9, LifeIsArmState, ExecuteStates DEF PlanFits, ExecuteRun
  <2>2. cia' = cia
    BY <1>9 DEF ExecuteRun
  <2>3. \A m \in ArmMotors : LifeOf(m)' = LifeOf(m)
    BY <1>3, <2>1
  <2>4. \A m \in ArmMotors : Enabled(m)' <=> Enabled(m)
    BY <2>2 DEF Enabled
  <2>5. Contract!Run(k)
    BY <1>4, <2>1, <2>3, <2>4 DEF Contract!Run
  <2>6. QED
    BY <2>5
<1>10. CASE ExecuteDisarm(k)
  <2>1. LifeOf(k) = "ARMED"
    BY <1>5, <1>10, LifeIsArmState DEF PlanFits, ExecuteDisarm
  <2>2. LifeOf(k)' = "OFF"
    <3>1. arm'[k].state = "DISARMED"
      BY <1>10, ExecuteStates
    <3>2. ~Out(k)'
      BY <1>1, <1>2, <3>1 DEF Out
    <3>3. QED
      BY <3>1, <3>2 DEF LifeOf
  <2>3. Moving(k)' => Moving(k)
    BY <1>7, <1>10, Groups DEF ExecuteDisarm, BusTypeOK
  <2>4. cia[k] \in CiaStates /\ cia'[k] = DISARM(cia[k], LostTo(k, DisarmWrites))
    BY <1>10, Groups DEF ExecuteDisarm, BusTypeOK
  <2>5. Enabled(k)' => Enabled(k)
    BY <2>4, DisarmTyped DEF Enabled
  <2>6. Contract!Becomes({k}, "OFF")
    BY <1>3, <2>2, ContractBecomes
  <2>7. Contract!OnlyStops
    BY <1>4, <2>3, <2>5 DEF Contract!OnlyStops
  <2>8. Contract!Disarm(k)
    BY <2>1, <2>6, <2>7 DEF Contract!Disarm
  <2>9. QED
    BY <2>8
<1>11. QED
  BY <1>8, <1>9, <1>10 DEF Execute

\* Every step of the controller, the heartbeat node and the motors is a step of the
\* contract, or none.
LEMMA ContractStep ==
  TypeInv /\ TickInv /\ PlanFits /\ [Next]_vars => [Contract!Next]_(Contract!vars)
<1> SUFFICES ASSUME TypeInv, TickInv, PlanFits, [Next]_vars
             PROVE  Contract!Next \/ UNCHANGED Contract!vars
  OBVIOUS
<1> DEFINE Goal == Contract!Next \/ UNCHANGED Contract!vars
           Kept(m) == LifeOf(m)' = LifeOf(m)
<1>a. TypeInv'
  BY TypeInvNext
<1>1. CASE \E k \in ArmMotors : Execute(k)
  BY <1>a, <1>1, ContractExecute DEF Contract!Next
<1> SUFFICES ASSUME ~(\E k \in ArmMotors : Execute(k)) PROVE Goal
  BY <1>1
<1>2. Contract!OnlyStops
  BY OnlyTicksDrive, ContractOnlyStops
<1>3. ASSUME \A m \in ArmMotors : Kept(m) PROVE Goal
  <2>1. Contract!Lapse
    BY <1>2, <1>3 DEF Contract!Lapse
  <2>2. QED
    BY <2>1 DEF Contract!Next
<1>4. ASSUME UNCHANGED <<arm, real, latched>> PROVE Goal
  <2>1. \A m \in ArmMotors : Kept(m)
    BY <1>a, <1>4, LifeKept
  <2>2. QED
    BY <1>3, <2>1
<1>5. ASSUME NEW S \in SUBSET ArmMotors, \A m \in S : LifeOf(m)' = "OUT",
             \A m \in ArmMotors \ S : Kept(m)
      PROVE  Goal
  <2>1. Contract!Retire(S)
    BY <1>2, <1>5, ContractBecomes DEF Contract!Retire
  <2>2. QED
    BY <2>1 DEF Contract!Next
<1>6. ASSUME NEW m \in ArmMotors, Out(m)' PROVE LifeOf(m)' = "OUT"
  BY <1>6 DEF LifeOf
<1>7. CASE TickDecides
  <2> DEFINE S == {m \in ArmMotors : Considered(m) /\ arm[m].state = "ARMING"
                                     /\ arm[m].arming = "Due"}
  <2>1. UNCHANGED <<real, latched, cia, held, profile>>
    BY <1>7 DEF TickDecides, drives
  <2>2. \A m \in ArmMotors : arm'[m] = DecidedArm(m) /\ arm[m] \in ArmRecords
    BY <1>7 DEF TickDecides, TypeInv, TypeOK
  <2>3. \A m \in S : ~Out(m) /\ ~Out(m)' /\ arm'[m].state = "ARMED"
    <3>1. \A m \in S : m \in real /\ ~latched
      BY DEF Considered, TickInv
    <3>2. ASSUME NEW m \in S PROVE arm'[m].state = "ARMED"
      <4>1. Considered(m) /\ arm[m].state = "ARMING" /\ arm[m].arming = "Due" /\ ~ArmedIdle(m)
        BY DEF ArmedIdle
      <4>2. DecidedArm(m) = Settled("ARMED")
        BY <4>1 DEF DecidedArm
      <4>3. QED
        BY <2>2, <4>2 DEF Settled
    <3>3. QED
      BY <2>1, <3>1, <3>2 DEF Out
  <2>4. \A m \in S : LifeOf(m) = "ARMING"
    BY <2>3, LifeIsArmState
  <2>5. \A m \in S : LifeOf(m)' = "ARMED"
    BY <2>3 DEF LifeOf
  <2>6. \A m \in ArmMotors \ S : arm'[m].state = arm[m].state
    BY <2>2 DEF DecidedArm, ArmRecords
  <2>7. \A m \in ArmMotors \ S : Kept(m)
    BY <1>a, <2>1, <2>6, LifeKept
  <2>8. \A m \in ArmMotors : (Enabled(m)' <=> Enabled(m)) /\ (Moving(m)' <=> Moving(m))
    BY <2>1 DEF Enabled, Moving
  <2>9. S \in SUBSET ArmMotors
    OBVIOUS
  <2> HIDE DEF S
  <2>10. Contract!Becomes(S, "ARMED")
    BY <2>5, <2>7, <2>9, ContractBecomes
  <2>11. Contract!Declare(S)
    BY <2>4, <2>8, <2>9, <2>10 DEF Contract!Declare
  <2>12. QED
    BY <2>9, <2>11 DEF Contract!Next
<1>8. CASE OnDriveFault
  <2>1. UNCHANGED <<real, latched>> /\ real \in SUBSET ArmMotors
    BY <1>8 DEF OnDriveFault, TypeInv, TypeOK
  <2>2. \A m \in real : Out(m)'
    BY <1>8, <2>1 DEF OnDriveFault, Out, Settled
  <2>3. \A m \in ArmMotors \ real : Kept(m)
    BY <1>a, <1>8, <2>1, LifeKept DEF OnDriveFault
  <2>4. QED
    BY <1>5, <1>6, <2>1, <2>2, <2>3
<1>9. CASE LatchArmBus
  <2>1. CASE latched
    BY <1>4, <1>9, <2>1 DEF LatchArmBus
  <2>2. CASE ~latched
    <3>1. \A m \in ArmMotors : Out(m)'
      BY <1>9, <2>2 DEF LatchArmBus, Out
    <3>2. QED
      BY <1>5, <1>6, <3>1
  <2>3. QED
    BY <2>1, <2>2
<1>10. ASSUME NEW k, RemoveMotor(k) PROVE Goal
  <2>1. CASE latched \/ k \notin real
    BY <1>4, <1>10, <2>1 DEF RemoveMotor
  <2>2. CASE ~(latched \/ k \notin real)
    <3>1. /\ real' = real \ {k} /\ latched' = latched /\ k \in ArmMotors
          /\ arm' = [arm EXCEPT ![k] = Settled("DISARMED")]
      BY <1>10, <2>2 DEF RemoveMotor, TypeInv, TypeOK
    <3>2. Out(k)'
      BY <3>1 DEF Out
    <3>3. \A m \in ArmMotors \ {k} : Kept(m)
      BY <1>a, <3>1, LifeKept
    <3>4. {k} \in SUBSET ArmMotors /\ \A m \in {k} : LifeOf(m)' = "OUT"
      BY <1>6, <3>1, <3>2
    <3>5. QED
      BY <1>5, <3>3, <3>4
  <2>3. QED
    BY <2>1, <2>2
<1>11. CASE \E k \in ArmMotors : RearmWaitElapses(k) \/ IdleElapses(k)
  <2>1. UNCHANGED <<real, latched>> /\ \A m \in ArmMotors : arm'[m].state = arm[m].state
    BY <1>11, TimersKeepState DEF RearmWaitElapses, IdleElapses
  <2>2. QED
    BY <1>a, <1>3, <2>1, LifeKept
<1>12. CASE UNCHANGED vars \/ UNCHANGED armVars \/ OnArmCmd \/ OnSbusJs \/ OnArmActive
  BY <1>4, <1>12 DEF vars, armVars, OnArmCmd, OnSbusJs, OnArmActive
<1>13. QED
  BY <1>7, <1>8, <1>9, <1>10, <1>11, <1>12
  DEF Next, ArmNext, MotorsMove, OnArmFault, OnArmBattery

\* The arm controller implements the contract of LatchedBus, whatever the heartbeat
\* node does beside it and whichever motors leave their bus.
THEOREM ArmKeepsContract == Spec => KeepsContract
<1>1. TypeInv /\ TickInv /\ StopInv /\ [Next]_vars => [Contract!Next]_(Contract!vars)
  BY ContractStep DEF StopInv
<1>2. QED
  BY <1>1, ContractInit, StopInvHolds, PTL DEF Spec, KeepsContract, Contract!Spec

-----------------------------------------------------------------------------
(* The active lists.                                                       *)

\* A list of the motors alive is still to be computed or to be published.
ListToCome == pollStep \in {"list", "publish"} \/ canStep # "idle"

\* The list a thread is about to publish is that of now, unless the other thread is
\* about to make another; and the last list published is that of now, or the
\* controller has made of it what it should, unless another is to come.
ListInv ==
  /\ pollStep = "publish" /\ canStep = "idle" => pollList = AliveArm
  /\ canStep = "publish" /\ pollStep \notin {"list", "publish"} => canList = AliveArm
  /\ ~ListToCome /\ activeQ # <<>> => activeQ[Len(activeQ)] = AliveArm
  /\ ~ListToCome /\ activeQ = <<>> /\ ~latched => \A m \in real : alive[m] => m \notin override

\* At the start the first list is under way, and every motor is in it.
LEMMA ListInvInit == Init => ListInv
<1> SUFFICES ASSUME Init PROVE ListInv
  OBVIOUS
<1>1. pollStep = "idle" /\ canStep = "idle" /\ activeQ = <<ArmMotors>>
  BY DEF Init, MonitorInit
<1>2. AliveArm = ArmMotors
  BY DEF Init, MonitorInit, AliveArm, Motors
<1>3. activeQ # <<>> /\ activeQ[Len(activeQ)] = ArmMotors
  BY <1>1
<1>4. QED
  BY <1>1, <1>2, <1>3 DEF ListInv

\* Whatever leaves the lists alone, and takes motors out at most.
LEMMA ListInvKept ==
  ASSUME ListInv, AliveArm' = AliveArm, UNCHANGED <<canThread, activeQ>>,
         pollStep' \in {"list", "publish"} <=> pollStep \in {"list", "publish"},
         pollStep' = "publish" => pollStep = "publish" /\ pollList' = pollList,
         ~latched' => ~latched /\ override' = override /\ real' \subseteq real
                      /\ \A m \in real' : alive'[m] = alive[m]
  PROVE  ListInv'
<1>1. UNCHANGED <<canStep, canList, activeQ>>
  BY DEF canThread
<1>2. (pollStep = "publish" /\ canStep = "idle" => pollList = AliveArm)'
  BY <1>1 DEF ListInv
<1>3. (canStep = "publish" /\ pollStep \notin {"list", "publish"} => canList = AliveArm)'
  BY <1>1 DEF ListInv
<1>4. ListToCome' <=> ListToCome
  BY <1>1 DEF ListToCome
<1>5. QED
  BY <1>1, <1>2, <1>3, <1>4 DEF ListInv

\* The last message of a queue with more than one is still its last when one is read.
LEMMA TailEnd ==
  ASSUME NEW S, NEW s \in Seq(S), s # <<>>, Len(s) # 1
  PROVE  Tail(s) # <<>> /\ Tail(s)[Len(Tail(s))] = s[Len(s)]
<1>1. Len(s) \in Nat \ {0}
  BY EmptySeq
<1>2. /\ Tail(s) \in Seq(S) /\ Len(Tail(s)) = Len(s) - 1
      /\ \A i \in 1..Len(Tail(s)) : Tail(s)[i] = s[i + 1]
  BY HeadTailProperties
<1>3. Tail(s)[Len(s) - 1] = s[Len(s)]
  BY <1>1, <1>2
<1>4. Tail(s) # <<>>
  <2>1. Len(Tail(s)) # 0
    BY <1>1, <1>2
  <2>2. Len(<<>>) = 0
    BY EmptySeq
  <2>3. QED
    BY <2>1, <2>2, Zenon
<1>5. QED
  BY <1>2, <1>3, <1>4

\* Every step in which the two threads are not both about to publish.
LEMMA ListInvNext ==
  ASSUME TypeInv, TickInv, ListInv, ListsInTurn, ListsInTurn', [Next]_vars
  PROVE  ListInv'
<1> USE DEF TypeInv, TypeOK, MonitorTypeOK
<1>1. real \subseteq ArmMotors /\ ArmMotors \subseteq Motors
  BY Groups
<1>2. CASE UNCHANGED vars \/ MotorsMove \/ OnArmCmd \/ OnSbusJs \/ OnDriveFault \/ TickDecides
           \/ (\E m \in ArmMotors : Execute(m) \/ RearmWaitElapses(m) \/ IdleElapses(m))
  <2>1. UNCHANGED <<alive, polling, canThread, activeQ, real, override, latched>>
    BY <1>2 DEF vars, monitor, maps, topics, armVars, MotorsMove, OnArmCmd, OnSbusJs, OnDriveFault,
       TickDecides, Execute, ExecuteArm, ExecuteRun, ExecuteDisarm, RearmWaitElapses, IdleElapses
  <2>2. QED
    BY <2>1, ListInvKept DEF AliveArm, ListToCome, polling, canThread
<1>3. CASE OnArmFault \/ OnArmBattery
  <2>1. UNCHANGED <<alive, polling, canThread, activeQ>>
    BY <1>3 DEF OnArmFault, OnArmBattery, monitor, maps, topics
  <2>2. ~latched' => ~latched /\ override' = override /\ real' \subseteq real
    BY <1>3 DEF OnArmFault, OnArmBattery, LatchArmBus, RemoveMotor
  <2>3. QED
    BY <2>1, <2>2, ListInvKept DEF AliveArm, ListToCome, polling, canThread
<1>4. CASE OnArmActive
  <2>1. /\ activeQ # <<>> /\ activeQ' = Tail(activeQ)
        /\ override' = IF latched THEN override
                       ELSE (override \ real) \cup (real \ Head(activeQ))
        /\ UNCHANGED <<alive, polling, canThread, real, latched>>
        /\ pollStep = "idle"
    BY <1>4 DEF OnArmActive, maps, TickInv
  <2>2. AliveArm' = AliveArm /\ ListToCome' = ListToCome
    BY <2>1 DEF AliveArm, ListToCome, polling, canThread
  <2>3. CASE Len(activeQ) = 1
    <3>1. activeQ' = <<>> /\ Head(activeQ) = activeQ[Len(activeQ)]
      BY <2>1, <2>3
    <3>2. ~ListToCome /\ ~latched => \A m \in real : alive[m] => m \notin override'
      BY <1>1, <2>1, <3>1 DEF ListInv, AliveArm
    <3>3. QED
      BY <2>1, <2>2, <3>1, <3>2 DEF ListInv, polling, canThread
  <2>4. CASE Len(activeQ) # 1
    <3>1. activeQ' # <<>> /\ activeQ'[Len(activeQ')] = activeQ[Len(activeQ)]
      BY <2>1, <2>4, TailEnd
    <3>2. QED
      BY <2>1, <2>2, <3>1 DEF ListInv, polling, canThread
  <2>5. QED
    BY <2>3, <2>4
<1>5. ASSUME NEW m \in Motors, Heartbeat(m), UNCHANGED armVars PROVE ListInv'
  <2>1. CASE m \in ArmMotors /\ ~alive[m]
    BY <1>5, <2>1 DEF Heartbeat, ListInv, ListToCome
  <2>2. CASE ~(m \in ArmMotors /\ ~alive[m])
    <3>1. /\ \A k \in ArmMotors : alive'[k] = alive[k]
          /\ UNCHANGED <<polling, canThread, activeQ, real, override, latched>>
      BY <1>1, <1>5, <2>2 DEF Heartbeat, canThread, topics, armVars
    <3>2. QED
      BY <1>1, <3>1, ListInvKept DEF AliveArm, ListToCome, polling, canThread
  <2>3. QED
    BY <2>1, <2>2
<1>6. CASE UNCHANGED armVars /\ (CanComputesList \/ PollComputesList)
  BY <1>6 DEF CanComputesList, PollComputesList, ListInv, ListToCome, ListsInTurn, AliveArm,
     maps, polling, canThread
<1>7. ASSUME UNCHANGED armVars, CanPublishes \/ PollPublishes PROVE ListInv'
  <2>1. PICK list \in SUBSET ArmMotors :
          activeQ' = Append(activeQ, list) /\ (~ListToCome' => list = AliveArm)
    BY <1>7 DEF CanPublishes, PollPublishes, ListInv, ListToCome, ListsInTurn, polling, canThread
  <2>2. activeQ' # <<>> /\ activeQ'[Len(activeQ')] = list
    BY <2>1
  <2>3. AliveArm' = AliveArm
    BY <1>7 DEF CanPublishes, PollPublishes, AliveArm, maps
  <2>4. /\ (pollStep = "publish" /\ canStep = "idle" => pollList = AliveArm)'
        /\ (canStep = "publish" /\ pollStep \notin {"list", "publish"} => canList = AliveArm)'
    BY <1>7, <2>3 DEF CanPublishes, PollPublishes, ListsInTurn, polling, canThread
  <2>5. QED
    BY <2>1, <2>2, <2>3, <2>4 DEF ListInv
<1>8. CASE UNCHANGED armVars /\ PollUpdates
  <2>1. /\ \A m \in Motors : alive'[m] = (beat[m] = "fresh")
        /\ pollStep' = IF \E m \in ArmMotors : alive[m] # (beat[m] = "fresh")
                       THEN "list" ELSE "check"
        /\ UNCHANGED <<canThread, activeQ, real, override, latched>> /\ pollStep = "idle"
    BY <1>8 DEF PollUpdates, topics, armVars, TickInv
  <2>2. CASE \E m \in ArmMotors : alive[m] # (beat[m] = "fresh")
    BY <2>1, <2>2 DEF ListInv, ListToCome
  <2>3. CASE ~(\E m \in ArmMotors : alive[m] # (beat[m] = "fresh"))
    <3>1. \A m \in ArmMotors : alive'[m] = alive[m]
      BY <1>1, <2>1, <2>3
    <3>2. QED
      BY <1>1, <2>1, <2>3, <3>1, ListInvKept DEF AliveArm, ListToCome, canThread
  <2>4. QED
    BY <2>2, <2>3
<1>9. CASE UNCHANGED armVars
           /\ (CheckHeartbeatFaults \/ PublishDiagnostics
               \/ \E m \in Motors : BeatGoesStale(m) \/ LossGrowsLong(m))
  <2>1. /\ UNCHANGED <<alive, canThread, activeQ, real, override, latched>>
        /\ \/ UNCHANGED <<pollStep, pollList>>
           \/ pollStep \notin {"list", "publish"} /\ pollStep' \notin {"list", "publish"}
    BY <1>9 DEF CheckHeartbeatFaults, PublishDiagnostics, BeatGoesStale, LossGrowsLong, maps,
       polling, topics, armVars, TickInv
  <2>2. QED
    BY <2>1, ListInvKept DEF AliveArm, ListToCome, canThread
<1>10. QED
  BY <1>2, <1>3, <1>4, <1>5, <1>6, <1>7, <1>8, <1>9 DEF Next, ArmNext, MonitorNext

\* Where the two threads never publish across one another, a joint whose heartbeat
\* is back is out of loopback (_on_arm_active), whatever was lost and removed.
THEOREM RestoredWithoutRace == Spec => RestoredInTurn
<1>1. ASSUME TypeInv, TickInv, ListInv PROVE RestoredWhenHeartbeatReturns
  BY <1>1 DEF RestoredWhenHeartbeatReturns, Quiet, ListInv, ListToCome, TickInv
<1>2. TypeInv /\ TickInv /\ ListInv /\ ListsInTurn /\ ListsInTurn' /\ [Next]_vars => ListInv'
  BY ListInvNext
<1>3. QED
  BY <1>1, <1>2, TypeInvInit, TypeInvNext, TickInvInit, TickInvNext, ListInvInit, PTL
     DEF Spec, RestoredInTurn
=============================================================================
