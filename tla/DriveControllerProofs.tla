------------------------ MODULE DriveControllerProofs ------------------------
(***************************************************************************)
(* What holds of the drive controller for every set of motors, every       *)
(* command range and any number of outages and faults.                     *)
(***************************************************************************)
EXTENDS DriveController, Cia402Proofs

-----------------------------------------------------------------------------
(* Type correctness.                                                       *)

\* The values the handlers compute have their types.
LEMMA HaltTyped ==
  ASSUME TypeOK, NEW m \in Motors, NEW lost, NEW i
  PROVE  HaltedTarget(m, lost, i) \in Values /\ HaltedProfile(m, lost, i) \in BOOLEAN
<1>1. 0 \in Values /\ held[m] \in Values /\ lastRun[m] \in Values
  BY ValuesAssumption DEF TypeOK, Values
<1>2. HaltedTarget(m, lost, i) \in Values
  BY <1>1 DEF HaltedTarget
<1>3. HaltedProfile(m, lost, i) \in BOOLEAN
  BY DEF HaltedProfile, TypeOK
<1>4. QED
  BY <1>2, <1>3

LEMMA DecisionTyped ==
  ASSUME TypeOK, NEW m \in Motors
  PROVE  PlannedAction(m) \in Plans /\ DecidedArm(m) \in ArmRecords
<1>1. 0 \in Values /\ motorState[m] \in Values /\ arm[m] \in ArmRecords
  BY ValuesAssumption DEF TypeOK, Values
<1>2. PlannedAction(m) \in Plans
  BY <1>1 DEF PlannedAction, Plans, Actions, Do, Nothing
<1>3. DecidedArm(m) \in ArmRecords
  BY <1>1 DEF DecidedArm, ArmRecords, ArmStates, ArmingTimes, IdleTimes
<1>4. QED
  BY <1>2, <1>3

LEMMA NothingTyped == Nothing \in Plans
BY ValuesAssumption DEF Nothing, Do, Plans, Actions, Values

\* Of each motor a DISARM of the whole bus loses some of the writes, as a DISARM does.
LEMMA DisarmAllLost ==
  ASSUME DisarmAll
  PROVE  \E lost \in [Motors -> LostOf(DisarmWrites)] :
           /\ cia' = [m \in Motors |-> DISARM(cia[m], lost[m])]
           /\ held' = [m \in Motors |-> HaltedTarget(m, lost[m], 1)]
           /\ profile' = [m \in Motors |-> HaltedProfile(m, lost[m], 1)]
<1>1. PICK left : /\ \A m \in Motors : left[m] \in Disarmed(m)
                  /\ cia' = [m \in Motors |-> left[m].cia]
                  /\ held' = [m \in Motors |-> left[m].held]
                  /\ profile' = [m \in Motors |-> left[m].profile]
  BY DEF DisarmAll
<1> DEFINE Leaves(m, l) == left[m] = [cia |-> DISARM(cia[m], l), held |-> HaltedTarget(m, l, 1),
                                      profile |-> HaltedProfile(m, l, 1)]
           lost == [m \in Motors |-> CHOOSE l \in LostOf(DisarmWrites) : Leaves(m, l)]
<1>2. \A m \in Motors : \E l \in LostOf(DisarmWrites) : Leaves(m, l)
  BY <1>1 DEF Disarmed
<1>3. \A m \in Motors : lost[m] \in LostOf(DisarmWrites) /\ Leaves(m, lost[m])
  <2> HIDE DEF Leaves
  <2>1. QED
    BY <1>2
<1>4. lost \in [Motors -> LostOf(DisarmWrites)]
  BY <1>3
<1>5. \A m \in Motors : /\ left[m].cia = DISARM(cia[m], lost[m])
                        /\ left[m].held = HaltedTarget(m, lost[m], 1)
                        /\ left[m].profile = HaltedProfile(m, lost[m], 1)
  BY <1>3
<1> HIDE DEF lost
<1>6. QED
  BY <1>1, <1>4, <1>5

LEMMA DisarmAllTyped ==
  ASSUME TypeOK, DisarmAll
  PROVE  /\ cia' \in [Motors -> CiaStates]
         /\ held' \in [Motors -> Values]
         /\ profile' \in [Motors -> BOOLEAN]
<1>1. PICK lost : /\ cia' = [m \in Motors |-> DISARM(cia[m], lost[m])]
                  /\ held' = [m \in Motors |-> HaltedTarget(m, lost[m], 1)]
                  /\ profile' = [m \in Motors |-> HaltedProfile(m, lost[m], 1)]
  BY DisarmAllLost
<1>2. \A m \in Motors : cia[m] \in CiaStates
  BY DEF TypeOK
<1>3. QED
  BY <1>1, <1>2, DisarmTyped, HaltTyped

LEMMA SettledTyped == \A st \in ArmStates : Settled(st) \in ArmRecords
BY DEF Settled, ArmRecords, ArmingTimes, IdleTimes

LEMMA TypeInit == Init => TypeOK
<1> SUFFICES ASSUME Init PROVE TypeOK
  OBVIOUS
<1>1. lastRun \in [Motors -> Values]
  BY DEF Init, Values
<1>2. "SWITCH_ON_DISABLED" \in CiaStates /\ Settled("DISARMED") \in ArmRecords
  BY SettledTyped DEF CiaStates, ArmStates
<1>3. 0 \in 0..MaxOutages /\ 0 \in 0..MaxFaults
  BY BoundsAssumption
<1>4. statusword \in [Motors -> Statuses]
  BY <1>2 DEF Init, Statuses
<1>5. QED
  BY <1>1, <1>2, <1>3, <1>4, NothingTyped DEF Init, TypeOK

LEMMA TypeNext == TypeOK /\ [Next]_vars => TypeOK'
<1> SUFFICES ASSUME TypeOK, [Next]_vars PROVE TypeOK'
  OBVIOUS
<1> USE DEF controller, drives, network, monitor
<1>1. CASE OnFlipperCmd
  BY <1>1 DEF OnFlipperCmd, TypeOK, Values
<1>2. CASE OnSbusJs
  BY <1>2 DEF OnSbusJs, TypeOK, Values
<1>3. CASE TickDecide
  BY <1>3, DecisionTyped DEF TickDecide, TypeOK
<1>4. ASSUME NEW m \in Motors, ExecuteArm(m) PROVE TypeOK'
  <2>1. PICK lost : /\ cia' = [cia EXCEPT ![m] = ARM(@, lost)]
                    /\ held' = [held EXCEPT ![m] = HaltedTarget(m, lost, 4)]
                    /\ profile' = [profile EXCEPT ![m] = HaltedProfile(m, lost, 4)]
    BY <1>4 DEF ExecuteArm
  <2>2. cia[m] \in CiaStates
    BY DEF TypeOK
  <2>3. ARM(cia[m], lost) \in CiaStates
    BY <2>2, ArmTyped
  <2>4. [state |-> "ARMING", arming |-> "Wait", idle |-> "None"] \in ArmRecords
    BY DEF ArmRecords, ArmStates, ArmingTimes, IdleTimes
  <2>5. QED
    BY <1>4, <2>1, <2>3, <2>4, HaltTyped, NothingTyped DEF ExecuteArm, Done, TypeOK
<1>5. ASSUME NEW m \in Motors, ExecuteRun(m) PROVE TypeOK'
  <2>1. PICK lost :
          /\ held' = [held EXCEPT ![m] = IF 1 \in lost THEN @ ELSE plan[m].arg]
          /\ profile' = [profile EXCEPT ![m] = IF m \in Flippers /\ lost = {} THEN TRUE ELSE @]
    BY <1>5 DEF ExecuteRun
  <2>2. plan[m].arg \in Values /\ arm[m] \in ArmRecords
    BY DEF TypeOK, Plans
  <2>3. arm' \in [Motors -> ArmRecords]
    BY <1>5, <2>2 DEF ExecuteRun, TypeOK, ArmRecords, IdleTimes
  <2>4. QED
    BY <1>5, <2>1, <2>2, <2>3, NothingTyped DEF ExecuteRun, Done, TypeOK
<1>6. ASSUME NEW m \in Motors, ExecuteIdleStop(m) PROVE TypeOK'
  <2>1. 0 \in Values
    BY ValuesAssumption DEF Values
  <2>2. QED
    BY <1>6, <2>1, NothingTyped DEF ExecuteIdleStop, Done, TypeOK
<1>7. ASSUME NEW m \in Motors, ExecuteDisarm(m) PROVE TypeOK'
  <2>1. PICK lost : /\ cia' = [cia EXCEPT ![m] = DISARM(@, lost)]
                    /\ held' = [held EXCEPT ![m] = HaltedTarget(m, lost, 1)]
                    /\ profile' = [profile EXCEPT ![m] = HaltedProfile(m, lost, 1)]
    BY <1>7 DEF ExecuteDisarm
  <2>2. DISARM(cia[m], lost) \in CiaStates
    BY DisarmTyped DEF TypeOK
  <2>3. Settled("DISARMED") \in ArmRecords
    BY SettledTyped DEF ArmStates
  <2>4. QED
    BY <1>7, <2>1, <2>2, <2>3, HaltTyped, NothingTyped DEF ExecuteDisarm, Done, TypeOK
<1>8. CASE OnFaultStop \/ OnDriveBattery
  <2>1. FaultedArm \in [Motors -> ArmRecords]
    BY SettledTyped DEF FaultedArm, ArmStates
  <2>2. DisarmAll
    BY <1>8 DEF OnFaultStop, OnDriveBattery
  <2>3. QED
    BY <1>8, <2>1, <2>2, DisarmAllTyped DEF OnFaultStop, OnDriveBattery, TypeOK
<1>9. CASE DiagnosticsFault \/ HeartbeatFault
  <2>1. DisarmAll
    BY <1>9 DEF DiagnosticsFault, HeartbeatFault, TriggerDriveFault
  <2>2. QED
    BY <1>9, <2>1, DisarmAllTyped
    DEF DiagnosticsFault, HeartbeatFault, TriggerDriveFault, TypeOK
<1>10. ASSUME NEW m \in Motors, Tpdo3(m) \/ DriveFaults(m) PROVE TypeOK'
  <2>1. CASE Tpdo3(m)
    BY <2>1 DEF Tpdo3, TypeOK, Statuses
  <2>2. CASE DriveFaults(m)
    <3>1. "FAULT" \in CiaStates
      BY DEF CiaStates
    <3>2. faults' \in 0..MaxFaults
      BY <2>2, BoundsAssumption DEF DriveFaults, TypeOK
    <3>3. QED
      BY <2>2, <3>1, <3>2 DEF DriveFaults, TypeOK
  <2>3. QED
    BY <1>10, <2>1, <2>2
<1>11. CASE BusDegrades \/ BusRecovers
  BY <1>11, BoundsAssumption DEF BusDegrades, BusRecovers, TypeOK
<1>12. ASSUME NEW m \in Motors, RearmWaitElapses(m) \/ IdleElapses(m) PROVE TypeOK'
  <2>1. arm[m] \in ArmRecords
    BY DEF TypeOK
  <2>2. arm' \in [Motors -> ArmRecords]
    BY <1>12, <2>1 DEF RearmWaitElapses, IdleElapses, TypeOK, ArmRecords, ArmingTimes, IdleTimes
  <2>3. QED
    BY <1>12, <2>2 DEF RearmWaitElapses, IdleElapses, TypeOK
<1>13. CASE UNCHANGED vars
  BY <1>13 DEF vars, TypeOK
<1>14. QED
  BY <1>1, <1>2, <1>3, <1>4, <1>5, <1>6, <1>7, <1>8, <1>9, <1>10, <1>11, <1>12, <1>13
  DEF Next, Execute

\* Every variable of the controller, the drives and the bus keeps its type.
THEOREM TypeCorrect == Spec => []TypeOK
BY TypeInit, TypeNext, PTL DEF Spec

-----------------------------------------------------------------------------
(* What the plan of a tick may hold, and that a stop empties it.           *)

\* A timer running out changes no arm state.
LEMMA TimersKeepState ==
  ASSUME TypeOK, NEW k \in Motors, RearmWaitElapses(k) \/ IdleElapses(k), NEW m \in Motors
  PROVE  arm'[m].state = arm[m].state
<1>1. arm \in [Motors -> ArmRecords]
  BY DEF TypeOK
<1>2. CASE RearmWaitElapses(k)
  <2>1. arm' = [arm EXCEPT ![k] = [arm[k] EXCEPT !.arming = "Due"]]
    BY <1>2 DEF RearmWaitElapses
  <2>2. [arm[k] EXCEPT !.arming = "Due"].state = arm[k].state
    BY <1>1 DEF ArmRecords
  <2>3. QED
    BY <1>1, <2>1, <2>2
<1>3. CASE IdleElapses(k)
  <2>1. arm' = [arm EXCEPT ![k] = [arm[k] EXCEPT !.idle = "Long"]]
    BY <1>3 DEF IdleElapses
  <2>2. [arm[k] EXCEPT !.idle = "Long"].state = arm[k].state
    BY <1>1 DEF ArmRecords
  <2>3. QED
    BY <1>1, <2>1, <2>2
<1>4. QED
  BY <1>2, <1>3

\* A planned action fits the state its motor had when it was decided, which no
\* callback can change before the plan is executed: an ARM is for a motor that is
\* off or arming, everything else for an armed one, and a motor shut down has
\* no action pending.  This is what running on one executor thread buys.
PlanFits ==
  \A m \in Motors :
    /\ plan[m].op = "ARM" => arm[m].state \in {"DISARMED", "ARMING"}
    /\ plan[m].op \in {"RUN", "IDLE_STOP", "DISARM"} => arm[m].state = "ARMED"

LEMMA PlanFitsInit == Init => PlanFits
BY DEF Init, PlanFits, Nothing, Do

\* A motor whose plan entry and state a step leaves alone still fits.
LEMMA PlanFitsStep == TypeOK /\ PlanFits /\ [Next]_vars => PlanFits'
<1> SUFFICES ASSUME TypeOK, PlanFits, [Next]_vars, NEW m \in Motors
             PROVE  /\ plan'[m].op = "ARM" => arm'[m].state \in {"DISARMED", "ARMING"}
                    /\ plan'[m].op \in {"RUN", "IDLE_STOP", "DISARM"}
                         => arm'[m].state = "ARMED"
  BY DEF PlanFits
<1> DEFINE Fits == /\ plan'[m].op = "ARM" => arm'[m].state \in {"DISARMED", "ARMING"}
                   /\ plan'[m].op \in {"RUN", "IDLE_STOP", "DISARM"}
                        => arm'[m].state = "ARMED"
<1> USE DEF controller, drives, network, monitor
<1>a. arm[m] \in ArmRecords
  BY DEF TypeOK
<1>b. ExecutorFree => plan[m].op = "NONE"
  BY DEF ExecutorFree, Nothing, Do
<1>1. CASE TickDecide
  <2>1. plan'[m] = PlannedAction(m) /\ arm'[m] = DecidedArm(m)
    BY <1>1 DEF TickDecide
  <2>2. QED
    BY <2>1, <1>a DEF PlannedAction, DecidedArm, ArmingDue, Nothing, Do, ArmRecords
<1>2. ASSUME NEW k \in Motors, Execute(k) PROVE Fits
  <2>1. plan' = [plan EXCEPT ![k] = Nothing] /\ plan \in [Motors -> Plans]
    BY <1>2 DEF Execute, ExecuteArm, ExecuteRun, ExecuteIdleStop, ExecuteDisarm, Done, TypeOK
  <2>2. CASE m = k
    BY <2>1, <2>2 DEF Nothing, Do
  <2>3. CASE m # k
    <3>1. plan'[m] = plan[m]
      BY <2>1, <2>3
    <3>2. arm'[m] = arm[m]
      BY <1>2, <2>3 DEF Execute, ExecuteArm, ExecuteRun, ExecuteIdleStop, ExecuteDisarm, TypeOK
    <3>3. QED
      BY <3>1, <3>2 DEF PlanFits
  <2>4. QED
    BY <2>2, <2>3
<1>3. CASE OnFaultStop \/ OnDriveBattery
  BY <1>3, <1>b DEF OnFaultStop, OnDriveBattery
<1>4. ASSUME NEW k \in Motors, RearmWaitElapses(k) \/ IdleElapses(k) PROVE Fits
  <2>1. plan' = plan
    BY <1>4 DEF RearmWaitElapses, IdleElapses
  <2>2. arm'[m].state = arm[m].state
    BY <1>4, TimersKeepState
  <2>3. QED
    BY <2>1, <2>2 DEF PlanFits
<1>5. CASE arm' = arm /\ plan' = plan
  BY <1>5 DEF PlanFits
<1>6. QED
  BY <1>1, <1>2, <1>3, <1>4, <1>5
  DEF Next, vars, OnFlipperCmd, OnSbusJs, DiagnosticsFault, HeartbeatFault,
      TriggerDriveFault, Tpdo3, DriveFaults, BusDegrades, BusRecovers

\* No action is ever executed on a motor whose state changed since the decision.
THEOREM PlansFit == Spec => []PlanFits
BY TypeInit, TypeNext, PlanFitsInit, PlanFitsStep, PTL DEF Spec

-----------------------------------------------------------------------------
(* A motor shut down stays shut down.                                      *)

\* One step keeps a FAULTED motor FAULTED and its drive off.
LEMMA LatchedStep ==
  ASSUME TypeOK, PlanFits, [Next]_vars, NEW m \in Motors, arm[m].state = "FAULTED"
  PROVE  arm'[m].state = "FAULTED" /\ (Enabled(m)' => Enabled(m))
<1> DEFINE Goal == arm'[m].state = "FAULTED" /\ (Enabled(m)' => Enabled(m))
<1> USE DEF controller, drives, network, monitor
<1>a. arm[m] \in ArmRecords /\ cia[m] \in CiaStates
  BY DEF TypeOK
<1>1. CASE TickDecide
  <2>1. arm'[m] = arm[m]
    BY <1>1 DEF TickDecide, DecidedArm, ArmingDue
  <2>2. QED
    BY <1>1, <2>1 DEF TickDecide, Enabled
<1>2. ASSUME NEW k \in Motors, Execute(k) PROVE Goal
  <2>1. k # m
    BY <1>2 DEF PlanFits, Execute, ExecuteArm, ExecuteRun, ExecuteIdleStop, ExecuteDisarm
  <2>2. arm'[m] = arm[m] /\ cia'[m] = cia[m]
    BY <1>2, <2>1
    DEF Execute, ExecuteArm, ExecuteRun, ExecuteIdleStop, ExecuteDisarm, TypeOK
  <2>3. QED
    BY <2>2 DEF Enabled
<1>3. CASE OnFaultStop \/ OnDriveBattery \/ DiagnosticsFault \/ HeartbeatFault
  <2>1. DisarmAll
    BY <1>3 DEF OnFaultStop, OnDriveBattery, DiagnosticsFault, HeartbeatFault, TriggerDriveFault
  <2>2. PICK lost : cia' = [k \in Motors |-> DISARM(cia[k], lost[k])]
    BY <2>1, DisarmAllLost
  <2>3. Enabled(m)' => Enabled(m)
    BY <1>a, <2>2, DisarmTyped DEF Enabled
  <2>4. arm'[m].state = "FAULTED"
    BY <1>3 DEF OnFaultStop, OnDriveBattery, DiagnosticsFault, HeartbeatFault,
       TriggerDriveFault, FaultedArm, Settled
  <2>5. QED
    BY <2>3, <2>4
<1>4. ASSUME NEW k \in Motors, RearmWaitElapses(k) \/ IdleElapses(k) PROVE Goal
  BY <1>4, TimersKeepState DEF RearmWaitElapses, IdleElapses, Enabled
<1>5. ASSUME NEW k \in Motors, DriveFaults(k) PROVE Goal
  BY <1>5, <1>a DEF DriveFaults, Enabled, TypeOK
<1>6. CASE arm' = arm /\ cia' = cia
  BY <1>6 DEF Enabled
<1>7. QED
  BY <1>1, <1>2, <1>3, <1>4, <1>5, <1>6
  DEF Next, vars, OnFlipperCmd, OnSbusJs, Tpdo3, BusDegrades, BusRecovers

\* After a fault stop or a battery lockout nothing this process still sends, lost
\* or not, switches a drive of the bus on again.
THEOREM LatchHolds == Spec => LatchedNeverEnables
<1>1. TypeOK /\ PlanFits /\ [Next]_vars =>
        [\A m \in Motors : arm[m].state = "FAULTED" =>
           arm'[m].state = "FAULTED" /\ (Enabled(m)' => Enabled(m))]_vars
  BY LatchedStep
<1>2. QED
  BY <1>1, TypeCorrect, PlansFit, PTL DEF Spec, LatchedNeverEnables

-----------------------------------------------------------------------------
(* ARMED is declared of enabled drives only.                               *)

\* A statusword received since the ARM tells the truth: if it reads Operation
\* Enabled, nothing but a fault or the heartbeat node has taken the drive out of
\* that state since.
HeardTruth ==
  \A m \in Motors :
    heard[m] /\ arm[m].state = "ARMING" /\ statusword[m] = "OPERATION_ENABLED" =>
      Enabled(m) \/ cia[m] = "FAULT" \/ faultTriggered

LEMMA HeardTruthInit == Init => HeardTruth
BY DEF Init, HeardTruth

LEMMA HeardTruthStep == TypeOK /\ PlanFits /\ HeardTruth /\ [Next]_vars => HeardTruth'
<1> SUFFICES ASSUME TypeOK, PlanFits, HeardTruth, [Next]_vars, NEW m \in Motors
             PROVE  heard'[m] /\ arm'[m].state = "ARMING"
                      /\ statusword'[m] = "OPERATION_ENABLED" =>
                        Enabled(m)' \/ cia'[m] = "FAULT" \/ faultTriggered'
  BY DEF HeardTruth
<1> DEFINE Goal == heard'[m] /\ arm'[m].state = "ARMING"
                     /\ statusword'[m] = "OPERATION_ENABLED" =>
                       Enabled(m)' \/ cia'[m] = "FAULT" \/ faultTriggered'
           Same == arm'[m].state = arm[m].state /\ cia'[m] = cia[m]
           Quiet == UNCHANGED <<statusword, heard, faultTriggered>>
<1> USE DEF controller, drives, network, monitor
<1>a. Same /\ Quiet => Goal
  <2>1. SUFFICES ASSUME Same, Quiet PROVE Goal
    OBVIOUS
  <2>2. heard' = heard /\ statusword' = statusword /\ (faultTriggered' <=> faultTriggered)
    BY <2>1 DEF TypeOK
  <2>3. heard[m] /\ arm[m].state = "ARMING" /\ statusword[m] = "OPERATION_ENABLED" =>
          Enabled(m) \/ cia[m] = "FAULT" \/ faultTriggered
    BY DEF HeardTruth
  <2>4. QED
    BY <2>1, <2>2, <2>3 DEF Enabled
<1>1. CASE TickDecide
  <2>1. arm'[m] = DecidedArm(m) /\ Quiet /\ cia' = cia
    BY <1>1 DEF TickDecide
  <2>2. arm[m] \in ArmRecords
    BY DEF TypeOK
  <2>3. arm'[m].state = "ARMING" => arm[m].state = "ARMING"
    BY <2>1, <2>2 DEF DecidedArm, ArmRecords, ArmingDue
  <2>4. QED
    BY <2>1, <2>3 DEF HeardTruth, Enabled
<1>2. ASSUME NEW k \in Motors, ExecuteArm(k) PROVE Goal
  <2>1. CASE k = m
    BY <1>2, <2>1 DEF ExecuteArm, TypeOK
  <2>2. CASE k # m
    <3>1. /\ arm'[m] = arm[m] /\ cia'[m] = cia[m] /\ heard'[m] = heard[m]
          /\ UNCHANGED <<statusword, faultTriggered>>
      BY <1>2, <2>2 DEF ExecuteArm, TypeOK
    <3>2. QED
      BY <3>1 DEF HeardTruth, Enabled
  <2>3. QED
    BY <2>1, <2>2
<1>3. ASSUME NEW k \in Motors, ExecuteRun(k) \/ ExecuteIdleStop(k) PROVE Goal
  <2>1. arm \in [Motors -> ArmRecords]
    BY DEF TypeOK
  <2>2. arm' = [arm EXCEPT ![k] = [arm[k] EXCEPT !.idle = "None"]] \/ arm' = arm
    BY <1>3 DEF ExecuteRun, ExecuteIdleStop
  <2>3. [arm[k] EXCEPT !.idle = "None"].state = arm[k].state
    BY <2>1 DEF ArmRecords
  <2>4. arm'[m].state = arm[m].state
    BY <2>1, <2>2, <2>3
  <2>5. cia' = cia /\ Quiet
    BY <1>3 DEF ExecuteRun, ExecuteIdleStop
  <2>6. QED
    BY <1>a, <2>4, <2>5
<1>4. ASSUME NEW k \in Motors, ExecuteDisarm(k) PROVE Goal
  <2>1. CASE k = m
    BY <1>4, <2>1 DEF ExecuteDisarm, Settled, TypeOK, HeardTruth
  <2>2. CASE k # m
    BY <1>4, <2>2, <1>a DEF ExecuteDisarm, TypeOK
  <2>3. QED
    BY <2>1, <2>2
<1>5. CASE OnFaultStop \/ OnDriveBattery
  BY <1>5 DEF OnFaultStop, OnDriveBattery, FaultedArm, Settled, HeardTruth
<1>6. CASE DiagnosticsFault \/ HeartbeatFault
  BY <1>6 DEF DiagnosticsFault, HeartbeatFault, TriggerDriveFault, HeardTruth
<1>7. ASSUME NEW k \in Motors, Tpdo3(k) PROVE Goal
  <2>1. CASE k = m
    BY <1>7, <2>1 DEF Tpdo3, TypeOK, CiaStates, Enabled
  <2>2. CASE k # m
    BY <1>7, <2>2 DEF Tpdo3, TypeOK, HeardTruth, Enabled
  <2>3. QED
    BY <2>1, <2>2
<1>8. ASSUME NEW k \in Motors, DriveFaults(k) PROVE Goal
  BY <1>8 DEF DriveFaults, TypeOK, HeardTruth, Enabled
<1>9. ASSUME NEW k \in Motors, RearmWaitElapses(k) \/ IdleElapses(k) PROVE Goal
  BY <1>9, <1>a, TimersKeepState DEF RearmWaitElapses, IdleElapses
<1>10. CASE arm' = arm /\ cia' = cia /\ Quiet
  BY <1>10, <1>a
<1>11. QED
  BY <1>1, <1>2, <1>3, <1>4, <1>5, <1>6, <1>7, <1>8, <1>9, <1>10
  DEF Next, vars, Execute, OnFlipperCmd, OnSbusJs, BusDegrades, BusRecovers

LEMMA DeclaredStep ==
  ASSUME TypeOK, HeardTruth, [Next]_vars, NEW m \in Motors,
         arm[m].state = "ARMING", arm'[m].state = "ARMED", heard[m]
  PROVE  Enabled(m) \/ cia[m] = "FAULT" \/ faultTriggered
<1> USE DEF controller, drives, network, monitor
<1>1. CASE TickDecide
  <2>1. arm'[m] = DecidedArm(m)
    BY <1>1 DEF TickDecide
  <2>2. SeenEnabled(m)
    BY <2>1 DEF DecidedArm
  <2>3. QED
    BY <2>2 DEF SeenEnabled, HeardTruth
<1>2. ASSUME NEW k \in Motors, Execute(k) PROVE FALSE
  <2>1. arm \in [Motors -> ArmRecords]
    BY DEF TypeOK
  <2>2. arm'[m].state \in {arm[m].state, "ARMING", "DISARMED"}
    <3>1. CASE ExecuteArm(k)
      BY <2>1, <3>1 DEF ExecuteArm
    <3>2. CASE ExecuteRun(k) \/ ExecuteIdleStop(k)
      <4>1. arm' = [arm EXCEPT ![k] = [arm[k] EXCEPT !.idle = "None"]] \/ arm' = arm
        BY <3>2 DEF ExecuteRun, ExecuteIdleStop
      <4>2. [arm[k] EXCEPT !.idle = "None"].state = arm[k].state
        BY <2>1 DEF ArmRecords
      <4>3. QED
        BY <2>1, <4>1, <4>2
    <3>3. CASE ExecuteDisarm(k)
      BY <2>1, <3>3 DEF ExecuteDisarm, Settled
    <3>4. QED
      BY <1>2, <3>1, <3>2, <3>3 DEF Execute
  <2>3. QED
    BY <2>2
<1>3. CASE OnFaultStop \/ OnDriveBattery
  BY <1>3 DEF OnFaultStop, OnDriveBattery, FaultedArm, Settled
<1>4. ASSUME NEW k \in Motors, RearmWaitElapses(k) \/ IdleElapses(k) PROVE FALSE
  BY <1>4, TimersKeepState
<1>5. CASE arm' = arm
  BY <1>5
<1>6. QED
  BY <1>1, <1>2, <1>3, <1>4, <1>5
  DEF Next, vars, OnFlipperCmd, OnSbusJs, DiagnosticsFault, HeartbeatFault,
      TriggerDriveFault, Tpdo3, DriveFaults, BusDegrades, BusRecovers

\* The statusword check of the tick does what its comment asks for: whatever was
\* lost of an ARM, a motor heard from since is only declared ARMED enabled.
THEOREM DeclaredOnlyEnabled == Spec => EnabledWhenDeclared
<1>1. TypeOK /\ HeardTruth /\ [Next]_vars =>
        [\A m \in Motors :
           arm[m].state = "ARMING" /\ arm'[m].state = "ARMED" /\ heard[m] =>
             Enabled(m) \/ cia[m] = "FAULT" \/ faultTriggered]_vars
  BY DeclaredStep
<1>2. Spec => []HeardTruth
  BY TypeCorrect, PlansFit, HeardTruthInit, HeardTruthStep, PTL DEF Spec
<1>3. QED
  BY <1>1, <1>2, TypeCorrect, PTL DEF Spec, EnabledWhenDeclared

-----------------------------------------------------------------------------
(* As long as nothing was lost, belief and drive agree.                    *)

\* BeliefMatchesDrive made inductive: without an outage so far the bus is up, and
\* an arming drive is already enabled, for the ARM that was sent arrived whole.
Believed(m) ==
  /\ arm[m].state \in {"DISARMED", "FAULTED"} => AtRest(m)
  /\ arm[m].state \in {"ARMING", "ARMED"} =>
       Enabled(m) \/ cia[m] = "FAULT" \/ faultTriggered
BeliefInv == outages = 0 => bus = "up" /\ \A m \in Motors : Believed(m)

LEMMA BeliefInit == Init => BeliefInv
BY DEF Init, BeliefInv, Believed, Settled, AtRest, Enabled

LEMMA BeliefStep == TypeOK /\ PlanFits /\ BeliefInv /\ [Next]_vars => BeliefInv'
<1> SUFFICES ASSUME TypeOK, PlanFits, BeliefInv, [Next]_vars, outages' = 0
             PROVE  bus' = "up" /\ \A m \in Motors : Believed(m)'
  BY DEF BeliefInv
<1> USE DEF controller, drives, network, monitor
<1>0. outages = 0 /\ bus = "up" /\ bus' = "up" /\ (\A m \in Motors : Believed(m))
  <2>1. outages \in Nat
    BY BoundsAssumption DEF TypeOK
  <2>2. BusDegrades => FALSE
    BY <2>1 DEF BusDegrades
  <2>3. outages = 0
    BY <2>2 DEF Next, vars, Execute, ExecuteArm, ExecuteRun, ExecuteIdleStop, ExecuteDisarm,
       OnFlipperCmd, OnSbusJs, TickDecide, OnFaultStop, OnDriveBattery, DiagnosticsFault,
       HeartbeatFault, TriggerDriveFault, Tpdo3, DriveFaults, BusRecovers,
       RearmWaitElapses, IdleElapses
  <2>4. bus = "up" /\ \A m \in Motors : Believed(m)
    BY <2>3 DEF BeliefInv
  <2>5. bus' = "up"
    BY <2>2, <2>4 DEF Next, vars, Execute, ExecuteArm, ExecuteRun, ExecuteIdleStop,
       ExecuteDisarm, OnFlipperCmd, OnSbusJs, TickDecide, OnFaultStop, OnDriveBattery,
       DiagnosticsFault, HeartbeatFault, TriggerDriveFault, Tpdo3, DriveFaults, BusRecovers,
       RearmWaitElapses, IdleElapses
  <2>6. QED
    BY <2>3, <2>4, <2>5
<1> SUFFICES ASSUME NEW m \in Motors PROVE Believed(m)'
  BY <1>0
<1> DEFINE Same == /\ arm'[m].state = arm[m].state /\ cia'[m] = cia[m]
                   /\ held'[m] = held[m] /\ faultTriggered' = faultTriggered
<1>a. Same => Believed(m)'
  BY <1>0 DEF Believed, AtRest, Enabled
<1>b. arm[m] \in ArmRecords /\ cia[m] \in CiaStates
  BY DEF TypeOK
<1>1. CASE TickDecide
  <2>1. /\ arm'[m] = DecidedArm(m)
        /\ cia' = cia /\ held' = held /\ faultTriggered' = faultTriggered
    BY <1>1 DEF TickDecide
  <2>2. \/ arm'[m].state = arm[m].state
        \/ arm[m].state = "ARMING" /\ arm'[m].state = "ARMED"
    BY <2>1, <1>b DEF DecidedArm, ArmRecords, ArmingDue
  <2>3. QED
    BY <1>0, <2>1, <2>2 DEF Believed, AtRest, Enabled
<1>2. ASSUME NEW k \in Motors, Execute(k) PROVE Believed(m)'
  <2>1. CASE k # m
    <3>1. Same
      BY <1>2, <2>1
      DEF Execute, ExecuteArm, ExecuteRun, ExecuteIdleStop, ExecuteDisarm, TypeOK
    <3>2. QED
      BY <3>1, <1>a
  <2>2. CASE k = m /\ ExecuteArm(m)
    <3>1. cia'[m] = ARM(cia[m], {}) /\ arm'[m].state = "ARMING"
      <4>1. LostOf(ArmWrites) = {{}}
        BY <1>0 DEF LostOf
      <4>2. cia' = [cia EXCEPT ![m] = ARM(cia[m], {})]
        BY <2>2, <4>1 DEF ExecuteArm
      <4>3. QED
        BY <2>2, <4>2 DEF ExecuteArm, TypeOK
    <3>2. cia'[m] = "OPERATION_ENABLED"
      BY <3>1, <1>b, ArmTyped
    <3>3. QED
      BY <3>1, <3>2 DEF Believed, Enabled
  <2>3. CASE k = m /\ (ExecuteRun(m) \/ ExecuteIdleStop(m))
    <3>1. arm[m].state = "ARMED"
      BY <2>3 DEF PlanFits, ExecuteRun, ExecuteIdleStop
    <3>2. cia' = cia /\ faultTriggered' = faultTriggered
      BY <2>3 DEF ExecuteRun, ExecuteIdleStop
    <3>3. arm'[m].state = arm[m].state
      <4>1. arm \in [Motors -> ArmRecords]
        BY DEF TypeOK
      <4>2. arm' = [arm EXCEPT ![m] = [arm[m] EXCEPT !.idle = "None"]] \/ arm' = arm
        BY <2>3 DEF ExecuteRun, ExecuteIdleStop
      <4>3. [arm[m] EXCEPT !.idle = "None"].state = arm[m].state
        BY <1>b DEF ArmRecords
      <4>4. QED
        BY <4>1, <4>2, <4>3
    <3>4. QED
      BY <1>0, <3>1, <3>2, <3>3 DEF Believed, AtRest, Enabled
  <2>4. CASE k = m /\ ExecuteDisarm(m)
    <3>1. /\ cia'[m] = DISARM(cia[m], {}) /\ held'[m] = HaltedTarget(m, {}, 1)
          /\ arm'[m].state = "DISARMED"
      <4>1. LostOf(DisarmWrites) = {{}}
        BY <1>0 DEF LostOf
      <4>2. /\ cia' = [cia EXCEPT ![m] = DISARM(cia[m], {})]
            /\ held' = [held EXCEPT ![m] = HaltedTarget(m, {}, 1)]
        BY <2>4, <4>1 DEF ExecuteDisarm
      <4>3. QED
        BY <2>4, <4>2 DEF ExecuteDisarm, TypeOK, Settled
    <3>2. cia'[m] = "SWITCH_ON_DISABLED"
      BY <3>1, <1>b, DisarmTyped
    <3>3. m \in Wheels => held'[m] = 0
      BY <3>1, MotorsAssumption DEF HaltedTarget, HaltFirst
    <3>4. QED
      BY <3>1, <3>2, <3>3 DEF Believed, AtRest, Enabled
  <2>5. QED
    BY <1>2, <2>1, <2>2, <2>3, <2>4 DEF Execute
<1>3. CASE OnFaultStop \/ OnDriveBattery \/ DiagnosticsFault \/ HeartbeatFault
  <2>1. DisarmAll
    BY <1>3 DEF OnFaultStop, OnDriveBattery, DiagnosticsFault, HeartbeatFault, TriggerDriveFault
  <2>2. PICK lost \in [Motors -> LostOf(DisarmWrites)] :
          /\ cia' = [k \in Motors |-> DISARM(cia[k], lost[k])]
          /\ held' = [k \in Motors |-> HaltedTarget(k, lost[k], 1)]
    BY <2>1, DisarmAllLost
  <2>3. lost[m] = {}
    BY <1>0 DEF LostOf
  <2>4. cia'[m] = "SWITCH_ON_DISABLED"
    BY <2>2, <2>3, <1>b, DisarmTyped
  <2>5. m \in Wheels => held'[m] = 0
    BY <2>2, <2>3, MotorsAssumption DEF HaltedTarget, HaltFirst
  <2>6. \/ arm'[m].state = "FAULTED"
        \/ faultTriggered'
    BY <1>3 DEF OnFaultStop, OnDriveBattery, DiagnosticsFault, HeartbeatFault,
       TriggerDriveFault, FaultedArm, Settled
  <2>7. QED
    BY <2>4, <2>5, <2>6 DEF Believed, AtRest, Enabled
<1>4. ASSUME NEW k \in Motors, RearmWaitElapses(k) \/ IdleElapses(k) PROVE Believed(m)'
  BY <1>4, <1>a, TimersKeepState DEF RearmWaitElapses, IdleElapses
<1>5. ASSUME NEW k \in Motors, DriveFaults(k) PROVE Believed(m)'
  <2>1. cia'[m] = "FAULT" \/ cia'[m] = cia[m]
    BY <1>5 DEF DriveFaults, TypeOK
  <2>2. arm' = arm /\ held' = held /\ faultTriggered' = faultTriggered
    BY <1>5 DEF DriveFaults
  <2>3. QED
    BY <1>0, <2>1, <2>2 DEF Believed, AtRest, Enabled
<1>6. CASE arm' = arm /\ cia' = cia /\ held' = held /\ faultTriggered' = faultTriggered
  BY <1>6, <1>a
<1>7. QED
  BY <1>1, <1>2, <1>3, <1>4, <1>5, <1>6
  DEF Next, vars, OnFlipperCmd, OnSbusJs, Tpdo3, BusDegrades, BusRecovers

\* Until a write is lost the arm state of every motor is true of its drive.
THEOREM BeliefHolds == Spec => []BeliefMatchesDrive
<1>1. BeliefInv => BeliefMatchesDrive
  BY DEF BeliefInv, Believed, BeliefMatchesDrive
<1>2. Spec => []BeliefInv
  BY TypeCorrect, PlansFit, BeliefInit, BeliefStep, PTL DEF Spec
<1>3. QED
  BY <1>1, <1>2, PTL

-----------------------------------------------------------------------------
(* A stop is noted of every motor at once, and nothing takes it back.      *)

\* The two flags and the arm states tell the same.
StopNoted == Stopped => \A m \in Motors : arm[m].state = "FAULTED"

\* At the start there was no stop, and no step undoes one.
LEMMA StopNotedInit == Init => StopNoted
BY DEF Init, StopNoted, Stopped

LEMMA StopNotedStep == TypeOK /\ PlanFits /\ StopNoted /\ [Next]_vars => StopNoted'
<1> SUFFICES ASSUME TypeOK, PlanFits, StopNoted, [Next]_vars, Stopped', NEW m \in Motors
             PROVE  arm'[m].state = "FAULTED"
  BY DEF StopNoted
<1> USE DEF controller, drives, network, monitor
<1>1. CASE OnFaultStop \/ OnDriveBattery
  BY <1>1 DEF OnFaultStop, OnDriveBattery, FaultedArm, Settled
<1>2. CASE Stopped
  BY <1>2, LatchedStep DEF StopNoted
<1>3. CASE faultStop' = faultStop /\ batteryLockout' = batteryLockout
  BY <1>2, <1>3 DEF Stopped
<1>4. QED
  BY <1>1, <1>3
  DEF Next, vars, OnFlipperCmd, OnSbusJs, TickDecide, Execute, ExecuteArm, ExecuteRun,
      ExecuteIdleStop, ExecuteDisarm, DiagnosticsFault, HeartbeatFault, TriggerDriveFault,
      Tpdo3, DriveFaults, BusDegrades, BusRecovers, RearmWaitElapses, IdleElapses

LEMMA StopIsNoted == Spec => []StopNoted
BY TypeCorrect, PlansFit, StopNotedInit, StopNotedStep, PTL DEF Spec

\* The safe half of FaultLeadsToAllOff: the state that a fault leads to is off, and
\* stays off.  Only that it is reached is left to the fairness of the executor.
THEOREM StoppedStaysOff == Spec => []StoppedBusIsOff
<1>1. BeliefMatchesDrive /\ StopNoted => StoppedBusIsOff
  BY DEF BeliefMatchesDrive, StopNoted, StoppedBusIsOff
<1>2. QED
  BY <1>1, BeliefHolds, StopIsNoted, PTL

-----------------------------------------------------------------------------
(* The controller implements the abstract contract.                        *)

\* The life of a motor is its arm state under another name.
LEMMA LifeIsArmState ==
  ASSUME TypeOK, StopNoted, NEW m \in Motors
  PROVE  /\ arm[m].state = "FAULTED" => LifeOf(m) = "OUT"
         /\ arm[m].state = "DISARMED" => LifeOf(m) = "OFF"
         /\ arm[m].state \in {"ARMING", "ARMED"} => LifeOf(m) = arm[m].state
         /\ arm[m].state \in ArmStates
<1>1. arm[m].state \in ArmStates
  BY DEF TypeOK, ArmRecords
<1>2. Stopped => arm[m].state = "FAULTED"
  BY DEF StopNoted
<1>3. QED
  BY <1>1, <1>2 DEF LifeOf, ArmStates

\* What a step must be seen to do to the motors one by one, to be a step of the contract.
LEMMA ContractBecomes ==
  ASSUME NEW S \in SUBSET Motors, NEW st,
         \A m \in S : LifeOf(m)' = st,
         \A m \in Motors \ S : LifeOf(m)' = LifeOf(m)
  PROVE  Contract!Becomes(S, st)
BY DEF Contract!Becomes

LEMMA ContractOnlyStops ==
  ASSUME \A m \in Motors : (Enabled(m)' => Enabled(m)) /\ (Moving(m)' => Moving(m))
  PROVE  Contract!OnlyStops
BY DEF Contract!OnlyStops

\* Whatever is lost of a halt, it makes no drive move.
LEMMA HaltStops ==
  ASSUME TypeOK, NEW m \in Motors, NEW lost, NEW i
  PROVE  /\ m \in Wheels /\ HaltedTarget(m, lost, i) # 0 => held[m] # 0
         /\ m \in Flippers /\ HaltedProfile(m, lost, i) => profile[m]
<1>1. m \in Wheels => m \notin Flippers
  BY MotorsAssumption
<1>2. m \in Wheels => HaltedTarget(m, lost, i) \in {0, held[m]}
  BY <1>1 DEF HaltedTarget
<1>3. QED
  BY <1>2 DEF HaltedProfile

\* Every drive is off and at rest before the first command.
LEMMA ContractInit == Init => Contract!Init
<1> SUFFICES ASSUME Init PROVE Contract!Init
  OBVIOUS
<1>1. \A m \in Motors : LifeOf(m) = "OFF"
  BY DEF Init, LifeOf, Stopped, Settled
<1>2. \A m \in Motors : ~Enabled(m)
  BY DEF Init, Enabled
<1>3. \A m \in Motors : ~Moving(m)
  BY DEF Init, Moving, Motors
<1>4. QED
  BY <1>1, <1>2, <1>3 DEF Contract!Init

\* Every step of the controller, its heartbeat node and its drives is a step of the
\* contract, or none.
LEMMA ContractStep ==
  TypeOK /\ PlanFits /\ StopNoted /\ [Next]_vars => [Contract!Next]_(Contract!vars)
<1> SUFFICES ASSUME TypeOK, PlanFits, StopNoted, [Next]_vars
             PROVE  Contract!Next \/ UNCHANGED Contract!vars
  OBVIOUS
<1> DEFINE Goal == Contract!Next \/ UNCHANGED Contract!vars
           Off(m) == (Enabled(m)' => Enabled(m)) /\ (Moving(m)' => Moving(m))
           Kept(m) == arm'[m].state = arm[m].state
           Powers == \A m \in Motors : Enabled(m)' <=> Enabled(m)
           Moves == \A m \in Motors : Moving(m)' <=> Moving(m)
<1> USE DEF controller, drives, network, monitor
<1>a. TypeOK' /\ StopNoted'
  BY TypeNext, StopNotedStep
<1>b. \A m \in Motors : arm[m] \in ArmRecords /\ cia[m] \in CiaStates
  BY DEF TypeOK
<1>c. \A m \in Motors :
        /\ arm[m].state \in ArmStates
        /\ arm[m].state = "FAULTED" => LifeOf(m) = "OUT"
        /\ arm[m].state = "DISARMED" => LifeOf(m) = "OFF"
        /\ arm[m].state \in {"ARMING", "ARMED"} => LifeOf(m) = arm[m].state
  BY LifeIsArmState
<1>d. \A m \in Motors :
        /\ arm'[m].state \in ArmStates
        /\ arm'[m].state = "FAULTED" => LifeOf(m)' = "OUT"
        /\ arm'[m].state = "DISARMED" => LifeOf(m)' = "OFF"
        /\ arm'[m].state \in {"ARMING", "ARMED"} => LifeOf(m)' = arm'[m].state
  <2>1. ASSUME NEW m \in Motors
        PROVE  /\ arm'[m].state \in ArmStates
               /\ arm'[m].state = "FAULTED" => LifeOf(m)' = "OUT"
               /\ arm'[m].state = "DISARMED" => LifeOf(m)' = "OFF"
               /\ arm'[m].state \in {"ARMING", "ARMED"} => LifeOf(m)' = arm'[m].state
    <3>1. arm'[m].state \in ArmStates
      BY <1>a DEF TypeOK, ArmRecords
    <3>2. Stopped' => arm'[m].state = "FAULTED"
      BY <1>a DEF StopNoted
    <3>3. QED
      BY <3>1, <3>2 DEF LifeOf, ArmStates
  <2>2. QED
    BY <2>1
<1>e. ASSUME NEW m \in Motors, Kept(m) PROVE LifeOf(m)' = LifeOf(m)
  BY <1>c, <1>d, <1>e DEF ArmStates
<1>1. CASE TickDecide
  <2> DEFINE S == {m \in Motors : arm[m].state = "ARMING" /\ arm'[m].state = "ARMED"}
  <2>1. \A m \in Motors \ S : Kept(m)
    <3>1. \A m \in Motors : arm'[m] = DecidedArm(m)
      BY <1>1 DEF TickDecide
    <3>2. QED
      BY <1>b, <3>1 DEF DecidedArm, ArmingDue, ArmRecords
  <2>2. \A m \in S : LifeOf(m) = "ARMING" /\ LifeOf(m)' = "ARMED"
    BY <1>c, <1>d
  <2>3. \A m \in Motors \ S : LifeOf(m)' = LifeOf(m)
    BY <1>e, <2>1
  <2>4. Powers /\ Moves
    BY <1>1 DEF TickDecide, Enabled, Moving
  <2> HIDE DEF S
  <2>5. S \subseteq Motors
    BY DEF S
  <2>6. Contract!Becomes(S, "ARMED")
    BY <2>2, <2>3, <2>5, ContractBecomes
  <2>7. Contract!Declare(S)
    BY <2>2, <2>4, <2>5, <2>6 DEF Contract!Declare
  <2>8. QED
    BY <2>5, <2>7 DEF Contract!Next
<1>2. ASSUME NEW k \in Motors, ExecuteArm(k) PROVE Goal
  <2>1. PICK lost : /\ cia' = [cia EXCEPT ![k] = ARM(@, lost)]
                    /\ held' = [held EXCEPT ![k] = HaltedTarget(k, lost, 4)]
                    /\ profile' = [profile EXCEPT ![k] = HaltedProfile(k, lost, 4)]
    BY <1>2 DEF ExecuteArm
  <2>2. arm' = [arm EXCEPT ![k] = [state |-> "ARMING", arming |-> "Wait", idle |-> "None"]]
    BY <1>2 DEF ExecuteArm
  <2>3. LifeOf(k) \in {"OFF", "ARMING"}
    BY <1>2, <1>c DEF PlanFits, ExecuteArm
  <2>4. arm'[k].state = "ARMING" /\ \A m \in Motors \ {k} : Kept(m)
    BY <2>2 DEF TypeOK
  <2>5. Contract!Becomes({k}, "ARMING")
    BY <1>d, <1>e, <2>4, ContractBecomes
  <2>6. \A m \in Motors \ {k} : Enabled(m)' <=> Enabled(m)
    BY <2>1 DEF Enabled, TypeOK
  <2>7. \A m \in Motors : Moving(m)' => Moving(m)
    <3>1. \A m \in Motors \ {k} : held'[m] = held[m] /\ profile'[m] = profile[m]
      BY <2>1 DEF TypeOK
    <3>2. held'[k] = HaltedTarget(k, lost, 4) /\ (profile'[k] <=> HaltedProfile(k, lost, 4))
      BY <2>1 DEF TypeOK
    <3>3. QED
      BY <3>1, <3>2, HaltStops, MotorsAssumption DEF Moving, Motors
  <2>8. Contract!Arm(k)
    BY <2>3, <2>5, <2>6, <2>7 DEF Contract!Arm
  <2>9. QED
    BY <2>8 DEF Contract!Next
<1>3. ASSUME NEW k \in Motors, ExecuteRun(k) \/ ExecuteIdleStop(k) PROVE Goal
  <2>1. LifeOf(k) = "ARMED"
    BY <1>3, <1>c DEF PlanFits, ExecuteRun, ExecuteIdleStop
  <2>2. \A m \in Motors : Kept(m)
    <3>1. arm' = arm \/ arm' = [arm EXCEPT ![k] = [arm[k] EXCEPT !.idle = "None"]]
      BY <1>3 DEF ExecuteRun, ExecuteIdleStop
    <3>2. [arm[k] EXCEPT !.idle = "None"].state = arm[k].state
      BY <1>b DEF ArmRecords
    <3>3. QED
      BY <3>1, <3>2 DEF TypeOK
  <2>3. \A m \in Motors : LifeOf(m)' = LifeOf(m)
    BY <1>e, <2>2
  <2>4. Powers
    BY <1>3 DEF ExecuteRun, ExecuteIdleStop, Enabled
  <2>5. \A m \in Motors \ {k} : held'[m] = held[m] /\ profile'[m] = profile[m]
    BY <1>3 DEF ExecuteRun, ExecuteIdleStop, TypeOK
  <2>6. \A m \in Motors \ {k} : Moving(m)' <=> Moving(m)
    BY <2>5 DEF Moving
  <2>7. Contract!Run(k)
    BY <2>1, <2>3, <2>4, <2>6 DEF Contract!Run
  <2>8. QED
    BY <2>7 DEF Contract!Next
<1>4. ASSUME NEW k \in Motors, ExecuteDisarm(k) PROVE Goal
  <2>1. PICK lost : /\ cia' = [cia EXCEPT ![k] = DISARM(@, lost)]
                    /\ held' = [held EXCEPT ![k] = HaltedTarget(k, lost, 1)]
                    /\ profile' = [profile EXCEPT ![k] = HaltedProfile(k, lost, 1)]
    BY <1>4 DEF ExecuteDisarm
  <2>2. arm' = [arm EXCEPT ![k] = Settled("DISARMED")]
    BY <1>4 DEF ExecuteDisarm
  <2>3. LifeOf(k) = "ARMED"
    BY <1>4, <1>c DEF PlanFits, ExecuteDisarm
  <2>4. arm'[k].state = "DISARMED" /\ \A m \in Motors \ {k} : Kept(m)
    BY <2>2 DEF TypeOK, Settled
  <2>5. Contract!Becomes({k}, "OFF")
    BY <1>d, <1>e, <2>4, ContractBecomes
  <2>6. \A m \in Motors : Enabled(m)' => Enabled(m)
    BY <1>b, <2>1, DisarmTyped DEF Enabled, TypeOK
  <2>7. \A m \in Motors : Moving(m)' => Moving(m)
    <3>1. \A m \in Motors \ {k} : held'[m] = held[m] /\ profile'[m] = profile[m]
      BY <2>1 DEF TypeOK
    <3>2. held'[k] = HaltedTarget(k, lost, 1) /\ (profile'[k] <=> HaltedProfile(k, lost, 1))
      BY <2>1 DEF TypeOK
    <3>3. QED
      BY <3>1, <3>2, HaltStops, MotorsAssumption DEF Moving, Motors
  <2>8. Contract!Disarm(k)
    BY <2>3, <2>5, <2>6, <2>7, ContractOnlyStops DEF Contract!Disarm
  <2>9. QED
    BY <2>8 DEF Contract!Next
<1>5. ASSUME DisarmAll PROVE Contract!OnlyStops
  <2>1. PICK lost : /\ cia' = [m \in Motors |-> DISARM(cia[m], lost[m])]
                    /\ held' = [m \in Motors |-> HaltedTarget(m, lost[m], 1)]
                    /\ profile' = [m \in Motors |-> HaltedProfile(m, lost[m], 1)]
    BY <1>5, DisarmAllLost
  <2>2. \A m \in Motors : Enabled(m)' => Enabled(m)
    BY <1>b, <2>1, DisarmTyped DEF Enabled
  <2>3. \A m \in Motors : Moving(m)' => Moving(m)
    BY <2>1, HaltStops, MotorsAssumption DEF Moving, Motors
  <2>4. QED
    BY <2>2, <2>3, ContractOnlyStops
<1>6. CASE OnFaultStop \/ OnDriveBattery
  <2>1. DisarmAll /\ arm' = FaultedArm
    BY <1>6 DEF OnFaultStop, OnDriveBattery
  <2>2. \A m \in Motors : LifeOf(m)' = "OUT"
    BY <1>d, <2>1 DEF FaultedArm, Settled
  <2>3. Contract!Retire(Motors)
    BY <1>5, <2>1, <2>2, ContractBecomes DEF Contract!Retire
  <2>4. QED
    BY <2>3 DEF Contract!Next
<1>7. ASSUME Contract!OnlyStops, \A m \in Motors : Kept(m) PROVE Goal
  <2>1. Contract!Lapse
    BY <1>e, <1>7 DEF Contract!Lapse
  <2>2. QED
    BY <2>1 DEF Contract!Next
<1>8. CASE DiagnosticsFault \/ HeartbeatFault
  BY <1>5, <1>7, <1>8 DEF DiagnosticsFault, HeartbeatFault, TriggerDriveFault
<1>9. ASSUME NEW k \in Motors, DriveFaults(k) PROVE Goal
  <2>1. Contract!OnlyStops
    BY <1>9, ContractOnlyStops DEF DriveFaults, Enabled, Moving, TypeOK
  <2>2. QED
    BY <1>7, <1>9, <2>1 DEF DriveFaults
<1>10. ASSUME \A m \in Motors : Kept(m), UNCHANGED <<cia, held, profile>> PROVE Goal
  <2>1. Contract!OnlyStops
    BY <1>10, ContractOnlyStops DEF Enabled, Moving
  <2>2. QED
    BY <1>7, <1>10, <2>1
<1>11. ASSUME NEW k \in Motors, RearmWaitElapses(k) \/ IdleElapses(k) PROVE Goal
  BY <1>10, <1>11, TimersKeepState DEF RearmWaitElapses, IdleElapses
<1>12. CASE UNCHANGED <<arm, cia, held, profile>>
  BY <1>10, <1>12
<1>13. QED
  BY <1>1, <1>2, <1>3, <1>4, <1>6, <1>8, <1>9, <1>11, <1>12
  DEF Next, vars, Execute, OnFlipperCmd, OnSbusJs, Tpdo3, BusDegrades, BusRecovers

\* The drive controller implements the contract of LatchedBus, whatever the outages.
THEOREM DriveKeepsContract == Spec => KeepsContract
BY ContractInit, ContractStep, TypeCorrect, PlansFit, StopIsNoted, PTL
DEF Spec, KeepsContract, Contract!Spec

=============================================================================
