---------------------------- MODULE ArmController ----------------------------
(***************************************************************************)
(* arm_controller.py beside the heartbeat node it listens to.  Every       *)
(* callback of both runs on one executor thread; _command_tick is phase 1  *)
(* (decide) and then one step per planned action (phase 2).  Unlike the    *)
(* drive controller this one takes a motor for ARMED when the wait is over *)
(* and can put motors in loopback: such a joint's command is reported back *)
(* as its position and its motor gets no commands.                         *)
(***************************************************************************)
EXTENDS HeartbeatMonitor

CONSTANTS EPS_CNT, EPS_TORQUE_CAN

ASSUME EpsAssumption == EPS_CNT \in Nat /\ EPS_TORQUE_CAN \in Nat

VARIABLES
  target,          \* _motor_state: target_cnt or torque_cnt
  real,            \* the names in _real_motors
  arm,             \* _arm_state, of the motors still in it
  lastRun,         \* last_run_value of a joint
  override,        \* _loopback_override
  latched,         \* _arm_bus_latched
  driveFaultStop,  \* _drive_fault_stop
  plan             \* the actions a tick in progress has left

armVars == <<target, real, arm, lastRun, override, latched, driveFaultStop, plan>>
vars == <<bus, monitor, armVars>>

ArmStates == {"DISARMED", "ARMING", "ARMED", "FAULTED"}
ArmRecords == [state: ArmStates, arming: {"None", "Wait", "Due"},
               idle: {"None", "Recent", "Long"}]
Plans == [op: {"NONE", "ARM", "RUN", "DISARM"}, arg: Values]

Do(op) == [op |-> op, arg |-> 0]
Run(value) == [op |-> "RUN", arg |-> value]
Nothing == Do("NONE")
Settled(state) == [state |-> state, arming |-> "None", idle |-> "None"]

TypeOK ==
  /\ BusTypeOK /\ MonitorTypeOK
  /\ target \in [ArmMotors -> Values]
  /\ real \subseteq ArmMotors
  /\ arm \in [ArmMotors -> ArmRecords]
  /\ lastRun \in [ArmMotors -> Positions]
  /\ override \subseteq ArmMotors
  /\ latched \in BOOLEAN /\ driveFaultStop \in BOOLEAN
  /\ plan \in [ArmMotors -> Plans]

\* start_latched: bring-up found an arm motor missing and handed over none.
Init ==
  /\ BusInit /\ MonitorInit
  /\ target = [m \in ArmMotors |-> 0]
  /\ latched \in BOOLEAN
  /\ real = IF latched THEN {} ELSE ArmMotors
  /\ override = IF latched THEN ArmMotors ELSE {}
  /\ arm = [m \in ArmMotors |-> Settled("DISARMED")]
  /\ lastRun = [m \in ArmMotors |-> 0]
  /\ driveFaultStop = FALSE
  /\ plan = [m \in ArmMotors |-> Nothing]

-----------------------------------------------------------------------------
(* Commands.                                                               *)

OnArmCmd ==
  /\ executor = "free"
  /\ \E q \in [Joints -> Positions] :
       target' = [m \in ArmMotors |-> IF m \in Joints THEN q[m] ELSE target[m]]
  /\ UNCHANGED <<bus, monitor, real, arm, lastRun, override, latched, driveFaultStop, plan>>

OnSbusJs ==
  /\ executor = "free"
  /\ \E t \in [Grippers -> Torques] :
       target' = [m \in ArmMotors |-> IF m \in Grippers THEN t[m] ELSE target[m]]
  /\ UNCHANGED <<bus, monitor, real, arm, lastRun, override, latched, driveFaultStop, plan>>

-----------------------------------------------------------------------------
(* The heartbeat node's messages and the battery.                          *)

IsReal(m) == m \in real /\ m \notin override

\* Mutant: a later list takes nothing out of loopback that an earlier one put there.
OnArmActiveKeeping ==
  /\ executor = "free" /\ activeQ # <<>>
  /\ activeQ' = Tail(activeQ)
  /\ override' = IF latched THEN override ELSE override \cup (real \ Head(activeQ))
  /\ UNCHANGED <<bus, maps, latches, polling, canThread, armFaultQ, driveFaultQ,
                 target, real, arm, lastRun, latched, driveFaultStop, plan>>

OnArmActive ==
  /\ executor = "free" /\ activeQ # <<>>
  /\ activeQ' = Tail(activeQ)
  /\ override' = IF latched THEN override
                 ELSE (override \ real) \cup (real \ Head(activeQ))
  /\ UNCHANGED <<bus, maps, latches, polling, canThread, armFaultQ, driveFaultQ,
                 target, real, arm, lastRun, latched, driveFaultStop, plan>>

\* Mutant: trusting the heartbeat node to have disarmed the motors already.
LatchArmBusNoDisarm ==
  IF latched
  THEN UNCHANGED <<drives, real, arm, override, latched>>
  ELSE /\ latched' = TRUE
       /\ real' = {} /\ override' = ArmMotors
       /\ arm' = [m \in ArmMotors |-> Settled("DISARMED")]
       /\ UNCHANGED drives

\* Mutant: the motors disarmed but left with the controller.
LatchArmBusKeepsMotors ==
  IF latched
  THEN UNCHANGED <<drives, real, arm, override, latched>>
  ELSE /\ latched' = TRUE
       /\ DisarmDrives(real)
       /\ arm' = [m \in ArmMotors |-> Settled("DISARMED")]
       /\ UNCHANGED <<real, override>>

LatchArmBus ==
  IF latched
  THEN UNCHANGED <<drives, real, arm, override, latched>>
  ELSE /\ latched' = TRUE
       /\ DisarmDrives(real)
       /\ real' = {} /\ override' = ArmMotors
       /\ arm' = [m \in ArmMotors |-> Settled("DISARMED")]   \* _arm_state.clear()

\* A CiA-402 fault of one motor takes that motor out for good.
RemoveMotor(m) ==
  IF latched \/ m \notin real
  THEN UNCHANGED <<drives, real, arm, override, latched>>
  ELSE /\ DisarmDrives({m})
       /\ real' = real \ {m}
       /\ arm' = [arm EXCEPT ![m] = Settled("DISARMED")]     \* _arm_state.pop
       /\ UNCHANGED <<override, latched>>

OnArmFault ==
  /\ executor = "free" /\ armFaultQ # <<>>
  /\ armFaultQ' = Tail(armFaultQ)
  /\ IF Head(armFaultQ) = ALL THEN LatchArmBus ELSE RemoveMotor(Head(armFaultQ))
  /\ UNCHANGED <<wires, executor, maps, latches, polling, canThread, activeQ,
                 driveFaultQ, target, lastRun, driveFaultStop, plan>>

\* A false on /arm_battery_ok.
OnArmBattery ==
  /\ executor = "free" /\ ~latched
  /\ LatchArmBus
  /\ UNCHANGED <<wires, executor, monitor, target, lastRun, driveFaultStop, plan>>

\* Mutant: the flag alone, the heartbeat node having disarmed the arm.
OnDriveFaultFlagOnly ==
  /\ executor = "free" /\ driveFaultQ
  /\ driveFaultQ' = FALSE /\ driveFaultStop' = TRUE
  /\ UNCHANGED <<bus, maps, latches, polling, canThread, activeQ, armFaultQ,
                 target, real, arm, lastRun, override, latched, plan>>

OnDriveFault ==
  /\ executor = "free" /\ driveFaultQ
  /\ driveFaultQ' = FALSE /\ driveFaultStop' = TRUE
  /\ DisarmDrives(real)
  /\ arm' = [m \in ArmMotors |-> IF m \in real THEN Settled("FAULTED") ELSE arm[m]]
  /\ UNCHANGED <<wires, executor, maps, latches, polling, canThread, activeQ, armFaultQ,
                 target, real, lastRun, override, latched, plan>>

-----------------------------------------------------------------------------
(* _command_tick.                                                          *)

NonIdle(m) == IF m \in Joints THEN \/ target[m] - lastRun[m] > EPS_CNT
                                   \/ lastRun[m] - target[m] > EPS_CNT
                              ELSE target[m] > EPS_TORQUE_CAN \/ -target[m] > EPS_TORQUE_CAN

\* Mutant: a tick that forgets the loopback override.
ConsideredInLoopback(m) == m \in real

Considered(m) == m \in real /\ m \notin override
ArmedIdle(m) == arm[m].state = "ARMED" /\ ~NonIdle(m)

\* Mutant: the idle branch sends a RUN to every motor, as it does to the gripper.
PlannedActionHolding(m) ==
  CASE Considered(m) /\ arm[m].state = "DISARMED" /\ NonIdle(m) -> Do("ARM")
    [] Considered(m) /\ arm[m].state = "ARMED"
         /\ (NonIdle(m) \/ arm[m].idle = "None") -> Run(target[m])
    [] Considered(m) /\ ArmedIdle(m) /\ arm[m].idle = "Long" -> Do("DISARM")
    [] OTHER -> Nothing

PlannedAction(m) ==
  IF ~Considered(m) THEN Nothing
  ELSE CASE arm[m].state = "DISARMED" /\ NonIdle(m)               -> Do("ARM")
         [] arm[m].state = "ARMED" /\ NonIdle(m)                  -> Run(target[m])
         [] ArmedIdle(m) /\ arm[m].idle = "None" /\ m \in Grippers -> Run(0)
         [] ArmedIdle(m) /\ arm[m].idle = "Long"                  -> Do("DISARM")
         [] OTHER                                                 -> Nothing

\* Mutant: the drive's state stored where the controller's own belongs.
DecidedArmStoringCia(m) ==
  IF arm[m].state = "ARMING" /\ arm[m].arming = "Due"
  THEN Settled("OPERATION_ENABLED") ELSE arm[m]

DecidedArm(m) ==
  IF ~Considered(m) THEN arm[m]
  ELSE CASE arm[m].state = "ARMING" /\ arm[m].arming = "Due" -> Settled("ARMED")
         [] ArmedIdle(m) /\ arm[m].idle = "None" -> [arm[m] EXCEPT !.idle = "Recent"]
         [] OTHER -> arm[m]

TickDecides ==
  /\ executor = "free" /\ ~driveFaultStop
  /\ plan' = [m \in ArmMotors |-> PlannedAction(m)]
  /\ arm' = [m \in ArmMotors |-> DecidedArm(m)]
  /\ executor' = IF \E m \in ArmMotors : plan'[m] # Nothing THEN "tick" ELSE "free"
  /\ UNCHANGED <<drives, wires, monitor, target, real, lastRun, override, latched, driveFaultStop>>

\* The tick returns to the executor after its last action.
Finish(m) ==
  /\ plan' = [plan EXCEPT ![m] = Nothing]
  /\ executor' = IF \E k \in ArmMotors \ {m} : plan[k] # Nothing THEN "tick" ELSE "free"

\* Mutant: ARM also notes the pending command as the last one run.
ExecuteArmAsRun(m) ==
  /\ plan[m].op = "ARM" /\ Finish(m)
  /\ cia' = [cia EXCEPT ![m] = ARM(@, LostTo(m, ArmWrites))]
  /\ arm' = [arm EXCEPT ![m] = [state |-> "ARMING", arming |-> "Wait", idle |-> "None"]]
  /\ lastRun' = [lastRun EXCEPT ![m] = IF m \in Joints THEN target[m] ELSE @]
  /\ UNCHANGED <<held, profile, feedback, commanded, wires, monitor, target, real,
                 override, latched, driveFaultStop>>

ExecuteArm(m) ==
  /\ plan[m].op = "ARM" /\ Finish(m)
  /\ cia' = [cia EXCEPT ![m] = ARM(@, LostTo(m, ArmWrites))]
  /\ held' = [held EXCEPT ![m] = HaltedTarget(m)]
  /\ profile' = [profile EXCEPT ![m] = HaltedProfile(m)]
  /\ arm' = [arm EXCEPT ![m] = [state |-> "ARMING", arming |-> "Wait", idle |-> "None"]]
  /\ UNCHANGED <<feedback, commanded, wires, monitor, target, real, lastRun, override,
                 latched, driveFaultStop>>

\* RUN records its command first and never raises.
ExecuteRun(m) ==
  /\ plan[m].op = "RUN" /\ Finish(m)
  /\ held' = [held EXCEPT ![m] = IF link[m] = "up" THEN plan[m].arg ELSE @]
  /\ profile' = [profile EXCEPT ![m] = @ \/ (m \in Joints /\ link[m] = "up")]
  /\ commanded' = [commanded EXCEPT ![m] = IF m \in Joints THEN plan[m].arg ELSE @]
  /\ lastRun' = [lastRun EXCEPT ![m] = IF m \in Joints THEN plan[m].arg ELSE @]
  /\ arm' = [arm EXCEPT ![m].idle = "None"]
  /\ UNCHANGED <<cia, feedback, wires, monitor, target, real, override, latched, driveFaultStop>>

ExecuteDisarm(m) ==
  /\ plan[m].op = "DISARM" /\ Finish(m)
  /\ cia' = [cia EXCEPT ![m] = DISARM(@, LostTo(m, DisarmWrites))]
  /\ held' = [held EXCEPT ![m] = HaltedTarget(m)]
  /\ profile' = [profile EXCEPT ![m] = HaltedProfile(m)]
  /\ arm' = [arm EXCEPT ![m] = Settled("DISARMED")]
  /\ UNCHANGED <<feedback, commanded, wires, monitor, target, real, lastRun, override,
                 latched, driveFaultStop>>

Execute(m) == ExecuteArm(m) \/ ExecuteRun(m) \/ ExecuteDisarm(m)

RearmWaitElapses(m) ==
  /\ arm[m].arming = "Wait"
  /\ arm' = [arm EXCEPT ![m].arming = "Due"]
  /\ UNCHANGED <<bus, monitor, target, real, lastRun, override, latched, driveFaultStop, plan>>

\* IDLE_SECONDS (300 s): by then a joint on the bus has reached its target, and
\* the 5 Hz diagnostics have seen a fault of its drive.
Underway(m) == link[m] = "up" /\ (cia[m] = "FAULT" \/ (profile[m] /\ Enabled(m) /\ feedback[m] # held[m]))

IdleElapses(m) ==
  /\ arm[m].idle = "Recent" /\ ~Underway(m)
  /\ arm' = [arm EXCEPT ![m].idle = "Long"]
  /\ UNCHANGED <<bus, monitor, target, real, lastRun, override, latched, driveFaultStop, plan>>

-----------------------------------------------------------------------------

\* _publish_joint_states: what the IK node is told of a joint.
Published(j) == IF IsReal(j) THEN feedback[j] ELSE target[j]

ArmNext ==
  \/ OnArmCmd \/ OnSbusJs
  \/ OnArmActive \/ OnArmFault \/ OnArmBattery \/ OnDriveFault
  \/ TickDecides
  \/ \E m \in ArmMotors : Execute(m) \/ RearmWaitElapses(m) \/ IdleElapses(m)

MotorsMove ==
  /\ \E m \in Motors : Travel(m) \/ DriveFaults(m) \/ LinkLost(m) \/ LinkReturns(m)
  /\ UNCHANGED <<monitor, armVars>>

Next == ArmNext \/ MotorsMove \/ (MonitorNext /\ UNCHANGED armVars)

Spec == Init /\ [][Next]_vars

\* The executor starves none of its callbacks (strong fairness: another callback
\* in progress disables them all for a while), every callback and the CAN thread
\* finish what they began, a motor on the bus beats and moves, and time passes.
\* Nothing is owed by the operator, the battery, a fault or a link.
Fairness ==
  /\ SF_vars(TickDecides) /\ SF_vars(OnArmActive) /\ SF_vars(OnArmFault)
  /\ SF_vars(OnDriveFault)
  /\ SF_vars(PollUpdates /\ UNCHANGED armVars)
  /\ SF_vars(PublishDiagnostics /\ UNCHANGED armVars)
  /\ WF_vars((PollComputesList \/ PollPublishes \/ CheckHeartbeatFaults)
               /\ UNCHANGED armVars)
  /\ WF_vars((CanComputesList \/ CanPublishes) /\ UNCHANGED armVars)
  /\ WF_vars(\E m \in ArmMotors : Execute(m))
  /\ \A m \in Motors :
       /\ WF_vars(Heartbeat(m) /\ UNCHANGED armVars)
       /\ WF_vars((BeatGoesStale(m) \/ LossGrowsLong(m)) /\ UNCHANGED armVars)
       /\ WF_vars(Travel(m) /\ UNCHANGED <<monitor, armVars>>)
  /\ \A m \in ArmMotors : WF_vars(RearmWaitElapses(m)) /\ WF_vars(IdleElapses(m))

FairSpec == Spec /\ Fairness

-----------------------------------------------------------------------------
(* Properties.                                                             *)

\* What the abstract contract sees of a motor: the arm state, OUT once it was
\* removed, stopped or latched, and whether its drive holds a command to move.
Out(m) == latched \/ m \notin real \/ arm[m].state = "FAULTED"
LifeOf(m) == CASE Out(m)                                  -> "OUT"
               [] ~Out(m) /\ arm[m].state = "DISARMED"    -> "OFF"
               [] OTHER                                   -> arm[m].state
Moving(m) == IF m \in Joints THEN profile[m] ELSE held[m] # 0

Contract == INSTANCE LatchedBus WITH
              Motors <- ArmMotors,
              life <- [m \in ArmMotors |-> LifeOf(m)],
              powered <- {m \in ArmMotors : Enabled(m)},
              moving <- {m \in ArmMotors : Moving(m)}

\* The controller keeps the contract both motor controllers have with their buses,
\* with the heartbeat node disarming beside it and links coming and going: no drive
\* is switched on but by its own ARM, none is moved that is not declared armed, and
\* nothing is done to a motor that was taken out.
KeepsContract == Contract!Spec

\* As long as no motor was ever off its bus, what the controller believes of an
\* arm motor is true of its drive, although ARMED is declared by time alone: one
\* it takes for disarmed, faulted or removed is off, and one it takes for armed
\* is enabled unless it faulted or the heartbeat node has just shut it down.
BeliefMatchesDrive ==
  wasLost = {} =>
    \A m \in ArmMotors :
      /\ arm[m].state \in {"DISARMED", "FAULTED"} => ~Enabled(m)
      /\ arm[m].state = "ARMED" =>
           Enabled(m) \/ cia[m] = "FAULT" \/ driveTriggered \/ m \in armFaulted

\* Once the arm bus is latched, or stopped by a drive-bus fault, every arm drive
\* that was never off its bus is off, the removed ones and those in loopback too.
StoppedArmIsOff ==
  latched \/ driveFaultStop => \A m \in ArmMotors \ wasLost : ~Enabled(m)

\* No drive becomes enabled in this step, and no halted one starts to move.
NotDriven(m) == (Enabled(m)' => Enabled(m)) /\ (profile'[m] => profile[m])

\* Once the arm bus is latched it stays latched, and whatever arrives later, a
\* returning heartbeat among it, no arm drive is enabled again or set moving.
LatchedArmStaysOff ==
  [][latched => latched' /\ \A m \in ArmMotors : NotDriven(m)]_vars

\* A joint whose command is reported back as its position, because its heartbeat
\* is missing or it was removed, is never enabled or set moving meanwhile: the
\* override cannot change between a tick's decision and its CAN commands.
LoopbackNeverCommanded ==
  [][\A m \in ArmMotors : ~IsReal(m) => NotDriven(m)]_vars

\* An arm motor that stays off its bus gets the whole arm bus latched, and in the
\* end every arm drive the bus still reaches is off for good.
LostMotorLatchesBus ==
  \A m \in ArmMotors :
    <>[](link[m] = "down") =>
      <>[](latched /\ \A k \in ArmMotors \ wasLost : ~Enabled(k))

\* A drive-bus fault ends with every arm drive the bus reaches off for good, even
\* if a tick re-armed one between the heartbeat node's DISARM and its message.
DriveFaultStopsArm ==
  driveTriggered ~> [](\A m \in ArmMotors \ wasLost : ~Enabled(m))

\* With every motor on its bus, the position reported for a joint comes to rest
\* within the dead band of a command that is held, whether its motor is real,
\* was removed by a fault in between, or the arm is latched.
FeedbackFollowsCommand ==
  \A k \in Joints, q \in Positions :
    <>[](target[k] = q /\ wasLost = {} /\ ~driveTriggered) =>
      <>[](Published(k) - q <= EPS_CNT /\ q - Published(k) <= EPS_CNT)

\* A joint whose command stays idle is disarmed for good in the end, whatever
\* moves, faults and removals came before.
IdleJointDisarms ==
  \A k \in Joints : <>[](~NonIdle(k) /\ wasLost = {}) => <>[](arm[k].state # "ARMED")

\* arm_controller.py:202 announces that an idle motor is disarmed after
\* IDLE_SECONDS.  For the gripper the RUN(0) of its idle branch clears idle_since,
\* as every RUN does, so the next tick sends RUN(0) again and the time never adds
\* up.
IdleGripperDisarms ==
  \A k \in Grippers : <>[](~NonIdle(k)) => <>[](arm[k].state # "ARMED")

Quiet == /\ executor = "free" /\ canStep = "idle"
         /\ activeQ = <<>> /\ armFaultQ = <<>> /\ ~latched

\* arm_controller.py:330 promises that the loopback override is restored when the
\* heartbeat returns.  The heartbeat node's two threads may publish their active
\* lists in the opposite order of computing them, and then the override keeps the
\* older one with nothing left to correct it.
RestoredWhenHeartbeatReturns ==
  Quiet => \A m \in real : alive[m] => m \notin override

\* The two threads are never both between computing a list and publishing it.
ListsInTurn == ~(pollStep = "publish" /\ canStep = "publish")

\* That race is all that is in the way: where it never happens the override is
\* restored with the heartbeat, whatever is lost, removed and returns meanwhile.
RestoredInTurn == []ListsInTurn => []RestoredWhenHeartbeatReturns
=============================================================================
