--------------------------- MODULE DriveController ---------------------------
(***************************************************************************)
(* drive_controller.py: the command bridge of the Drive_CAN bus.           *)
(*                                                                         *)
(* Every callback of the node, and of the heartbeat node that shares its   *)
(* process, runs on one SingleThreadedExecutor (robot_bringup.py:220), so  *)
(* handlers never overlap.  _command_tick is still two steps: phase 1      *)
(* decides under the lock, phase 2 talks to the drives one motor after     *)
(* another.  Between any two writes the drives themselves move on: they    *)
(* fault, send TPDO3 statuswords from the CAN thread, or the bus goes      *)
(* away.  The library swallows every failed SDO write, so in an outage any *)
(* subset of the writes of a sequence is lost and the controller proceeds  *)
(* as if it had succeeded.                                                 *)
(***************************************************************************)
EXTENDS Cia402, FiniteSets

CONSTANTS Wheels,       \* the drives in CSV mode: Left_Drive, Right_Drive
          Flippers,     \* the drives in CSP mode: Front_Flipper, Rear_Flipper
          Speeds,       \* wheel commands, in CAN velocity units
          Positions,    \* flipper targets, in encoder counts
          EPS_CNT,      \* dead band of a flipper around its last RUN
          EPS_VEL_CAN,  \* dead band of a wheel around zero
          MaxOutages,   \* bound: how often the bus goes away
          MaxFaults     \* bound: how often a drive latches a fault

Motors == Wheels \cup Flippers
Values == Speeds \cup Positions

ASSUME MotorsAssumption ==
  /\ IsFiniteSet(Wheels) /\ IsFiniteSet(Flippers) /\ Wheels \cap Flippers = {}
ASSUME ValuesAssumption ==
  /\ Speeds \subseteq Int /\ Positions \subseteq Int /\ 0 \in Speeds \cap Positions
ASSUME BoundsAssumption ==
  /\ EPS_CNT \in Nat /\ EPS_VEL_CAN \in Nat
  /\ MaxOutages \in Nat /\ MaxFaults \in Nat

VARIABLES
  motorState,      \* _motor_state: target_cnt of a flipper, vel_cnt of a wheel
  arm,             \* _arm_state: state, arming_complete_time, idle_since
  lastRun,         \* _arm_state[..]['last_run_value'], read for flippers only; from
                   \*  the first RUN on also the library's command.position
  faultStop,       \* _fault_stop
  batteryLockout,  \* _battery_lockout
  plan,            \* the local list `actions' of the tick being executed
  cia,             \* the power state each drive is really in
  held,            \* the target each drive holds
  profile,         \* whether a flipper's Profile_velocity is non-zero
  statusword,      \* the last statusword telemetry of each drive
  heard,           \* a TPDO3 came since the last ARM of this motor
  bus,             \* "up", or "flaky" during an outage
  outages, faults, \* how many happened so far
  faultTriggered,  \* HeartbeatNode._drive_fault_triggered
  faultMsg         \* /drive_fault_stop published and not yet delivered

vars == <<motorState, arm, lastRun, faultStop, batteryLockout, plan, cia, held,
          profile, statusword, heard, bus, outages, faults, faultTriggered,
          faultMsg>>

controller == <<motorState, arm, lastRun, faultStop, batteryLockout, plan>>
drives == <<cia, held, profile, statusword, heard>>
network == <<bus, outages, faults>>
monitor == <<faultTriggered, faultMsg>>

-----------------------------------------------------------------------------

ArmStates == {"DISARMED", "ARMING", "ARMED", "FAULTED"}
Actions == {"NONE", "ARM", "RUN", "IDLE_STOP", "DISARM"}

\* A drive not heard of yet reads 0 in StatuswordShared.raw, which decodes to
\* NOT_READY_TO_SWITCH_ON, never to None.
Statuses == CiaStates \cup {"NOT_READY_TO_SWITCH_ON"}

\* arming_complete_time: unset, in the future, or reached (RE_ARM_WAIT_S).
ArmingTimes == {"None", "Wait", "Due"}
\* idle_since: unset, less than IDLE_SECONDS ago, or longer.
IdleTimes == {"None", "Recent", "Long"}

ArmRecords == [state: ArmStates, arming: ArmingTimes, idle: IdleTimes]
Plans == [op: Actions, arg: Values]

Do(op) == [op |-> op, arg |-> 0]
Nothing == Do("NONE")

Settled(state) == [state |-> state, arming |-> "None", idle |-> "None"]

TypeOK ==
  /\ motorState \in [Motors -> Values]
  /\ arm \in [Motors -> ArmRecords]
  /\ lastRun \in [Motors -> Values]
  /\ faultStop \in BOOLEAN /\ batteryLockout \in BOOLEAN
  /\ plan \in [Motors -> Plans]
  /\ cia \in [Motors -> CiaStates]
  /\ held \in [Motors -> Values]
  /\ profile \in [Motors -> BOOLEAN]
  /\ statusword \in [Motors -> Statuses]
  /\ heard \in [Motors -> BOOLEAN]
  /\ bus \in {"up", "flaky"}
  /\ outages \in 0..MaxOutages /\ faults \in 0..MaxFaults
  /\ faultTriggered \in BOOLEAN /\ faultMsg \in BOOLEAN

Init ==
  /\ lastRun \in [Motors -> Positions]     \* _seed_csp_from_feedback
  /\ \A w \in Wheels : lastRun[w] = 0
  /\ motorState = lastRun
  /\ arm = [m \in Motors |-> Settled("DISARMED")]
  /\ faultStop = FALSE /\ batteryLockout = FALSE
  /\ plan = [m \in Motors |-> Nothing]
  /\ cia = [m \in Motors |-> "SWITCH_ON_DISABLED"]
  /\ held = lastRun
  /\ profile = [m \in Motors |-> FALSE]
  /\ statusword \in [Motors -> {"NOT_READY_TO_SWITCH_ON", "SWITCH_ON_DISABLED"}]
  /\ heard = [m \in Motors |-> FALSE]
  /\ bus = "up" /\ outages = 0 /\ faults = 0
  /\ faultTriggered = FALSE /\ faultMsg = FALSE

-----------------------------------------------------------------------------
(* Subscription callbacks that set a target.                               *)

\* The executor runs one callback at a time: none starts while a tick is
\* still executing its plan.
ExecutorFree == \A m \in Motors : plan[m] = Nothing

OnFlipperCmd ==
  /\ ExecutorFree
  /\ \E q \in [Flippers -> Positions] :
       motorState' = [m \in Motors |-> IF m \in Flippers THEN q[m] ELSE motorState[m]]
  /\ UNCHANGED <<arm, lastRun, faultStop, batteryLockout, plan, drives, network, monitor>>

OnSbusJs ==
  /\ ExecutorFree
  /\ \E v \in [Wheels -> Speeds] :
       motorState' = [m \in Motors |-> IF m \in Wheels THEN v[m] ELSE motorState[m]]
  /\ UNCHANGED <<arm, lastRun, faultStop, batteryLockout, plan, drives, network, monitor>>

-----------------------------------------------------------------------------
(* _command_tick, phase 1.                                                 *)

Far(a, b, eps) == a - b > eps \/ b - a > eps

NonIdle(m) == IF m \in Flippers THEN Far(motorState[m], lastRun[m], EPS_CNT)
                                ELSE Far(motorState[m], 0, EPS_VEL_CAN)

\* Mutant: the time-based arming the comment at drive_controller.py:324 recalls.
SeenEnabledByTime(m) == m \in Motors

\* The code also accepts a statusword of None, which no drive ever has.
SeenEnabled(m) == statusword[m] = "OPERATION_ENABLED"

ArmingDue(m) == arm[m].state = "ARMING" /\ arm[m].arming = "Due"

PlannedAction(m) ==
  CASE arm[m].state = "DISARMED" /\ NonIdle(m)     -> Do("ARM")
    [] ArmingDue(m) /\ ~SeenEnabled(m)             -> Do("ARM")
    [] arm[m].state = "ARMED" /\ NonIdle(m)        -> [op |-> "RUN", arg |-> motorState[m]]
    [] arm[m].state = "ARMED" /\ ~NonIdle(m)
         /\ arm[m].idle = "None" /\ m \in Wheels   -> Do("IDLE_STOP")
    [] arm[m].state = "ARMED" /\ ~NonIdle(m)
         /\ arm[m].idle = "Long"                   -> Do("DISARM")
    [] OTHER                                       -> Nothing

\* Mutant: the drive's state stored where the controller's own belongs.
DecidedArmStoringCia(m) ==
  IF ArmingDue(m) /\ SeenEnabled(m)
  THEN [arm[m] EXCEPT !.state = "OPERATION_ENABLED", !.arming = "None"] ELSE arm[m]

DecidedArm(m) ==
  CASE ArmingDue(m) /\ SeenEnabled(m) ->
         [arm[m] EXCEPT !.state = "ARMED", !.arming = "None"]
    [] arm[m].state = "ARMED" /\ ~NonIdle(m) /\ arm[m].idle = "None" ->
         [arm[m] EXCEPT !.idle = "Recent"]
    [] OTHER -> arm[m]

TickDecide ==
  /\ ExecutorFree
  /\ ~faultStop /\ ~batteryLockout
  /\ plan' = [m \in Motors |-> PlannedAction(m)]
  /\ arm' = [m \in Motors |-> DecidedArm(m)]
  /\ UNCHANGED <<motorState, lastRun, faultStop, batteryLockout, drives, network, monitor>>

-----------------------------------------------------------------------------
(* _command_tick, phase 2: one action of the list.  The list holds at most *)
(* one action for a motor, and actions of different motors commute.        *)

\* Which writes of a sequence may be lost.
LostOf(writes) == IF bus = "up" THEN {{}} ELSE SUBSET writes

\* Mutant: a DISARM that only cuts the power stage and forgets the halt.
NoHaltTarget(m, lost, i) == held[m]

\* What CONTROLWORD_HALT, its first write numbered i, leaves in the drive.  Before
\* the first RUN of a flipper the library knows no position and its second write
\* fails, which leaves the same target.
HaltedTarget(m, lost, i) ==
  CASE m \in Wheels /\ HaltFirst(lost, i)    -> 0
    [] m \in Flippers /\ HaltSecond(lost, i) -> lastRun[m]
    [] OTHER -> held[m]
HaltedProfile(m, lost, i) == profile[m] /\ ~(m \in Flippers /\ HaltFirst(lost, i))

Done(m) == plan' = [plan EXCEPT ![m] = Nothing]

\* Mutant: ARM without setting arming_complete_time.
ExecuteArmUntimed(m) ==
  /\ plan[m].op = "ARM"
  /\ cia' = [cia EXCEPT ![m] = ARM(@, {})]
  /\ arm' = [arm EXCEPT ![m] = [state |-> "ARMING", arming |-> "None", idle |-> "None"]]
  /\ heard' = [heard EXCEPT ![m] = FALSE]
  /\ Done(m)
  /\ UNCHANGED <<motorState, lastRun, faultStop, batteryLockout, held, profile,
                 statusword, network, monitor>>

ExecuteArm(m) ==
  /\ plan[m].op = "ARM"
  /\ \E lost \in LostOf(ArmWrites) :
       /\ cia' = [cia EXCEPT ![m] = ARM(@, lost)]
       /\ held' = [held EXCEPT ![m] = HaltedTarget(m, lost, 4)]
       /\ profile' = [profile EXCEPT ![m] = HaltedProfile(m, lost, 4)]
  /\ arm' = [arm EXCEPT ![m] = [state |-> "ARMING", arming |-> "Wait", idle |-> "None"]]
  /\ heard' = [heard EXCEPT ![m] = FALSE]
  /\ Done(m)
  /\ UNCHANGED <<motorState, lastRun, faultStop, batteryLockout, statusword, network, monitor>>

\* RUN never raises: last_run_value advances even when the write was lost.
ExecuteRun(m) ==
  /\ plan[m].op = "RUN"
  /\ \E lost \in LostOf(1..2) :
       /\ held' = [held EXCEPT ![m] = IF 1 \in lost THEN @ ELSE plan[m].arg]
       /\ profile' = [profile EXCEPT ![m] = IF m \in Flippers /\ lost = {} THEN TRUE ELSE @]
  /\ lastRun' = [lastRun EXCEPT ![m] = IF m \in Flippers THEN plan[m].arg ELSE @]
  /\ arm' = [arm EXCEPT ![m].idle = "None"]
  /\ Done(m)
  /\ UNCHANGED <<motorState, faultStop, batteryLockout, cia, statusword, heard, network, monitor>>

\* Mutant: the stop counted as activity, as a RUN is.
ExecuteIdleStopAsRun(m) ==
  /\ plan[m].op = "IDLE_STOP"
  /\ held' = [held EXCEPT ![m] = 0]
  /\ arm' = [arm EXCEPT ![m].idle = "None"]
  /\ Done(m)
  /\ UNCHANGED <<motorState, lastRun, faultStop, batteryLockout, cia,
                 profile, statusword, heard, network, monitor>>

ExecuteIdleStop(m) ==
  /\ plan[m].op = "IDLE_STOP"
  /\ \E lost \in LostOf(1..1) :
       held' = [held EXCEPT ![m] = IF 1 \in lost THEN @ ELSE 0]
  /\ Done(m)
  /\ UNCHANGED <<motorState, arm, lastRun, faultStop, batteryLockout, cia,
                 profile, statusword, heard, network, monitor>>

ExecuteDisarm(m) ==
  /\ plan[m].op = "DISARM"
  /\ \E lost \in LostOf(DisarmWrites) :
       /\ cia' = [cia EXCEPT ![m] = DISARM(@, lost)]
       /\ held' = [held EXCEPT ![m] = HaltedTarget(m, lost, 1)]
       /\ profile' = [profile EXCEPT ![m] = HaltedProfile(m, lost, 1)]
  /\ arm' = [arm EXCEPT ![m] = Settled("DISARMED")]
  /\ Done(m)
  /\ UNCHANGED <<motorState, lastRun, faultStop, batteryLockout, statusword, heard, network, monitor>>

Execute(m) == ExecuteArm(m) \/ ExecuteRun(m) \/ ExecuteIdleStop(m) \/ ExecuteDisarm(m)

-----------------------------------------------------------------------------
(* Whole-bus stops.                                                        *)

\* What a DISARM can leave in the drive of a motor.
Disarmed(m) ==
  {[cia |-> DISARM(cia[m], lost), held |-> HaltedTarget(m, lost, 1),
    profile |-> HaltedProfile(m, lost, 1)] : lost \in LostOf(DisarmWrites)}

DisarmAll ==
  LET disarmed == [m \in Motors |-> Disarmed(m)]
  IN \E left \in [Motors -> UNION {disarmed[m] : m \in Motors}] :
       /\ \A m \in Motors : left[m] \in disarmed[m]
       /\ cia' = [m \in Motors |-> left[m].cia]
       /\ held' = [m \in Motors |-> left[m].held]
       /\ profile' = [m \in Motors |-> left[m].profile]

FaultedArm == [m \in Motors |-> Settled("FAULTED")]

\* Mutant: trusting the heartbeat node to have disarmed the drives already.
OnFaultStopNoDisarm ==
  /\ ExecutorFree
  /\ faultMsg /\ faultMsg' = FALSE
  /\ ~faultStop /\ faultStop' = TRUE
  /\ arm' = FaultedArm
  /\ UNCHANGED <<motorState, lastRun, batteryLockout, plan, drives, network, faultTriggered>>

OnFaultStop ==
  /\ ExecutorFree
  /\ faultMsg /\ faultMsg' = FALSE
  /\ ~faultStop
  /\ faultStop' = TRUE
  /\ DisarmAll
  /\ arm' = FaultedArm
  /\ UNCHANGED <<motorState, lastRun, batteryLockout, plan, statusword, heard,
                 network, faultTriggered>>

\* Mutant: a second executor thread runs the callback in the middle of a tick.
OnDriveBatteryConcurrent ==
  /\ ~batteryLockout /\ batteryLockout' = TRUE
  /\ DisarmAll
  /\ arm' = FaultedArm
  /\ UNCHANGED <<motorState, lastRun, faultStop, plan, statusword, heard, network, monitor>>

\* A false on /drive_battery_ok; a true returns at once.
OnDriveBattery ==
  /\ ExecutorFree
  /\ ~batteryLockout
  /\ batteryLockout' = TRUE
  /\ DisarmAll
  /\ arm' = FaultedArm
  /\ UNCHANGED <<motorState, lastRun, faultStop, plan, statusword, heard, network, monitor>>

\* The heartbeat node publishes and disarms; this node learns of the fault
\* from the message, ticks in between notwithstanding.
TriggerDriveFault ==
  /\ ExecutorFree
  /\ ~faultTriggered
  /\ faultTriggered' = TRUE /\ faultMsg' = TRUE
  /\ DisarmAll
  /\ UNCHANGED <<controller, statusword, heard, network>>

\* Its 5 Hz diagnostics timer, in the same executor, sees a faulted statusword.  (An
\* error register, an error code or unreadable telemetry also count as a fault there;
\* of these only the statusword is modelled.)
DiagnosticsFault == (\E m \in Motors : statusword[m] = "FAULT") /\ TriggerDriveFault

\* In an outage a heartbeat may be missing for long enough.
HeartbeatFault == bus = "flaky" /\ TriggerDriveFault

-----------------------------------------------------------------------------
(* The drives, the bus and the clock.                                      *)

\* The statusword arrives on an event timer of 22 ms, while the bus is there.
Tpdo3(m) ==
  /\ statusword' = [statusword EXCEPT ![m] = cia[m]]
  /\ heard' = [heard EXCEPT ![m] = TRUE]
  /\ UNCHANGED <<controller, cia, held, profile, network, monitor>>

DriveFaults(m) ==
  /\ faults < MaxFaults /\ cia[m] # "FAULT"
  /\ faults' = faults + 1
  /\ cia' = [cia EXCEPT ![m] = "FAULT"]
  /\ UNCHANGED <<controller, held, profile, statusword, heard, bus, outages, monitor>>

BusDegrades ==
  /\ bus = "up" /\ outages < MaxOutages
  /\ bus' = "flaky" /\ outages' = outages + 1
  /\ UNCHANGED <<controller, drives, faults, monitor>>

BusRecovers ==
  /\ bus = "flaky" /\ bus' = "up"
  /\ UNCHANGED <<controller, drives, outages, faults, monitor>>

\* RE_ARM_WAIT_S (200 ms) after the ARM.  Unless the bus was away, a TPDO3 came
\* in between.
RearmWaitElapses(m) ==
  /\ arm[m].arming = "Wait"
  /\ heard[m] \/ outages > 0
  /\ arm' = [arm EXCEPT ![m].arming = "Due"]
  /\ UNCHANGED <<motorState, lastRun, faultStop, batteryLockout, plan, drives, network, monitor>>

IdleElapses(m) ==
  /\ arm[m].idle = "Recent"
  /\ arm' = [arm EXCEPT ![m].idle = "Long"]
  /\ UNCHANGED <<motorState, lastRun, faultStop, batteryLockout, plan, drives, network, monitor>>

-----------------------------------------------------------------------------

Next ==
  \/ OnFlipperCmd \/ OnSbusJs
  \/ TickDecide
  \/ \E m \in Motors : Execute(m)
  \/ OnFaultStop \/ OnDriveBattery \/ DiagnosticsFault \/ HeartbeatFault
  \/ \E m \in Motors : Tpdo3(m) \/ DriveFaults(m)
  \/ BusDegrades \/ BusRecovers
  \/ \E m \in Motors : RearmWaitElapses(m) \/ IdleElapses(m)

Spec == Init /\ [][Next]_vars

\* The 50 Hz tick, the 5 Hz diagnostics timer and the reader of the fault topic
\* all belong to an executor that always returns to its queue and starves none
\* of its callbacks (strong fairness: a tick in progress holds them off), a tick
\* finishes its list, waits elapse, and on a working bus the statuswords keep coming.
\* Nothing is owed by the operator, the battery, or a bus that is away.
Fairness ==
  /\ WF_vars(TickDecide) /\ SF_vars(OnFaultStop) /\ SF_vars(DiagnosticsFault)
  /\ \A m \in Motors :
       /\ WF_vars(Execute(m))
       /\ WF_vars(bus = "up" /\ Tpdo3(m))
       /\ WF_vars(RearmWaitElapses(m)) /\ WF_vars(IdleElapses(m))

FairSpec == Spec /\ Fairness

-----------------------------------------------------------------------------
(* Properties.                                                             *)

Enabled(m) == cia[m] = "OPERATION_ENABLED"
AtRest(m) == ~Enabled(m) /\ (m \in Wheels => held[m] = 0)

Stopped == faultStop \/ batteryLockout

\* What the abstract contract sees of a motor: the arm state, OUT once a stop was
\* taken note of, and whether the drive holds a command to move.
LifeOf(m) == CASE Stopped \/ arm[m].state = "FAULTED"      -> "OUT"
               [] ~Stopped /\ arm[m].state = "DISARMED"    -> "OFF"
               [] OTHER                                    -> arm[m].state
Moving(m) == IF m \in Flippers THEN profile[m] ELSE held[m] # 0

Contract == INSTANCE LatchedBus WITH
              life <- [m \in Motors |-> LifeOf(m)],
              powered <- {m \in Motors : Enabled(m)},
              moving <- {m \in Motors : Moving(m)}

\* The controller keeps the contract both motor controllers have with their buses,
\* in any outage: no drive is switched on but by its own ARM, none is moved that
\* is not declared armed, and nothing is done to a motor once a stop was seen.
KeepsContract == Contract!Spec

\* As long as no write was ever lost, what the controller believes of a motor
\* is true of the drive: one it takes for disarmed or shut down is off and a
\* wheel among them holds no speed to start with, and one it takes for armed is
\* enabled unless it faulted or the heartbeat node has just shut it down.
BeliefMatchesDrive ==
  outages = 0 =>
    \A m \in Motors :
      /\ arm[m].state \in {"DISARMED", "FAULTED"} => AtRest(m)
      /\ arm[m].state = "ARMED" =>
           Enabled(m) \/ cia[m] = "FAULT" \/ faultTriggered

\* As long as no write was ever lost, a bus whose controller took note of a stop
\* is off and no wheel holds a speed, although ticks and the heartbeat node's own
\* DISARM may come between the fault and its message.
StoppedBusIsOff == outages = 0 /\ Stopped => \A m \in Motors : AtRest(m)

\* A motor shut down by a fault stop or a battery lockout stays shut down until
\* the process restarts, and no write of this process enables its drive again,
\* whatever the bus loses and wherever in a tick the stop arrives.
LatchedNeverEnables ==
  [][\A m \in Motors : arm[m].state = "FAULTED" =>
       arm'[m].state = "FAULTED" /\ (Enabled(m)' => Enabled(m))]_vars

\* With a statusword received since the ARM, ARMED is only declared of a drive
\* that reached Operation Enabled (it may have faulted in the same instant), be
\* it that any of the writes of that ARM were lost.
EnabledWhenDeclared ==
  [][\A m \in Motors :
       arm[m].state = "ARMING" /\ arm'[m].state = "ARMED" /\ heard[m] =>
         Enabled(m) \/ cia[m] = "FAULT" \/ faultTriggered]_vars

\* Without outages a command that is held gets to the drive: again and again
\* the drive holds the command within its dead band, or the bus is shut down.
CommandsReachDrives ==
  \A m \in Motors :
    []<>(\/ ~Far(held[m], motorState[m], IF m \in Wheels THEN EPS_VEL_CAN ELSE EPS_CNT)
         \/ faultTriggered \/ batteryLockout \/ outages > 0)

\* Without outages a drive fault ends with every drive off and no wheel holding
\* a speed, for good, although a tick may re-arm a drive between the heartbeat
\* node's own DISARM and the arrival of its message.
FaultLeadsToAllOff ==
  faultTriggered ~> [](outages = 0 => \A m \in Motors : AtRest(m))

\* Once the commands stay idle and the bus stays up, every motor ends disarmed,
\* whatever was lost before: the re-arming loop and the idle timer both end.
IdleMotorsDisarm ==
  \A m \in Motors :
    <>[](~NonIdle(m)) /\ <>[](bus = "up") =>
      <>[](arm[m].state \in {"DISARMED", "FAULTED"})

\* drive_controller.py:43 promises that drive motors stop instantly once the
\* command reaches 0 and disarm shortly after.  An outage that swallows both the
\* IDLE_STOP and the DISARM, too short for the heartbeat node to notice, leaves
\* the wheel turning on a bus that is back: neither is ever sent again.
ReleasedWheelStops ==
  \A m \in Wheels :
    /\ <>[](~NonIdle(m)) /\ <>[](bus = "up")
    /\ [](~batteryLockout /\ ~faultTriggered)
    => <>[](~Enabled(m) \/ held[m] = 0)
=============================================================================
