# Verification of the EOD robot's control software

TLA+ models of the software of the Manportable EOD ROV JS 2.0, checked with TLC
and, where stated, proved with TLAPS. Paths are relative to `src/`; `canbus/`
stands for `src/ros2_canbus/ros2_canbus/` and `coordinator/` for
`src/part_assembly_for_urdf_coordinator/part_assembly_for_urdf_coordinator/`.

## 1. The system

A tracked robot with four drive motors on one CAN bus (two wheels, two flippers)
and seven arm motors on another (six joints, one gripper), driven by a Raspberry
Pi over ROS 2 and steered with an SBUS radio.

| Component | State it keeps | Operations | Talks to |
|---|---|---|---|
| Drive controller `canbus/drive_controller.py` | targets, arming state per motor, two latches | flipper and wheel commands, fault stop, battery, 50 Hz tick | drives over SDO; heartbeat node |
| Arm controller `canbus/arm_controller.py` | targets, arming state, loopback override, the motors it still has, latches | arm and gripper commands, active list, faults, battery, 50 Hz tick, joint states | drives; heartbeat node; coordinator |
| Heartbeat node `canbus/motor_heartbeat_node.py` | liveness and time of loss per motor, three latches | heartbeat hook (CAN thread), 2 Hz poll, 5 Hz diagnostics | both controllers, bring-up |
| CANopen library `canbus/JS2_Motor_CANOpen_Lib_V_1_0/` | telemetry and the last command per motor | ARM, DISARM, RUN, PDO callbacks | the drives |
| Bring-up `canbus/robot_bringup.py`, `can_utils.py` | the shutdown flag, motors found and missing, open networks | battery gate, start-up rules, executor, shutdown | all nodes above |
| Battery monitor `canbus/battery_monitor.py` | two cell voltages | CAN receive, latched publishing | bring-up, controllers |
| Coordinator `coordinator/coordinator_node.py` | targets, single-flight plan, homing and firing state, flipper accumulators | SBUS callback, planning, execution, watchdogs, rollback | MoveIt, the controllers |
| Kinematics `coordinator/arm_ik.py`, `fk.py` | none | IK, FK | coordinator |
| SBUS publisher `src/sbus_driver/.../sbus_publisher.py` | last good frame, safe state | decode, interpret, safe state | coordinator, joint-state publisher |
| SBUS joint-state publisher `coordinator/sbus_joint_state_publisher.py` | last command and its age | forward or zero | both controllers |
| Fire server `canbus/fire_server.py` | the pulse under way | TCP commands, timed pulse | the tablet |
| Telemetry and mode bridges, pack battery reader, lights | last values | forward | the tablet |
| Tablet applications (Kotlin) | user interface, audio and video links | | the bridges |

Everything in bring-up's process runs on one `SingleThreadedExecutor`
(`canbus/robot_bringup.py:220`): callbacks of the three motor nodes never
overlap. Beside it run the CAN receiver threads of the library, which write
telemetry and call the heartbeat hook, and the main thread, which sleeps until
shutdown.

What is hard here: a failed SDO write is logged and dropped
(`Controlword.py:74-80`, the `RUN` methods), so controllers and drives can
disagree; two nodes shut the same drives down and learn of it at different
times; a tick acts on a list it decided before slow I/O; two threads publish the
same topic; and timers (re-arm wait, idle time, liveness, fault escalation) race
with all of it. `PROJECT.json` lists each hazard at its line.

What makes each part correct:

* drive controller: what it believes of a drive is true, commands get there,
  latches hold, faults end with everything off, idle motors are disarmed;
* arm controller: the same, and a joint in loopback is never moved;
* heartbeat node: a lost motor is always escalated, a returned one restored;
* bring-up: every drive is at rest before the first node runs and after the last,
  no drive motor with a wrong mode is used, and a stop always ends the process;
* coordinator: one goal at a time, HOME wins, what moves can be cancelled;
* flippers: a released one stops, a held one arrives, what is sent is checked (it is
  not where two ticks overlap);
* SBUS chain: frames are decoded right, a lost link stops the wheels;
* fire server: a press fires once at most, and fire mode ends with its tablet.

## 2. Modules

| Module | Models | Built on |
|---|---|---|
| `Cia402` | the CiA-402 power state machine; the ARM and DISARM write sequences | |
| `Cia402Proofs` | what the two sequences do to a drive, whichever writes are lost | `Cia402`, TLAPS |
| `LatchedBus` | what both motor controllers promise: arm first, then move, and leave alone what was taken out | |
| `DriveController` | `drive_controller.py` and its bus | `Cia402`, refines `LatchedBus` |
| `DriveControllerProofs` | theorems about it | `DriveController`, `Cia402Proofs` |
| `CanBus` | drives, links and the executor that nodes share | `Cia402` |
| `HeartbeatMonitor` | `motor_heartbeat_node.py` | `CanBus` |
| `ArmController` | `arm_controller.py`, and the composition of all three | `HeartbeatMonitor`, refines `LatchedBus` |
| `ArmControllerProofs` | theorems about the three together | `ArmController`, `Cia402Proofs` |
| `Bringup` | `robot_bringup.py`, `bring_up_all`, `can_utils.py`, the gate of `battery_monitor.py`, the network library | |
| `BringupProofs` | theorems about it | `Bringup`, TLAPS |
| `ArmMailbox` | what the arm pipeline promises: a mailbox of one goal | |
| `Coordinator` | the arm pipeline of `coordinator_node.py` | refines `ArmMailbox` |
| `CoordinatorProofs` | theorems about it | `Coordinator`, TLAPS |
| `FlipperTick` | the flipper tick of `coordinator_node.py` | |
| `FlipperTickProofs` | theorems about it | `FlipperTick`, TLAPS |
| `SbusFrame` | decoding and interpretation of a frame | |
| `SbusLink` | the SBUS publisher, the joint-state publisher, and the intake and watchdog of the coordinator | `SbusFrame` |
| `SbusLinkProofs` | theorems about it | `SbusLink`, TLAPS |
| `FireServer` | the fire command, tablet and server | |
| `FirePresence` | the heartbeat of the tablet and `/fire_mode` | |
| `MCDrive`, `MCArm`, `MCCoordinator`, `MCLink`, `MCFlip`, `MCStations` | model values and scenarios for TLC; `MCStations` also joins the parts that share no state | |
| `StationsProofs` | theorems about the fire command, the presence, and the parts joined | `MCStations`, the proofs of its parts |

### The drive controller

`motorState`, `arm`, `lastRun`, `faultStop`, `batteryLockout` are the fields of
the node; `plan` is the local list `actions` of a tick in progress. `cia`, `held`
and `profile` are what is really in a drive, `statusword` is what telemetry last
said. `arming_complete_time` and `idle_since` are abstracted to what they are
compared with: unset, running, elapsed.

`TickDecide` is phase 1 of `_command_tick`, `ExecuteArm`, `ExecuteRun`,
`ExecuteIdleStop` and `ExecuteDisarm` are phase 2, one motor at a time, with the
drives and the bus free to change in between; the other callbacks wait
(`ExecutorFree`). The list never holds two actions for one motor, except that
IDLE_STOP and DISARM would coincide with an idle time of zero; the configured one
is a second. Actions for different motors touch disjoint state, so `plan` is a
function rather than a list. In an outage any subset of the numbered writes of a
sequence is lost; what each lost write leads to follows from the code of
`CONTROLWORD` and `CONTROLWORD_HALT`.

The heartbeat node is present as `TriggerDriveFault`: it publishes, disarms, and
the message is delivered later. Telemetry that was never received reads 0
(`data.py:31`), which decodes to NOT_READY_TO_SWITCH_ON: the time-based fallback
described at `drive_controller.py:333` is never taken, and the model does not
take it.

`LatchedBus` is the abstract specification of both motor controllers: the life of
each motor (OFF, ARMING, ARMED, OUT), and which drives are enabled and hold a command
to move. `KeepsContract` is its specification under the mapping `life <- LifeOf`,
`powered <- Enabled`, `moving <- Moving`. Of what it says nothing: when a controller
does any of this, what it believes of a drive, and what time it takes.

### The arm controller and the heartbeat node

`CanBus` gives every motor a link that is up or down, and the executor token:
`executor` names the callback in progress. The heartbeat node's callbacks that
take several steps (`PollUpdates`, `PollComputesList`, `PollPublishes`,
`CheckHeartbeatFaults`) hold it, and so does a tick (`TickDecides` to the last
`Execute`). The CAN thread (`Heartbeat`, `CanComputesList`, `CanPublishes`) does
not: `_lock` is released between computing an active list and publishing it, and
these are separate steps. Topics are queues in publication order.

`real` is the key set of `_real_motors`, `override` is `_loopback_override`,
`Published` is what `/joint_states` says of a joint. A joint is one motor here;
the differential pair, in which two motors make two joints, is abstracted. The
arm starts latched if bring-up found a motor missing
(`robot_bringup.py:163-193`), and both starts are initial states.

Time appears as `BeatGoesStale` (2.5 s without a beat), `LossGrowsLong` (3 s
more), `RearmWaitElapses` (0.2 s) and `IdleElapses` (300 s for the arm, 1 s for
the drive). The only relation assumed between times is that within the 300 s a
joint on its bus has arrived and its fault has been seen by the 5 Hz diagnostics
(`Underway`). From the last beat to the latch, by the way, it takes up to 2.5 s,
a poll period, 3 s and a diagnostics period, so about six seconds, and not the
three the docstring of the heartbeat node names.

### Bring-up and shutdown

`Bringup` is the life of the robot process, from the battery gate to the closing
of the second bus; `stage` is where `main` is. A drive may be enabled from an
earlier process that crashed (`powered` starts anywhere), motors come and go at
every step (`MotorComesOrGoes`), the stop may be asked for at every step, and a
callback of the executor (`TickBegins`, `TickCommands`) goes on through the
shutdown, or hangs. Things the code does that a reader may not expect:

* an SDO error in the constructor of a motor is swallowed, so a motor that falls
  silent after the scan counts as initialised; Rule 1 catches a wrong mode with
  FAILURE_EXIT, not silence (`OnlySilenceIsMissed` says exactly that);
* `safe_disconnect` skips a network without nodes, whose `if self.network` is
  false: nothing is enabled on it, but it stays connected;
* the disarm of the `finally` block can be undone by a callback that outlived the
  join; `UNIVERSAL_DISARM` of each network comes later and covers that too,
  unless the callback still runs after the grace time (`outlived`).

### The coordinator

`Coordinator` has the callbacks and timers on any number of executor threads, the
worker, and the arm controller. No lock in the code spans more than one access to
the shared state, so a step is one access, and `at[t]` is where a thread is in its
callback. A HOME request is five steps (`SbusHomes` or `Posts`, `Requests`, `Cancels`,
`Puts`), the watchdog six (`WatchdogWakes`, `WatchdogFlags`, `Cancels`,
`WatchdogZeroes`, `Forgets`, `Drains`), a release four (`Cancels`, `MarksStale`,
`Forgets`, `Drains`) and a dispatch four (`TickDispatches`, `Posts`, `TickFreshens`,
`Puts`). Two of the same callback may overlap, as they may in a reentrant group. The
tick takes the flags of the two watchdogs, the HOME request and the stick one after
another (`TickWakes`, `TickAsksHome`, `TickReads`), and in firing mode waits for its
collision check before it sends (`TickReadsFiring`, `TickFires`).

The worker takes an event (`TakeEvent`), the goal (`GrabGoal`), and is then cut at its
waits and its looks at shared flags (`Validate`, `ChecksStale`, `Plan`, `Send`, `Sent`,
and `HomeClears`, `HomeForgets`, `HomeDrains`, `HomePlan`, `HomeSent`). `wire` holds
the requests to the arm controller with whether the worker waits for their answer;
`running` tells whether what moves is a trajectory the worker saw accepted.

Merged, because nothing else can tell: a message's look at firing mode and `_at_home`
with its latch; each write of `_at_home` with the write beside it; a tick's reading of
the stick with that of what was held before; a loop that drains the queue; the
storing of a handle with the late look at the stale flag (`KeepHandle`); and what the
worker does once a trajectory is sent, the end of a HOME with the change of the firing
flags among it (`Sent`, `HomeSent`).

A goal is known by its origin only. That a GOAL event is queued is one bit: every
event makes the worker take the one pending goal after draining the others. IK,
collision checks and planning may end either way. The velocity check may refuse
to send, and the worker then goes on as if it had sent, as in the code.

`ArmMailbox` is the abstract specification: a box of one goal, which callbacks
fill, replace and withdraw, and a worker that takes it, finishes it, or drops it
for HOME. `IsMailbox` is its specification under the mapping
`box <- pending, job <- job`.

`FlipperTick` has the flipper tick on several threads: reading the command with the
snap, the step, the single-flight lock around the collision check (with the two
partial attempts, whose other side is taken from the accumulator at that moment), the
commit after the lock is free, and the sending, each a step of its own. Its positions
are steps.

### The SBUS chain

`SbusFrame` is pure: the bytes of a frame to sixteen channels, the sanity check,
and the whole interpreter. `SbusLink` puts the publisher (poll, time-out,
failsafe, safe state, serial failure), the joint-state publisher and the
coordinator's drive demand in one state machine. Time is counted in units; within
one every due timer has run. Topics are best effort: any delivery may be lost,
and two messages may be handled by the coordinator in either order. `Overlap`
says whether a message may be handled while a watchdog tick is between reading
the time and acting on it. The code allows it; the rest of what the chain
guarantees is checked and proved without it, and `link_race` shows what it costs.

### The fire command

`FireServer` joins the tablet's window, its single client thread, the server's
thread per connection, `fire_lock`, the pin and the shutdown of `main`. The
server answers OK first and fires then, so the client may report a failure of a
command that is carried out; what is guaranteed is one pulse at most for a press.
`FirePresence` has the heartbeat loops of the tablet, of which a quick RESET and
FIRING can leave two, and the time-out that ends `/fire_mode`.

## 3. Runs

| Run | Bounds | Shows |
|---|---|---|
| `drive` | a wheel and a flipper without outage, or a wheel through one outage; one fault | `BeliefMatchesDrive`, `StoppedBusIsOff`, `KeepsContract`, `CommandsReachDrives`, `FaultLeadsToAllOff`, `LatchedNeverEnables`, `EnabledWhenDeclared`, `IdleMotorsDisarm` |
| `drive_lost_stop` | a wheel, one outage | `ReleasedWheelStops` is violated |
| `arm` | a joint, a drive motor, one loss, one fault | `BeliefMatchesDrive`, `StoppedArmIsOff`, `KeepsContract`, `LatchedArmStaysOff`, `LoopbackNeverCommanded`, `RestoredInTurn` |
| `arm_loss` | two grippers, a drive motor, one loss, no fault | `LostMotorLatchesBus`, `DriveFaultStopsArm` |
| `arm_fault` | a joint, the gripper, one fault | `FeedbackFollowsCommand`, `IdleJointDisarms` |
| `arm_gripper` | the gripper | `IdleGripperDisarms` is violated |
| `arm_restore` | a joint, one loss | `RestoredWhenHeartbeatReturns` is violated |
| `coordinator` | one input, two threads, two requests on the wire | `RunningCanBeCancelled`, `LinkLossOvershoot`, `IsMailbox`, `WorkerReturns`, `HomeIsServed` |
| `coordinator_home` | the same, one request | `HomeInFlight` is violated |
| `link_race` | two stick positions, `Overlap` | `LostLinkStopsWheels` is violated |
| `stations` | one of the five parts per behaviour, see below | `FrameLayout`, `SafeStateIsOut`, `LostLinkStopsWheels`; `ReleasedFlipperHolds`, `TargetsClearInTurn`, `HeldFlipperArrives`; `RestBeforeNodes`, `OnlySilenceIsMissed`, `EndsAtRest`, `StopLeadsToOver`; `OnePulsePerPress`, `PinUnderLock`; `FireModeEnds` |
| `flip_check` | both flippers, two threads | `FlipperTargetsClear` is violated |

Bounds: motors influence one another only through the latches, the messages and
the executor, so one motor of each kind meets all the cases; the proofs lift the
safety of the drive to any number. Two values per command, zero and one outside
the dead band, are what the guards tell apart. An outage may begin and end at any
step and lose anything, so a second one adds only repetition; likewise a second
fault, which meets the same latches. `MCDrive` picks in its first state whether the
bus loses nothing or has an outage, and rests the flipper in the second case (79 052
states together). `arm_loss` has two arm motors, so that one is left for
`LostMotorLatchesBus` when the other is lost, and both are grippers: with a joint among
them the run has 836 000 states and more than its time. The latch tells the two kinds
apart only in the loopback override, which `arm` covers (114 794 states). `MaxOutages`, `MaxFaults` and `MaxLosses`
are the only bounds on counters in the motor modules. Deadlock is checked in
every passing run but `stations`, where a finished process rests.

Coordinator: the input that matters by name is the pitch, so it is the one there is.
Two threads, in four cases chosen in the first state (`Duties`): one handles messages
and ticks, beside the watchdog on the other; or it also has fire mode, test goals, or
the stop of the joint states. Callbacks of a single step are free on both. `MaxWire`
bounds the requests the controller has not answered: two, one awaited and one
abandoned, beside firing trajectories, and one elsewhere, where one more would only
wait. 2.08 million states. The proofs have any number of threads, inputs and requests,
and every callback on every thread.

Stations: `MCStations` picks in its first state which of five modules moves (or
that none does and a frame is decoded), the flippers in two ways; the others rest, so nothing is a product
and one run answers for all of them; `StationsTypeOK` is the type invariant of each.

* SBUS link: time-outs of 1, 1, 2 and 3 units and a watchdog period of 2 keep the
  order of 50 ms, 100 ms, 0.5 s, 2 s and 1 s (the demand may stand for the 2 s and a
  watchdog period, so up to 3 s, where `coordinator_params.yaml:145-148` says 2 s); two transmitted stick positions, one
  full speed ahead and one with the claw; two messages handled at a time. The
  proofs have any time-outs in that order and any frames. `FrameLayout` compares
  what `decode_sbus_frame` makes of the bytes with the bits as they came over the
  line, eleven to a channel. It is checked on every frame whose ones are one run of
  bits, from a single bit to all 176, and proved for every frame.
* Flippers: three steps of travel for the front and one for the rear, a limit ahead of
  two, so that it binds before the end stop, a send at every second commit, one
  colliding pair. Both flippers with one thread, and the front one with two threads.
  213 649 states for all the parts together. In the code the limit ahead is ten steps
  and a send comes at every fifth commit. Both flippers with two threads are in
  `flip_check`, and in the proofs.
* Bring-up: one motor per bus, both with FAILURE_EXIT, two attempts. Two drive
  motors were also run (228 634 states).
* Fire command: two presses, hence two connections. Proved for any number.
* Presence: two loops, as a RESET and a FIRING leave, and a time-out of two.

### What the violations show

* A wheel that was released can keep turning. The idle stop is one write and the
  disarm one sequence; a short outage swallows both, and the controller, which
  then believes the motor disarmed, never sends anything again while the command
  stays zero. `drive_controller.py:43` promises an instant stop.
* An idle gripper is never disarmed. Its idle branch sends RUN(0), and every RUN
  clears `idle_since`, so the time never adds up.
* A joint may stay in loopback although its heartbeat is back: two threads
  publish active lists in the opposite order of computing them. Nothing else is in
  the way: `RestoredInTurn` holds where the two never cross.
* An accepted HOME can be lost and still block the arm. Four things take it away and
  leave `_home_requested` set: the release of a stick, the watchdog, the drain of an
  earlier HOME, which consumes the request before it empties box and queue, and a
  worker that comes with an event from before, grabs the goal and clears the request
  before the callback has set it (lines 646 and 647). The arm tick then waits for a
  HOME that is not in flight, and `_at_home` makes further HOMEs look like
  repetitions. The docstring of `_arm_tick` speaks of a HOME in flight.
  `HomeLostByFourOnly` proves that it is right where none of the four happens.
* A pair of flipper positions that no check has passed can be sent. The lock is free
  before the commit, and the step is computed before the lock is taken: the check of a
  second tick takes one side from an accumulator the first is about to change. The
  docstring of `_flipper_tick` says that no trajectory goes past the last setpoint
  known to be safe. `TargetsClearInTurn` shows that overlapping ticks are all there is
  to it.
* A drive demand can outlive the link. The watchdog reads the time, then sets its
  flag and zeroes the demand; a last message handled in between on another thread
  latches its demand after the zeroes, and with no further message (a serial
  failure publishes none) the watchdog returns early for ever. The docstring at
  `coordinator_node.py:952` relies on the watchdog alone. The joint-state
  publisher, the stand-alone node for the same topic, has a stale check of its
  own and is not affected.

### Fairness

Executor callbacks get strong fairness: a ready callback is disabled again and
again while another one runs, but the executor's wait set serves every ready
timer and subscription in turn. The steps of a callback or thread in progress,
the elapsing of a wait, the heartbeats and statuswords of a motor on its bus and
its motion get weak fairness. Operators, batteries, faults and links owe nothing.
The liveness properties of the drive count only behaviours without outages where
they need one absent, and say so in the formula.

In the coordinator the worker gets weak fairness, because every wait of
`_wait_for_future` has a time-out and there is always something it can do then;
the arm controller answers what it was sent, but need not accept it and need not
finish a trajectory. Callbacks, ticks and the watchdog owe nothing.
`HomeIsServed` asks, from then on, that none of the four takes the HOME away, which is
what the violation above is about. In the flipper tick (`FlipFairness` of `MCStations`)
threads and motors are weakly fair, and a validity check that is asked for again and
again is at some time answered (strong fairness of `CheckPasses`); a flipper held
against a collision owes nothing, nor does one that was pushed while it was still on
its way: its accumulator may reach the limit ahead, or the end of travel, before the
next send is due. In the bring-up the main thread goes on and a motor that answers sends
heartbeats; callbacks may hang. In the presence, loops, the clock and the 5 Hz
publisher go on, and the operator owes nothing.

## 4. Proofs

`DriveControllerProofs` holds, for any finite sets of wheels and flippers, any
integer commands and any bounds:

* `TypeCorrect`: the type invariant. `DISARM` and `ARM` stay within the CiA-402
  states by lemmas of their own.
* `PlansFit`: the strengthening that everything else needs. An action planned in
  phase 1 is executed later, and the type invariant alone does not say that the
  motor is then still in the state it was planned for. `PlanFits` says so: a RUN,
  IDLE_STOP or DISARM is only pending for an ARMED motor, an ARM only for a
  DISARMED or ARMING one, and none for a FAULTED one. It is inductive because
  whole-bus stops wait for an empty list; the mutant that runs the battery
  callback in the middle of a tick breaks it.
* `LatchHolds` (`LatchedNeverEnables`), `DeclaredOnlyEnabled`
  (`EnabledWhenDeclared`) and `BeliefHolds` (`BeliefMatchesDrive`), each from an
  inductive invariant over `PlanFits`. For the second, a statusword heard since
  the ARM tells of the drive as the ARM left it, because nothing but ARM enables
  a drive. For the third, no write is lost while `outages = 0`, so `LostOf` is a
  singleton and each sequence has one outcome.
* `StoppedStaysOff` (`StoppedBusIsOff`): from `StopNoted`, that once a fault message
  was read or the battery was found empty every motor is FAULTED and stays it, and
  from what `BeliefMatchesDrive` says of such a motor.
* `DriveKeepsContract` (`KeepsContract`), the refinement of `LatchedBus`, in any
  outage. A state of `LatchedBus` has no plan, so `PlansFit` is what makes each
  execution an allowed step: an ARM that was planned finds its motor OFF or ARMING,
  a RUN finds it ARMED. `Cia402Proofs` says which drives the two sequences can leave
  enabled, whatever they lose.

`ArmControllerProofs`, for any joints, grippers and drive motors, any positions and
torques, and any number of losses and faults:

* `ArmTypeCorrect`, with `JointsHold`: a joint is asked for, and holds, a position
  and never a torque.
* `LoopbackIsLeftAlone` (`LoopbackNeverCommanded`) and `LatchHolds`
  (`LatchedArmStaysOff`), from `TickInv`: a plan exists only while the executor is
  in the tick, and only for motors that are real. It is inductive because every
  callback that changes which motors are real waits for the executor; the poll of
  the heartbeat node is in it for the same reason.
* `BeliefHolds` (`BeliefMatchesDrive`), from `TickInv`, `LossInv` (only a motor that
  was off its bus has missed a beat, so that without losses the heartbeat node
  never latches the bus) and `Believed`, which says of ARMING what the property
  says of ARMED: the controller declares ARMED by time alone, and the wait must
  carry over what the ARM did.
* `StoppedArmStaysOff` (`StoppedArmIsOff`), for each motor that was itself never off
  its bus, whatever became of the others, the removed ones and those in loopback too.
* `ArmKeepsContract` (`KeepsContract`), the same refinement for the arm, with the
  heartbeat node disarming beside the controller, which to the contract is a `Lapse`.
* `RestoredWithoutRace` (`RestoredInTurn`): the hypothesis is `[]ListsInTurn`, and the
  inductive step uses it in both of its states. `ListInv` follows the newest list
  from where it is computed to where it is read: in the hands of the poll or of the
  CAN thread, last in the queue, or in the override.

`FlipperTickProofs`, for any number of threads, any travel and any colliding pairs:

* `FlipTypeCorrect`, with `SingleFlight`: the check lock is one tick's at a time.
* `FlipperReleased` (`ReleasedFlipperHolds`), by counting the steps in hand with
  the late commits.
* `TargetsClear` (`TargetsClearInTurn`): the hypothesis is `[]TicksInTurn`, that no two
  ticks overlap, and the stick, the flippers and the joint states may do what they like
  during a check. `ClearInv` follows a pair from the question to the commit and the
  sending; a tick that is alone finds the side it did not ask about where it was.
  `flip_check` shows that the hypothesis is needed.

`BringupProofs`, for any motors on the two buses and any number of retries:

* `BringTypeCorrect`, with `ListsFit`: a bus is scanned before any of its motors is
  in a list.
* `DrivesStartAtRest` (`RestBeforeNodes`), from `RestInv`: each bus is at rest from
  its reset on.
* `ModesAreRight` (`OnlySilenceIsMissed`), from `ModeInv`: the loop takes a motor
  that answers off its list only with its mode, or as missing.
* `DrivesEndAtRest` (`EndsAtRest`), from `OnlineInv` and `ClosedInv`: both buses are
  connected while nodes run, a callback enables drives only on a bus that is
  connected, and the last controlword of each bus comes after every callback that
  ended.

`CoordinatorProofs`, for any inputs, threads and bound on the wire:

* `TypeCorrect`, whose hard part is `AwaitedOnce`: of the requests on the wire the
  worker waits for one at most. It needs lemmas on what `Tail`, `Append` and
  `Unawaited` leave of a sequence of Booleans.
* `RunningAlwaysCancellable` (`RunningCanBeCancelled`), inductive over the type
  invariant.
* `CoordinatorIsMailbox` (`IsMailbox`), the refinement: Init maps to Init, and
  every action maps to one of `Post`, `Withdraw`, `Take`, `Preempt`, `Finish` or a
  stutter.
* `OvershootBounded` (`LinkLossOvershoot`). The property says how many goals were
  sent after the link was lost and nothing of how many may still come;
  `OvershootInv` counts them together: the ticks past their look at the flag, the goal
  in the box, which the worker may take before the watchdog empties it, and the goal
  of the worker. The bound is one more than there are threads, and not two, because
  the thread that sets the flag is in no tick.
* `HomeLostByFourOnly`: under `[]HomeIsSpared`, that none of the four things above
  happens to an accepted HOME, `HomeInFlight` holds, which the run shows violated
  without it. `InFlightInv` asks for the goal in the box beside the event, since a
  worker busy with another goal promises nothing for afterwards, and for it even
  before the request is set.

`SbusLinkProofs`, for any frames and any time-outs in their order:

* `FrameDecoded`: decoding gives channel c the bits 11(c-1) to 11c-1, for each of the
  2^176 frames. A byte is cut into the bits below a place and those above it
  (`Part`); a channel is made of two or three such parts, shifted, and there are only
  eight ways in which eleven bits can lie across bytes (`Decoded`). `Window` carries
  the case at hand to its place in the frame.
* `LinkTypeCorrect`, with `Overlap` or without: ages stay within their time-outs, the
  intake within its bound, and what is on its way is a message of the interpreter.
* `LossEndsInSafeState` (`SafeStateIsOut`), inductive as it stands.
* `LostLinkStops` (`LostLinkStopsWheels`), under `~Overlap`: that a message is not
  handled in the middle of a watchdog tick. It is the assumption the code does not
  keep, and the theorem says that nothing else is in the way. `LinkInv` relates
  the ages: what the joint-state publisher shows is at least as old as the last
  good frame; a message under way that asks for motion is of this unit; and a
  demand stands only until the watchdog's next turn after the time-out.

`StationsProofs`, for any number of presses and loops, and for the five parts of
`MCStations` together:

* `FireTypeCorrect`, with `ConnectionsPressed`: connections and queued exchanges
  come from presses, so that a connection always has a number.
* `OnePressOnePulse` (`OnePulsePerPress`), by what each step does to the set of
  connections under way.
* `PinOnlyUnderLock` (`PinUnderLock`), from an invariant without cardinalities
  (`OneFires`, `PinHeld`) and that a connection not made yet has no thread.
* `PresenceTypeCorrect`: whatever FIRING and RESET do in a row, a loop that was not
  interrupted is the one the client knows of.
* `StationsTypeCorrect` (`StationsTypeOK`). `PartsRun` shows that a behaviour of the
  composition is one of the link, the flippers, the fire command and the presence, so
  that every theorem about these holds in it; the bring-up may also rest from the
  start, and keeps its types either way (`RestsTyped`).
* `FramesDecoded` (`FrameLayout`), from `FrameDecoded`.

Only the named assumptions on the constants are used. Beyond the prover, and
model-checked only, is liveness (`WorkerReturns`, `HomeIsServed`, `FireModeEnds` and
the others under fairness). Every invariant and every action property of the passing
runs, the type invariants among them, and the three refinements are the statements
of theorems.

## 5. Not modelled, and the plan

Not modelled:

* the kinematics (`arm_ik.py`, `fk.py`): floating point; their failure is an
  outcome of `Validate`;
* MoveIt, ROS and CAN themselves: present as what they may answer or lose;
* the coordinates, joint targets and command streams of the coordinator, and its
  diagnostics: the properties tell goals apart by origin only;
* the voltages of the battery monitor: the controllers take its verdict as an
  input;
* the differential pair of the arm, whose two joints are arithmetic on two
  encoders, and the joint-state watchdog of the arm controller;
* SDO confirmations that wait behind the lock of the heartbeat node
  (`motor_heartbeat_node.py:379`);
* the UDP bridges, the pack battery reader and the lights, which forward or poll
  single values; video, audio and user interface of the tablet;
* real time beyond the order of events and the order of the time-outs.

What would come next, in this order: SDO confirmations in `CanBus`; the differential
pair of the arm and its joint-state watchdog; and the coordinates of the goals, with
the two command streams of the coordinator.
