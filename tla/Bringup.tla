------------------------------- MODULE Bringup -------------------------------
(***************************************************************************)
(* The life of the robot process: main of robot_bringup.py with the gate   *)
(* of battery_monitor.py, bring_up_all of motor_heartbeat_node.py and      *)
(* can_utils.py on the two buses, the start-up rules, the executor thread, *)
(* and the shutdown down to Network_Lib.disconnect.  A drive may still be  *)
(* enabled from an earlier process that crashed.  SDO errors are swallowed *)
(* by the motor library, so that a motor that falls silent after the scan  *)
(* is found out by nobody here.  The executor is external: its shutdown    *)
(* may leave a callback that runs.                                         *)
(***************************************************************************)
EXTENDS Naturals, FiniteSets

CONSTANTS
  ArmBus, DriveBus,  \* the motors on Arm_CAN and Drive_CAN
  FailureExit,       \* motors with FAILURE_EXIT in motor_settings.xlsx
  MaxRetries         \* max_retries of init_motors

ASSUME BringupAssumption ==
  /\ IsFiniteSet(ArmBus) /\ IsFiniteSet(DriveBus) /\ ArmBus \cap DriveBus = {}
  /\ FailureExit \subseteq ArmBus \cup DriveBus
  /\ MaxRetries \in Nat \ {0}

VARIABLES
  stage, bus,    \* where main is, and the bus it works on
  todo, retries, \* motors left in the loop it is in; attempts at the current one
  stopAsked,     \* _shutdown_requested
  reading,       \* the battery monitor has a reading
  beats,         \* motors whose is_heartbeat is set
  motors,        \* motors that were initialised
  missing,       \* unavail_arm, unavail_drive
  inMode,        \* motors whose mode of operation was confirmed
  known,         \* main holds what bring_up_all returned
  online,        \* buses connected
  answering,     \* motors that answer on their bus
  silent,        \* motors that once did not, since the process started
  powered,       \* motors that are enabled
  latched,       \* arm_bus_latched_at_startup
  ticking,       \* motors the running callback has still to command
  outlived       \* a callback was still running when the buses were closed

mainVars == <<stage, bus, todo, retries>>
foundVars == <<beats, motors, missing, inMode, known, online, latched>>
worldVars == <<answering, silent>>
bringVars == <<mainVars, stopAsked, reading, foundVars, worldVars, powered, ticking, outlived>>

AllMotors == ArmBus \cup DriveBus
On(b) == IF b = "arm" THEN ArmBus ELSE DriveBus

BringTypeOK ==
  /\ stage \in {"gate", "scan", "init", "verify", "settle", "policy", "spin", "halt",
                "join", "disarm", "grace", "close", "leave", "over"}
  /\ bus \in {"arm", "drive"}
  /\ todo \subseteq AllMotors /\ retries \in 0..MaxRetries
  /\ stopAsked \in BOOLEAN /\ reading \in BOOLEAN
  /\ beats \subseteq AllMotors
  /\ motors \subseteq AllMotors /\ missing \subseteq AllMotors
  /\ motors \cap missing = {} /\ inMode \subseteq motors
  /\ known \in BOOLEAN /\ latched \in BOOLEAN
  /\ online \subseteq {"arm", "drive"}
  /\ AllMotors \ silent \subseteq answering /\ answering \subseteq AllMotors
  /\ powered \subseteq AllMotors
  /\ ticking \subseteq motors
  /\ outlived \in BOOLEAN

BringInit ==
  /\ stage = "gate" /\ bus = "arm" /\ todo = {} /\ retries = 0
  /\ stopAsked = FALSE /\ reading = FALSE
  /\ beats = {} /\ motors = {} /\ missing = {} /\ inMode = {}
  /\ known = FALSE /\ online = {} /\ latched = FALSE
  /\ answering \in SUBSET AllMotors /\ silent = AllMotors \ answering
  /\ powered \in SUBSET AllMotors
  /\ ticking = {} /\ outlived = FALSE

-----------------------------------------------------------------------------
(* The receiver thread of the battery monitor parses a datagram. *)
Datagram ==
  /\ reading' = TRUE
  /\ UNCHANGED <<mainVars, stopAsked, foundVars, worldVars, powered, ticking, outlived>>

(* A signal, or /drive_fault_stop handled by _on_drive_fault. *)
RequestShutdown ==
  /\ stage # "over"
  /\ stopAsked' = TRUE
  /\ UNCHANGED <<mainVars, reading, foundVars, worldVars, powered, ticking, outlived>>

(* A motor or its link goes, or comes back, in whatever state it was. *)
MotorComesOrGoes(m) ==
  /\ answering' = IF m \in answering THEN answering \ {m} ELSE answering \cup {m}
  /\ silent' = silent \cup {m}
  /\ UNCHANGED <<mainVars, stopAsked, reading, foundVars, powered, ticking, outlived>>

\* Mutant: the network is brought up as it is found.
CreateNetwork_no_reset(b) ==
  /\ stage' = "scan"
  /\ bus' = b
  /\ online' = online \cup {b}
  /\ UNCHANGED powered

(* create_network: connected, and every node that hears it is reset. *)
CreateNetwork(b) ==
  /\ stage' = "scan"
  /\ bus' = b
  /\ online' = online \cup {b}
  /\ powered' = powered \ (On(b) \cap answering)

(* No hardware is touched unless a reading came before the deadline.       *)
GateEnds ==
  /\ stage = "gate"
  /\ IF reading /\ ~stopAsked
       THEN CreateNetwork("arm")
       ELSE stage' = "halt" /\ UNCHANGED <<bus, online, powered>>
  /\ UNCHANGED <<todo, retries, stopAsked, reading, beats, motors, missing, inMode, known,
                 latched, worldVars, ticking, outlived>>

(* heartbeat_interrupt and the watchdog thread of Motor_Heartbeat_Lib.     *)
HeartbeatArrives(m) ==
  /\ stage = "scan" /\ m \in On(bus) \cap answering
  /\ beats' = beats \cup {m}
  /\ UNCHANGED <<mainVars, stopAsked, reading, motors, missing, inMode, known, online,
                 latched, worldVars, powered, ticking, outlived>>

HeartbeatTimesOut(m) ==
  /\ stage = "scan" /\ m \in beats \ answering
  /\ beats' = beats \ {m}
  /\ UNCHANGED <<mainVars, stopAsked, reading, motors, missing, inMode, known, online,
                 latched, worldVars, powered, ticking, outlived>>

(* After six seconds every motor that was there throughout has been heard. *)
ScanEnds ==
  /\ stage = "scan" /\ On(bus) \ silent \subseteq beats
  /\ stage' = "init"
  /\ todo' = On(bus) \cap beats /\ retries' = 0
  /\ missing' = missing \cup (On(bus) \ beats)
  /\ beats' = {}
  /\ UNCHANGED <<bus, stopAsked, reading, motors, inMode, known, online, latched,
                 worldVars, powered, ticking, outlived>>

Current == CHOOSE m \in todo : TRUE

Initialised(confirmed) ==
  /\ motors' = motors \cup {Current}
  /\ inMode' = IF confirmed THEN inMode \cup {Current} ELSE inMode
  /\ UNCHANGED missing
  /\ todo' = todo \ {Current} /\ retries' = 0

\* Mutant: the last attempt is not counted as a failure.
TryMotor_forgives(mode) ==
  CASE mode = "right" -> Initialised(TRUE)
    [] mode = "wrong" /\ Current \in FailureExit /\ retries + 1 < MaxRetries ->
         retries' = retries + 1 /\ UNCHANGED <<motors, inMode, missing, todo>>
    [] OTHER -> Initialised(FALSE)

(* The mode read back is the right one, another one, or an SDO error.      *)
(* Another one ends the constructor in SystemExit with FAILURE_EXIT, and   *)
(* is tried again.  An SDO error is swallowed: the motor counts as built.  *)
TryMotor(mode) ==
  CASE mode = "right" -> Initialised(TRUE)
    [] mode = "wrong" /\ Current \in FailureExit /\ retries + 1 < MaxRetries ->
         retries' = retries + 1 /\ UNCHANGED <<motors, inMode, missing, todo>>
    [] mode = "wrong" /\ Current \in FailureExit /\ retries + 1 = MaxRetries ->
         /\ missing' = missing \cup {Current}
         /\ todo' = todo \ {Current} /\ retries' = 0
         /\ UNCHANGED <<motors, inMode>>
    [] OTHER -> Initialised(FALSE)

InitMotor ==
  /\ stage = "init" /\ todo # {}
  /\ \E mode \in {"right", "wrong", "none"} :
       /\ (mode # "none") = (Current \in answering)
       /\ TryMotor(mode)
  /\ UNCHANGED <<stage, bus, stopAsked, reading, beats, known, online, latched,
                 worldVars, powered, ticking, outlived>>

MotorsBuilt ==
  /\ stage = "init" /\ todo = {}
  /\ stage' = "verify"
  /\ todo' = (motors \cap On(bus)) \ inMode
  /\ UNCHANGED <<bus, retries, stopAsked, reading, foundVars, worldVars, powered,
                 ticking, outlived>>

(* verify_and_fix_modes: after five attempts only a warning is left. *)
VerifyMode ==
  /\ stage = "verify" /\ todo # {}
  /\ todo' = todo \ {Current}
  /\ \/ Current \in answering /\ inMode' = inMode \cup {Current}
     \/ UNCHANGED inMode
  /\ UNCHANGED <<stage, bus, retries, stopAsked, reading, beats, motors, missing, known,
                 online, latched, worldVars, powered, ticking, outlived>>

(* The bus goes operational; the drive bus follows the arm bus. *)
BusReady ==
  /\ stage = "verify" /\ todo = {}
  /\ IF bus = "arm"
       THEN CreateNetwork("drive")
       ELSE stage' = "settle" /\ UNCHANGED <<bus, online, powered>>
  /\ UNCHANGED <<todo, retries, stopAsked, reading, beats, motors, missing, inMode, known,
                 latched, worldVars, ticking, outlived>>

(* safe_disarm_all reaches the motors that answer on a connected bus. *)
Reached(ms) == {m \in ms \cap motors \cap answering : \E b \in online : m \in On(b)}

BringUpReturns ==
  /\ stage = "settle"
  /\ stage' = "policy"
  /\ powered' = powered \ Reached(AllMotors)
  /\ known' = TRUE
  /\ UNCHANGED <<bus, todo, retries, stopAsked, reading, beats, motors, missing, inMode,
                 online, latched, worldVars, ticking, outlived>>

(* An exception out of bring_up_all, a SystemExit of the heartbeat library *)
(* included: main is left without networks and motors.                     *)
BringUpRaises ==
  /\ stage = "scan"
  /\ stage' = "halt"
  /\ UNCHANGED <<bus, todo, retries, stopAsked, reading, foundVars, worldVars, powered,
                 ticking, outlived>>

(* Rule 1: without a drive motor nothing runs.  Rule 2: without an arm     *)
(* motor the whole arm is latched, and those that are there are disarmed.  *)
StartupPolicy ==
  /\ stage = "policy"
  /\ CASE stopAsked ->
            stage' = "halt" /\ UNCHANGED <<online, powered, latched>>
       [] ~stopAsked /\ missing \cap DriveBus # {} ->
            /\ stage' = "halt"
            /\ powered' = powered \ Reached(AllMotors)
            /\ online' = {b \in online : motors \cap On(b) = {}}
            /\ UNCHANGED latched
       [] OTHER ->
            /\ stage' = "spin"
            /\ latched' = (missing \cap ArmBus # {})
            /\ powered' = IF latched' THEN powered \ Reached(ArmBus) ELSE powered
            /\ UNCHANGED online
  /\ UNCHANGED <<bus, todo, retries, stopAsked, reading, beats, motors, missing, inMode,
                 known, worldVars, ticking, outlived>>

-----------------------------------------------------------------------------
(* The motors the controllers were given. *)
InUse == motors \cap (IF latched THEN DriveBus ELSE AllMotors)

(* The executor thread begins a tick, which may command several motors ... *)
TickBegins(ms) ==
  /\ stage = "spin" /\ ticking = {}
  /\ ms # {} /\ ms \subseteq InUse
  /\ ticking' = ms
  /\ UNCHANGED <<mainVars, stopAsked, reading, foundVars, worldVars, powered, outlived>>

(* ... and enables or disables one after another, whatever main does.      *)
TickCommands(m) ==
  /\ m \in ticking
  /\ ticking' = ticking \ {m}
  /\ powered' \in IF m \in Reached({m}) THEN {powered \cup {m}, powered \ {m}} ELSE {powered}
  /\ UNCHANGED <<mainVars, stopAsked, reading, foundVars, worldVars, outlived>>

IdleLoopEnds ==
  /\ stage = "spin" /\ stopAsked
  /\ stage' = "halt"
  /\ UNCHANGED <<bus, todo, retries, stopAsked, reading, foundVars, worldVars, powered,
                 ticking, outlived>>

(* The finally block: the executor is shut down and the nodes destroyed. *)
ExecutorStops ==
  /\ stage = "halt"
  /\ stage' = "join"
  /\ UNCHANGED <<bus, todo, retries, stopAsked, reading, foundVars, worldVars, powered,
                 ticking, outlived>>

\* Mutant: the thread is joined without a time-out.
JoinEnds_waits ==
  /\ stage = "join" /\ ticking = {}
  /\ stage' = "disarm"
  /\ UNCHANGED <<bus, todo, retries, stopAsked, reading, foundVars, worldVars, powered,
                 ticking, outlived>>

(* The thread has ended, or a second is over. *)
JoinEnds ==
  /\ stage = "join"
  /\ stage' = "disarm"
  /\ UNCHANGED <<bus, todo, retries, stopAsked, reading, foundVars, worldVars, powered,
                 ticking, outlived>>

DisarmAtEnd ==
  /\ stage = "disarm"
  /\ stage' = "grace"
  /\ powered' = IF known THEN powered \ Reached(AllMotors) ELSE powered
  /\ UNCHANGED <<bus, todo, retries, stopAsked, reading, foundVars, worldVars, ticking,
                 outlived>>

GraceEnds ==
  /\ stage = "grace"
  /\ stage' = IF known THEN "close" ELSE "over"
  /\ bus' = "arm"
  /\ outlived' = (ticking # {})
  /\ UNCHANGED <<todo, retries, stopAsked, reading, foundVars, worldVars, powered, ticking>>

\* Mutant: the bus is left without a last controlword.
UniversalDisarm_silent ==
  /\ stage = "close"
  /\ stage' = "leave"
  /\ UNCHANGED <<bus, todo, retries, stopAsked, reading, foundVars, worldVars, powered,
                 ticking, outlived>>

(* Network_Lib.disconnect: one controlword to all nodes of the bus ...     *)
UniversalDisarm ==
  /\ stage = "close"
  /\ stage' = "leave"
  /\ powered' = powered \ Reached(On(bus))
  /\ UNCHANGED <<bus, todo, retries, stopAsked, reading, foundVars, worldVars, ticking,
                 outlived>>

(* ... then PRE-OPERATIONAL and the end, unless the network has no nodes.  *)
Disconnect ==
  /\ stage = "leave"
  /\ IF bus = "arm" THEN stage' = "close" /\ bus' = "drive" ELSE stage' = "over" /\ UNCHANGED bus
  /\ online' = IF motors \cap On(bus) = {} THEN online ELSE online \ {bus}
  /\ UNCHANGED <<todo, retries, stopAsked, reading, beats, motors, missing, inMode, known,
                 latched, worldVars, powered, ticking, outlived>>

BringMain ==
  \/ GateEnds \/ ScanEnds \/ InitMotor \/ MotorsBuilt \/ VerifyMode
  \/ BusReady \/ BringUpReturns \/ BringUpRaises \/ StartupPolicy \/ IdleLoopEnds
  \/ ExecutorStops \/ JoinEnds \/ DisarmAtEnd \/ GraceEnds \/ UniversalDisarm \/ Disconnect

BringNext ==
  \/ Datagram
  \/ RequestShutdown
  \/ \E m \in AllMotors :
       MotorComesOrGoes(m) \/ HeartbeatArrives(m) \/ HeartbeatTimesOut(m) \/ TickCommands(m)
  \/ \E ms \in SUBSET AllMotors : TickBegins(ms)
  \/ BringMain

BringSpec == BringInit /\ [][BringNext]_bringVars

(* The main thread goes on, and a motor that answers sends heartbeats.     *)
(* Nothing is said of callbacks: one may hang.                             *)
BringFairness ==
  /\ WF_bringVars(BringMain)
  /\ \A m \in AllMotors : WF_bringVars(HeartbeatArrives(m) /\ beats' # beats)

-----------------------------------------------------------------------------
Steady == AllMotors \ silent

(* A drive that a crashed process left enabled is off before the first     *)
(* node runs, whether its motor was initialised, failed or was ruled out,  *)
(* if it could be reached all the time (create_network, bring_up_all).     *)
RestBeforeNodes ==
  [][stage' = "spin" /\ stage # "spin" => powered' \cap Steady' = {}]_bringVars

(* When the process is over no drive that could be reached is enabled,     *)
(* even if a callback outlived the join and enabled one after the DISARM   *)
(* of the finally block: the networks' own disarm comes after it.  A       *)
(* callback that runs even while the buses are closed can escape; and of a *)
(* bring-up that was aborted main has no motors to disarm (not known).     *)
EndsAtRest ==
  stage = "over" /\ known /\ ~outlived => powered \cap motors \cap Steady = {}

(* What Rule 1 lets pass: with FAILURE_EXIT set, a drive motor in use has  *)
(* the mode it was asked for, unless it fell silent during the bring-up.   *)
OnlySilenceIsMissed ==
  stage = "spin" => DriveBus \cap FailureExit \cap Steady \subseteq inMode

(* A request to stop, at any point of the bring-up or of a callback, ends  *)
(* the process; no thread that hangs can hold it (robot_bringup.py, main). *)
StopLeadsToOver == stopAsked ~> (stage = "over")
=============================================================================
