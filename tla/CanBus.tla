------------------------------- MODULE CanBus -------------------------------
(***************************************************************************)
(* What the heartbeat node and the controllers share: the drives on the    *)
(* two buses, the library's record of the last position command, and the   *)
(* one executor thread their callbacks run on.  A motor is on its bus or   *)
(* off it; every write to a motor that is off it is lost.                  *)
(***************************************************************************)
EXTENDS Cia402, FiniteSets

CONSTANTS Joints,       \* Arm_CAN motors in CSP mode
          Grippers,     \* Arm_CAN motors in CST mode
          DriveMotors,  \* the motors of Drive_CAN
          Positions,    \* joint positions and targets, in encoder counts
          Torques,      \* gripper targets
          MaxLosses,    \* bound: how many motors leave their bus
          MaxFaults     \* bound: how many drives latch a fault

ArmMotors == Joints \cup Grippers
Motors == ArmMotors \cup DriveMotors
Values == Positions \cup Torques

ASSUME CanBusAssumption ==
  /\ IsFiniteSet(Motors)
  /\ Joints \cap Grippers = {} /\ ArmMotors \cap DriveMotors = {}
  /\ Positions \subseteq Int /\ Torques \subseteq Int /\ 0 \in Positions \cap Torques
  /\ MaxLosses \in Nat /\ MaxFaults \in Nat

VARIABLES
  cia,        \* the power state each drive is in
  held,       \* the target it holds
  profile,    \* whether its Profile_velocity lets a CSP drive move
  feedback,   \* telemetry.feedback.position, from the last TPDO1
  commanded,  \* telemetry.command.position of the library, None before a RUN
  link,       \* "up" or "down"
  wasLost,    \* the motors that left their bus so far
  faulted,    \* the motors that latched a fault so far
  executor    \* the SingleThreadedExecutor: "free", or the callback it is in

drives == <<cia, held, profile, feedback, commanded>>
wires == <<link, wasLost, faulted>>
bus == <<drives, wires, executor>>

BusTypeOK ==
  /\ cia \in [Motors -> CiaStates]
  /\ held \in [Motors -> Values]
  /\ profile \in [Motors -> BOOLEAN]
  /\ feedback \in [Motors -> Positions]
  /\ commanded \in [Motors -> Positions]
  /\ link \in [Motors -> {"up", "down"}]
  /\ wasLost \subseteq Motors /\ faulted \subseteq Motors
  /\ executor \in {"free", "tick", "monitor"}

BusInit ==
  /\ cia = [m \in Motors |-> "SWITCH_ON_DISABLED"]
  /\ feedback = [m \in Motors |-> 0]
  /\ held = feedback /\ commanded = feedback
  /\ profile = [m \in Motors |-> FALSE]
  /\ link = [m \in Motors |-> "up"]
  /\ wasLost = {} /\ faulted = {}
  /\ executor = "free"

-----------------------------------------------------------------------------

LostTo(m, writes) == IF link[m] = "up" THEN {} ELSE writes

Enabled(m) == cia[m] = "OPERATION_ENABLED"

\* CONTROLWORD_HALT: zero torque or speed, or hold the last commanded position
\* (with none yet that write fails and leaves the target the drive started with).
HaltedTarget(m) ==
  CASE link[m] = "down" -> held[m]
    [] link[m] = "up" /\ m \in Joints -> commanded[m]
    [] OTHER -> 0
HaltedProfile(m) == profile[m] /\ ~(m \in Joints /\ link[m] = "up")

\* DISARM of every motor of S, one after another.
DisarmDrives(S) ==
  /\ cia' = [m \in Motors |->
       IF m \in S THEN DISARM(cia[m], LostTo(m, DisarmWrites)) ELSE cia[m]]
  /\ held' = [m \in Motors |-> IF m \in S THEN HaltedTarget(m) ELSE held[m]]
  /\ profile' = [m \in Motors |-> IF m \in S THEN HaltedProfile(m) ELSE profile[m]]
  /\ UNCHANGED <<feedback, commanded>>

-----------------------------------------------------------------------------
(* The motors themselves.                                                  *)

Travel(m) ==
  /\ m \in Joints /\ link[m] = "up" /\ Enabled(m) /\ profile[m]
  /\ feedback[m] # held[m]
  /\ feedback' = [feedback EXCEPT ![m] = held[m]]
  /\ UNCHANGED <<cia, held, profile, commanded, wires, executor>>

DriveFaults(m) ==
  /\ m \notin faulted /\ Cardinality(faulted) < MaxFaults /\ cia[m] # "FAULT"
  /\ faulted' = faulted \cup {m}
  /\ cia' = [cia EXCEPT ![m] = "FAULT"]
  /\ UNCHANGED <<held, profile, feedback, commanded, link, wasLost, executor>>

LinkLost(m) ==
  /\ link[m] = "up" /\ m \notin wasLost /\ Cardinality(wasLost) < MaxLosses
  /\ link' = [link EXCEPT ![m] = "down"]
  /\ wasLost' = wasLost \cup {m}
  /\ UNCHANGED <<drives, faulted, executor>>

LinkReturns(m) ==
  /\ link[m] = "down"
  /\ link' = [link EXCEPT ![m] = "up"]
  /\ UNCHANGED <<drives, wasLost, faulted, executor>>
=============================================================================
