------------------------------- MODULE Cia402 -------------------------------
(***************************************************************************)
(* The CiA-402 power state machine of one motor drive, as the controllers  *)
(* use it, and the two controlword sequences of Motor_Control/Controlword: *)
(* ARM and DISARM.  A controlword goes out as one SDO write; the library   *)
(* swallows a write that times out and carries on with the next one, so a  *)
(* sequence is given the set of the writes that were lost.                 *)
(***************************************************************************)
EXTENDS Integers

CiaStates == {"SWITCH_ON_DISABLED", "READY_TO_SWITCH_ON", "SWITCHED_ON",
              "OPERATION_ENABLED", "FAULT"}

ControlWords == {"SHUT_DOWN", "SWITCH_ON", "ENABLE_VOLTAGE",
                 "DISABLE_VOLTAGE", "RESET_FAULT"}

\* The drive's reaction to a controlword (the drive itself is hardware).
Apply(word, s) ==
  CASE s = "FAULT" -> IF word = "RESET_FAULT" THEN "SWITCH_ON_DISABLED" ELSE s
    [] s # "FAULT" /\ word = "SHUT_DOWN" -> "READY_TO_SWITCH_ON"
    [] s # "FAULT" /\ word = "SWITCH_ON" ->
         IF s = "SWITCH_ON_DISABLED" THEN s ELSE "SWITCHED_ON"
    [] s # "FAULT" /\ word = "ENABLE_VOLTAGE" ->
         IF s = "SWITCH_ON_DISABLED" THEN s ELSE "OPERATION_ENABLED"
    [] s # "FAULT" /\ word = "DISABLE_VOLTAGE" -> "SWITCH_ON_DISABLED"
    [] OTHER -> s

\* CONTROLWORD: one SDO write whose failure is logged and dropped.
CONTROLWORD(word, s, lost) == IF lost THEN s ELSE Apply(word, s)

(***************************************************************************)
(* The numbered writes of each sequence.  Writes 4 and 5 of ARM, and 1 and *)
(* 2 of DISARM, are the two halves of CONTROLWORD_HALT; they change the    *)
(* targets the drive holds and not its power state.                        *)
(***************************************************************************)
ArmWrites == 1..6
DisarmWrites == 1..5

ARM(s, lost) ==
  CONTROLWORD("ENABLE_VOLTAGE",
    CONTROLWORD("SWITCH_ON",
      CONTROLWORD("SHUT_DOWN",
        CONTROLWORD("RESET_FAULT", s, 1 \in lost), 2 \in lost),
      3 \in lost),
    6 \in lost)

DISARM(s, lost) ==
  CONTROLWORD("DISABLE_VOLTAGE",
    CONTROLWORD("RESET_FAULT",
      CONTROLWORD("SHUT_DOWN", s, 3 \in lost), 4 \in lost),
    5 \in lost)

\* CONTROLWORD_HALT on a position drive: Profile_velocity := 0, then
\* Target_position := the last commanded position; a failed first write
\* raises and skips the second.  On a velocity drive only the first exists.
HaltFirst(lost, i) == i \notin lost
HaltSecond(lost, i) == i \notin lost /\ (i + 1) \notin lost
=============================================================================
