------------------------------ MODULE LatchedBus ------------------------------
(***************************************************************************)
(* What both motor controllers promise of the motors they command, whatever *)
(* the order of callbacks, lost writes, faults and stops: a motor is armed  *)
(* before it is moved, and one taken out stays out.  A drive is switched on *)
(* by an ARM of its own motor only, and moved by a RUN to an armed one;     *)
(* everything else that happens on the bus can only stop drives.            *)
(* DriveController and ArmController implement it.                          *)
(***************************************************************************)
CONSTANT Motors

VARIABLES
  life,     \* what the controller makes of each motor
  powered,  \* the drives that are enabled
  moving    \* the drives that hold a command to move

vars == <<life, powered, moving>>

Lives == {"OFF", "ARMING", "ARMED", "OUT"}

TypeOK == /\ life \in [Motors -> Lives]
          /\ powered \subseteq Motors /\ moving \subseteq Motors

(* A controller may be started for a bus that is out already. *)
Init == /\ life \in [Motors -> {"OFF"}] \cup [Motors -> {"OUT"}]
        /\ powered = {} /\ moving = {}

-----------------------------------------------------------------------------

Becomes(S, state) == life' = [m \in Motors |-> IF m \in S THEN state ELSE life[m]]

(* Nothing that this step does to a drive starts it. *)
OnlyStops == powered' \subseteq powered /\ moving' \subseteq moving

(* ARM, once more if the drive does not answer; its writes may be lost.    *)
Arm(m) == /\ life[m] \in {"OFF", "ARMING"}
          /\ Becomes({m}, "ARMING")
          /\ powered' \subseteq powered \cup {m}
          /\ moving' \subseteq moving

(* A tick finds that some of the motors have had their time to arm. *)
Declare(S) == /\ \A m \in S : life[m] = "ARMING"
              /\ Becomes(S, "ARMED")
              /\ UNCHANGED <<powered, moving>>

(* RUN. *)
Run(m) == /\ life[m] = "ARMED"
          /\ moving' \subseteq moving \cup {m}
          /\ UNCHANGED <<life, powered>>

(* DISARM, when the idle time is over. *)
Disarm(m) == /\ life[m] = "ARMED"
             /\ Becomes({m}, "OFF")
             /\ OnlyStops

(* A drive faults, or the heartbeat node disarms; no controller is told. *)
Lapse == OnlyStops /\ UNCHANGED life

(* A fault message or the battery: some motors are taken out. *)
Retire(S) == Becomes(S, "OUT") /\ OnlyStops

Next == \/ \E m \in Motors : Arm(m) \/ Run(m) \/ Disarm(m)
        \/ \E S \in SUBSET Motors : Declare(S) \/ Retire(S)
        \/ Lapse

Spec == Init /\ [][Next]_vars
=============================================================================
