----------------------------- MODULE Cia402Proofs -----------------------------
(***************************************************************************)
(* What the two controlword sequences do to a drive, whichever of their    *)
(* writes are lost.  Both controllers' proofs rest on these two lemmas.    *)
(***************************************************************************)
EXTENDS Cia402, TLAPS

\* No subset of the writes of ARM leaves the set of drive states, and a complete
\* ARM enables the drive whatever state it finds, a fault included.
LEMMA ArmTyped ==
  ASSUME NEW s \in CiaStates, NEW lost
  PROVE  /\ ARM(s, lost) \in CiaStates
         /\ lost = {} => ARM(s, lost) = "OPERATION_ENABLED"
<1> DEFINE s1 == CONTROLWORD("RESET_FAULT", s, 1 \in lost)
           s2 == CONTROLWORD("SHUT_DOWN", s1, 2 \in lost)
           s3 == CONTROLWORD("SWITCH_ON", s2, 3 \in lost)
           s4 == CONTROLWORD("ENABLE_VOLTAGE", s3, 6 \in lost)
<1>1. s1 \in CiaStates /\ (lost = {} => s1 # "FAULT")
  BY DEF CONTROLWORD, Apply, CiaStates
<1> HIDE DEF s1
<1>2. s2 \in CiaStates /\ (lost = {} => s2 = "READY_TO_SWITCH_ON")
  BY <1>1 DEF CONTROLWORD, Apply, CiaStates
<1> HIDE DEF s2
<1>3. s3 \in CiaStates /\ (lost = {} => s3 = "SWITCHED_ON")
  BY <1>2 DEF CONTROLWORD, Apply, CiaStates
<1> HIDE DEF s3
<1>4. s4 \in CiaStates /\ (lost = {} => s4 = "OPERATION_ENABLED")
  BY <1>3 DEF CONTROLWORD, Apply, CiaStates
<1>5. s4 = ARM(s, lost)  BY DEF s1, s2, s3, ARM
<1>6. QED  BY <1>4, <1>5

\* The same of DISARM, and no subset of its writes enables a drive that was not
\* enabled; complete, it leaves the drive off.
LEMMA DisarmTyped ==
  ASSUME NEW s \in CiaStates, NEW lost
  PROVE  /\ DISARM(s, lost) \in CiaStates
         /\ DISARM(s, lost) = "OPERATION_ENABLED" => s = "OPERATION_ENABLED"
         /\ lost = {} => DISARM(s, lost) = "SWITCH_ON_DISABLED"
<1> DEFINE s1 == CONTROLWORD("SHUT_DOWN", s, 3 \in lost)
           s2 == CONTROLWORD("RESET_FAULT", s1, 4 \in lost)
           s3 == CONTROLWORD("DISABLE_VOLTAGE", s2, 5 \in lost)
           OnlyIf(t) == t = "OPERATION_ENABLED" => s = "OPERATION_ENABLED"
<1>1. s1 \in CiaStates /\ OnlyIf(s1)  BY DEF CONTROLWORD, Apply, CiaStates
<1> HIDE DEF s1
<1>2. s2 \in CiaStates /\ OnlyIf(s2) /\ (lost = {} => s2 # "FAULT")
  BY <1>1 DEF CONTROLWORD, Apply, CiaStates
<1> HIDE DEF s2
<1>3. /\ s3 \in CiaStates /\ OnlyIf(s3)
      /\ lost = {} => s3 = "SWITCH_ON_DISABLED"
  BY <1>2 DEF CONTROLWORD, Apply, CiaStates
<1>4. s3 = DISARM(s, lost)  BY DEF s1, s2, DISARM
<1>5. QED  BY <1>3, <1>4
=============================================================================
