--------------------------- MODULE FlipperTickProofs ---------------------------
(***************************************************************************)
(* What holds of the flippers for any number of executor threads, any      *)
(* travel and any set of positions that collide.                           *)
(***************************************************************************)
EXTENDS FlipperTick, FiniteSetTheorems, TLAPS

Asking == {"both", "front", "rear"}
Questions == [at: Asking, cmd: FlipCmds, to: Positions, asked: Positions]

-----------------------------------------------------------------------------
(* Types.                                                                  *)

\* The check lock is held by the one tick that asks.
SingleFlight ==
  \A t, u \in FlipThreads : flipTick[t].at \in Asking /\ flipTick[u].at \in Asking => t = u

FlipTypeInv == FlipTypeOK /\ SingleFlight

\* The lowest and the highest position of a side are integers in order.
LEMMA TravelOf ==
  \A s \in Sides : Lowest[s] \in Int /\ Highest[s] \in Int /\ Lowest[s] <= Highest[s]
BY FlipperAssumption DEF Sides, Lowest, Highest

\* A pair of positions is a function from the sides to their travel.
LEMMA PositionsAre ==
  ASSUME NEW p
  PROVE  p \in Positions => \A s \in Sides : p[s] \in Lowest[s]..Highest[s]
BY DEF Positions, Sides, Lowest, Highest

\* A function from the sides to their travel is a pair of positions.
LEMMA ArePositions ==
  ASSUME NEW p \in [Sides -> Int], \A s \in Sides : p[s] \in Lowest[s]..Highest[s]
  PROVE  p \in Positions
BY FlipperAssumption DEF Positions, Sides, Lowest, Highest

\* A snap stays within the travel.
LEMMA SnapWithinTravel ==
  ASSUME FlipTypeOK, NEW s \in Sides
  PROVE  Snapped(s) \in Lowest[s]..Highest[s]
BY PositionsAre DEF FlipTypeOK, Snapped

\* So does a step, whatever the limit ahead.
LEMMA StepWithinTravel ==
  ASSUME FlipTypeOK, NEW cmd \in FlipCmds, NEW s \in Sides
  PROVE  Proposed(cmd, s) \in Lowest[s]..Highest[s]
<1>1. flipPos[s] \in Lowest[s]..Highest[s] /\ flippers[s] \in Lowest[s]..Highest[s]
  BY PositionsAre DEF FlipTypeOK
<1>2. cmd[s] \in {-1, 0, 1} /\ AheadLimit \in Nat
  BY FlipperAssumption
<1>3. Lowest[s] \in Int /\ Highest[s] \in Int /\ Lowest[s] <= Highest[s]
  BY TravelOf
<1> DEFINE step == Within(Lowest[s], flipPos[s] + cmd[s], Highest[s])
<1>4. step \in Lowest[s]..Highest[s]
  BY <1>1, <1>2, <1>3 DEF Within
<1> HIDE DEF step
<1>5. Within(flippers[s] - AheadLimit, step, flippers[s] + AheadLimit) \in Lowest[s]..Highest[s]
  BY <1>1, <1>2, <1>3, <1>4 DEF Within
<1>6. QED
  BY <1>4, <1>5 DEF Proposed, step

\* A tick in progress has the fields that go with where it is.
LEMMA TicksAre ==
  ASSUME NEW r \in FlipTicks
  PROVE  /\ r.at \in Asking => r \in Questions
         /\ r.at \in {"step", "ask"} => r.cmd \in FlipCmds
         /\ r.at \in {"ask", "commit"} => r.to \in Positions
BY DEF FlipTicks, FlipIdle, Asking, Questions

\* What a probe asks about is a pair of positions.
LEMMA ProbedIsPosition ==
  ASSUME FlipTypeOK, NEW t \in FlipThreads, flipTick[t].at \in Asking, NEW side \in Asking
  PROVE  Probed(t, side) \in Positions
<1>1. flipTick[t].to \in Positions
  BY TicksAre DEF FlipTypeOK, Questions
<1>2. flipPos \in Positions
  BY DEF FlipTypeOK
<1>3. QED
  BY <1>1, <1>2 DEF Probed, Positions, Asking

\* A tick changes no other tick.
LEMMA OthersWait ==
  ASSUME FlipTypeOK, NEW t \in FlipThreads, FlipperTicking(t)
  PROVE  \A u \in FlipThreads \ {t} : flipTick'[u] = flipTick[u]
BY DEF FlipperTicking, FlipperTickSnaps, FlipperTickSteps, FlipperTickAsks, CheckPasses,
   CheckFails, FlipperTickCommits, FlipperTickSends, FlipTypeOK

\* At the start nothing is asked.
LEMMA FlipTypeInit == FlipInit => FlipTypeInv
<1> SUFFICES ASSUME FlipInit PROVE FlipTypeInv
  OBVIOUS
<1>1. AtRest \in Positions
  <2>1. \A s \in Sides : 0 \in Lowest[s]..Highest[s]
    BY FlipperAssumption DEF Sides, Lowest, Highest
  <2>2. QED
    BY <2>1, ArePositions DEF AtRest, Sides
<1>2. FlipIdle \in FlipTicks /\ FlipIdle.at \notin Asking
  BY DEF FlipIdle, FlipTicks, Asking
<1>3. 0 \in 0..(SendInterval - 1)
  BY FlipperAssumption
<1>4. QED
  BY <1>1, <1>2, <1>3, FlipperAssumption DEF FlipInit, FlipTypeInv, FlipTypeOK, SingleFlight, Asking

\* Of a tick that changes only its own state, the lock tells whether it asks.
LEMMA LockFollows ==
  ASSUME FlipTypeInv, NEW t \in FlipThreads, NEW r \in FlipTicks,
         flipTick' = [flipTick EXCEPT ![t] = r],
         \/ r.at \in Asking /\ checkBusy' = TRUE /\ (checkBusy => flipTick[t].at \in Asking)
         \/ r.at \notin Asking /\ checkBusy' = FALSE /\ flipTick[t].at \in Asking
         \/ r.at \notin Asking /\ flipTick[t].at \notin Asking /\ UNCHANGED checkBusy
  PROVE  /\ flipTick' \in [FlipThreads -> FlipTicks]
         /\ (checkBusy = (\E u \in FlipThreads : flipTick[u].at \in {"both", "front", "rear"}))'
         /\ SingleFlight'
<1> USE DEF FlipTypeInv, FlipTypeOK
<1>1. flipTick' \in [FlipThreads -> FlipTicks]
  OBVIOUS
<1>2. /\ flipTick'[t] = r
      /\ \A u \in FlipThreads \ {t} : flipTick'[u] = flipTick[u]
  OBVIOUS
<1>3. \A u \in FlipThreads : flipTick[u].at \in Asking => checkBusy
  BY DEF Asking
<1>4. checkBusy \in BOOLEAN /\ (checkBusy => \E u \in FlipThreads : flipTick[u].at \in Asking)
  BY DEF Asking
<1>5. SingleFlight'
  BY <1>2, <1>3 DEF SingleFlight
<1>6. checkBusy' \in BOOLEAN /\ (checkBusy' <=> \E u \in FlipThreads : flipTick'[u].at \in Asking)
  <2>1. CASE r.at \in Asking /\ checkBusy' = TRUE
    BY <1>2, <2>1
  <2>2. CASE r.at \notin Asking /\ checkBusy' = FALSE /\ flipTick[t].at \in Asking
    BY <1>2, <2>2 DEF SingleFlight
  <2>3. CASE r.at \notin Asking /\ flipTick[t].at \notin Asking /\ UNCHANGED checkBusy
    BY <1>2, <1>3, <1>4, <2>3
  <2>4. QED
    BY <2>1, <2>2, <2>3
<1>7. QED
  BY <1>1, <1>5, <1>6 DEF Asking

\* A tick that snaps keeps the accumulators within the travel.
LEMMA SnapKeepsTypes ==
  ASSUME FlipTypeInv, NEW t \in FlipThreads, FlipperTickSnaps(t)
  PROVE  FlipTypeInv'
<1> USE DEF FlipTypeInv
<1> DEFINE snapped == [s \in Sides |-> Snapped(s)]
<1>1. snapped \in Positions
  <2>1. snapped \in [Sides -> Int] /\ \A s \in Sides : snapped[s] \in Lowest[s]..Highest[s]
    BY SnapWithinTravel, TravelOf
  <2> HIDE DEF snapped
  <2>2. QED
    BY <2>1, ArePositions
<1>2. /\ flipTick[t] = FlipIdle /\ prevCmd' = flipCmd
      /\ UNCHANGED <<flipCmd, sendCount, checkBusy, jsLost, flipTarget, flippers, lateCommits>>
  BY DEF FlipperTickSnaps
<1>3. \/ UNCHANGED <<flipPos, flipTick>>
      \/ /\ flipPos' = snapped
         /\ flipTick' = [flipTick EXCEPT ![t] = [at |-> "step", cmd |-> flipCmd]]
  BY DEF FlipperTickSnaps, Commanded
<1> HIDE DEF snapped
<1>4. flipPos' \in Positions
  BY <1>1, <1>3 DEF FlipTypeOK
<1>5. /\ flipTick' \in [FlipThreads -> FlipTicks]
      /\ (checkBusy = (\E u \in FlipThreads : flipTick[u].at \in {"both", "front", "rear"}))'
      /\ SingleFlight'
  <2>1. CASE UNCHANGED <<flipPos, flipTick>>
    BY <1>2, <2>1 DEF FlipTypeOK, SingleFlight
  <2>2. CASE flipTick' = [flipTick EXCEPT ![t] = [at |-> "step", cmd |-> flipCmd]]
    <3> DEFINE r == [at |-> "step", cmd |-> flipCmd]
    <3>1. r \in FlipTicks /\ r.at \notin Asking /\ flipTick[t].at \notin Asking
      BY <1>2 DEF FlipTicks, FlipTypeOK, FlipIdle, Asking
    <3> HIDE DEF r
    <3>2. QED
      BY <1>2, <2>2, <3>1, LockFollows DEF r
  <2>3. QED
    BY <1>3, <2>1, <2>2
<1>6. QED
  BY <1>2, <1>4, <1>5 DEF FlipTypeOK

\* A tick that computes its step changes nothing but its own state.
LEMMA StepKeepsTypes ==
  ASSUME FlipTypeInv, NEW t \in FlipThreads, FlipperTickSteps(t)
  PROVE  FlipTypeInv'
<1> USE DEF FlipTypeInv
<1> DEFINE cmd == flipTick[t].cmd
           proposed == [s \in Sides |-> Proposed(cmd, s)]
<1>1. cmd \in FlipCmds /\ flipTick[t].at \notin Asking
  BY TicksAre DEF FlipperTickSteps, FlipTypeOK, Asking
<1>2. proposed \in Positions
  <2> HIDE DEF cmd
  <2>1. proposed \in [Sides -> Int] /\ \A s \in Sides : proposed[s] \in Lowest[s]..Highest[s]
    BY <1>1, StepWithinTravel, TravelOf
  <2> HIDE DEF proposed
  <2>2. QED
    BY <2>1, ArePositions
<1> DEFINE r == IF proposed = flipPos THEN FlipIdle
                ELSE [at |-> "ask", cmd |-> cmd, to |-> proposed]
<1>3. flipTick' = [flipTick EXCEPT ![t] = r]
  BY DEF FlipperTickSteps
<1>4. UNCHANGED <<flipCmd, prevCmd, flipPos, sendCount, checkBusy, jsLost, flipTarget,
                  flippers, lateCommits>>
  BY DEF FlipperTickSteps
<1> HIDE DEF cmd, proposed
<1>5. r \in FlipTicks /\ r.at \notin Asking
  BY <1>1, <1>2 DEF FlipTicks, FlipIdle, Asking
<1> HIDE DEF r
<1>6. /\ flipTick' \in [FlipThreads -> FlipTicks]
      /\ (checkBusy = (\E u \in FlipThreads : flipTick[u].at \in {"both", "front", "rear"}))'
      /\ SingleFlight'
  BY <1>1, <1>3, <1>4, <1>5, LockFollows
<1>7. QED
  BY <1>4, <1>6 DEF FlipTypeOK

\* A tick that asks takes the lock, or leaves it to the tick that has it.
LEMMA AskKeepsTypes ==
  ASSUME FlipTypeInv, NEW t \in FlipThreads, FlipperTickAsks(t)
  PROVE  FlipTypeInv'
<1> USE DEF FlipTypeInv
<1>1. /\ flipTick[t].cmd \in FlipCmds /\ flipTick[t].to \in Positions
      /\ flipTick[t].at \notin Asking
  BY TicksAre DEF FlipperTickAsks, FlipTypeOK, Asking
<1>2. UNCHANGED <<flipCmd, prevCmd, flipPos, sendCount, jsLost, flipTarget, flippers,
                  lateCommits>>
  BY DEF FlipperTickAsks
<1>3. /\ flipTick' \in [FlipThreads -> FlipTicks]
      /\ (checkBusy = (\E u \in FlipThreads : flipTick[u].at \in {"both", "front", "rear"}))'
      /\ SingleFlight'
  <2>1. CASE checkBusy
    <3>1. FlipIdle \in FlipTicks /\ FlipIdle.at \notin Asking
      BY DEF FlipTicks, FlipIdle, Asking
    <3>2. flipTick' = [flipTick EXCEPT ![t] = FlipIdle] /\ checkBusy' = TRUE
      BY <2>1 DEF FlipperTickAsks
    <3>3. checkBusy = TRUE
      BY <2>1 DEF FlipTypeOK
    <3>4. QED
      BY <1>1, <3>1, <3>2, <3>3, LockFollows
  <2>2. CASE ~checkBusy
    <3> DEFINE r == [at |-> "both", cmd |-> flipTick[t].cmd, to |-> flipTick[t].to,
                     asked |-> flipTick[t].to]
    <3>1. r \in FlipTicks /\ r.at \in Asking
      BY <1>1 DEF FlipTicks, Asking
    <3>2. flipTick' = [flipTick EXCEPT ![t] = r] /\ checkBusy' = TRUE
      BY <2>2 DEF FlipperTickAsks
    <3> HIDE DEF r
    <3>3. QED
      BY <2>2, <3>1, <3>2, LockFollows
  <2>3. QED
    BY <2>1, <2>2
<1>4. QED
  BY <1>2, <1>3 DEF FlipTypeOK

\* An answer lets the lock go, or asks about one side alone.
LEMMA AnswerKeepsTypes ==
  ASSUME FlipTypeInv, NEW t \in FlipThreads, CheckPasses(t) \/ CheckFails(t)
  PROVE  FlipTypeInv'
<1> USE DEF FlipTypeInv
<1>1. /\ flipTick[t].at \in Asking
      /\ UNCHANGED <<flipCmd, prevCmd, flipPos, sendCount, jsLost, flipTarget,
                     flippers, lateCommits>>
  BY DEF CheckPasses, CheckFails, Asking
<1>2. flipTick[t] \in Questions
  BY <1>1, TicksAre DEF FlipTypeOK
<1>3. \A side \in Asking : Probed(t, side) \in Positions
  BY <1>1, ProbedIsPosition
<1>4. /\ flipTick' \in [FlipThreads -> FlipTicks]
      /\ (checkBusy = (\E u \in FlipThreads : flipTick[u].at \in {"both", "front", "rear"}))'
      /\ SingleFlight'
  <2>1. CASE CheckPasses(t)
    <3> DEFINE r == [at |-> "commit", to |-> Probed(t, flipTick[t].at)]
    <3>1. r \in FlipTicks /\ r.at \notin Asking
      BY <1>1, <1>3 DEF FlipTicks, Asking
    <3>2. flipTick' = [flipTick EXCEPT ![t] = r] /\ checkBusy' = FALSE
      BY <2>1 DEF CheckPasses
    <3> HIDE DEF r
    <3>3. QED
      BY <1>1, <3>1, <3>2, LockFollows
  <2>2. CASE CheckFails(t) /\ checkBusy' = FALSE
    <3>1. FlipIdle \in FlipTicks /\ FlipIdle.at \notin Asking
      BY DEF FlipTicks, FlipIdle, Asking
    <3>2. checkBusy = TRUE
      BY <1>1 DEF FlipTypeOK, Asking
    <3>3. flipTick' = [flipTick EXCEPT ![t] = FlipIdle]
      BY <2>2, <3>2 DEF CheckFails
    <3>4. QED
      BY <1>1, <2>2, <3>1, <3>3, LockFollows
  <2>3. CASE CheckFails(t) /\ checkBusy' # FALSE
    <3> DEFINE next == IF flipTick[t].at = "both" THEN "front" ELSE "rear"
               r == [flipTick[t] EXCEPT !.at = next, !.asked = Probed(t, next)]
    <3>1. next \in Asking
      BY DEF Asking
    <3>2. flipTick' = [flipTick EXCEPT ![t].at = next, ![t].asked = Probed(t, next)]
          /\ UNCHANGED checkBusy
      BY <2>3 DEF CheckFails
    <3> HIDE DEF next
    <3>3. r \in Questions /\ r.at = next
      BY <1>2, <1>3, <3>1 DEF Questions
    <3>4. flipTick' = [flipTick EXCEPT ![t] = r]
      BY <3>2 DEF FlipTypeOK
    <3>5. checkBusy = TRUE /\ r \in FlipTicks
      BY <1>1, <3>3 DEF FlipTypeOK, Asking, FlipTicks, Questions
    <3> HIDE DEF r
    <3>6. QED
      BY <1>1, <3>1, <3>2, <3>3, <3>4, <3>5, LockFollows
  <2>4. QED
    BY <2>1, <2>2, <2>3
<1>5. QED
  BY <1>1, <1>4 DEF FlipTypeOK

\* A commit and a send do not touch the lock, which is free or another tick's.
LEMMA CommitKeepsTypes ==
  ASSUME FlipTypeInv, NEW t \in FlipThreads, FlipperTickCommits(t) \/ FlipperTickSends(t)
  PROVE  FlipTypeInv'
<1> USE DEF FlipTypeInv
<1>1. PICK r \in {FlipIdle, [at |-> "send"]} : flipTick' = [flipTick EXCEPT ![t] = r]
  BY DEF FlipperTickCommits, FlipperTickSends
<1>2. r \in FlipTicks /\ r.at \notin Asking /\ flipTick[t].at \notin Asking
  BY DEF FlipTicks, FlipIdle, Asking, FlipperTickCommits, FlipperTickSends
<1>3. UNCHANGED <<flipCmd, prevCmd, checkBusy, jsLost, flippers>>
  BY DEF FlipperTickCommits, FlipperTickSends
<1>4. /\ flipTick' \in [FlipThreads -> FlipTicks]
      /\ (checkBusy = (\E u \in FlipThreads : flipTick[u].at \in {"both", "front", "rear"}))'
      /\ SingleFlight'
  BY <1>1, <1>2, <1>3, LockFollows
<1>5. sendCount' \in 0..(SendInterval - 1)
  BY FlipperAssumption DEF FlipperTickCommits, FlipperTickSends, FlipTypeOK
<1>6. lateCommits' \in Nat
  BY DEF FlipperTickCommits, FlipperTickSends, FlipTypeOK
<1>7. flipPos' \in Positions /\ flipTarget' \in Positions
  BY TicksAre DEF FlipperTickCommits, FlipperTickSends, FlipTypeOK
<1>8. QED
  BY <1>3, <1>4, <1>5, <1>6, <1>7 DEF FlipTypeOK

\* A flipper on its way stays within its travel.
LEMMA MoveKeepsTypes ==
  ASSUME FlipTypeInv, NEW s \in Sides, FlipperMoves(s)
  PROVE  FlipTypeInv'
<1> USE DEF FlipTypeInv
<1>1. /\ flippers[s] \in Lowest[s]..Highest[s] /\ flipTarget[s] \in Lowest[s]..Highest[s]
      /\ Lowest[s] \in Int /\ Highest[s] \in Int
  BY PositionsAre, TravelOf DEF FlipTypeOK
<1> DEFINE v == IF flippers[s] < flipTarget[s] THEN flippers[s] + 1 ELSE flippers[s] - 1
<1>2. v \in Lowest[s]..Highest[s]
  BY <1>1 DEF FlipperMoves
<1>3. flippers' = [flippers EXCEPT ![s] = v]
  BY DEF FlipperMoves
<1> HIDE DEF v
<1>4. flippers' \in Positions
  BY <1>2, <1>3 DEF FlipTypeOK, Positions, Sides, Lowest, Highest
<1>5. UNCHANGED <<flipCmd, prevCmd, flipPos, sendCount, checkBusy, flipTick, jsLost,
                  flipTarget, lateCommits>>
  BY DEF FlipperMoves
<1>6. QED
  BY <1>4, <1>5 DEF FlipTypeOK, SingleFlight

\* Every step keeps the types and the lock.
LEMMA FlipTypeNext == FlipTypeInv /\ [FlipNext]_flipVars => FlipTypeInv'
<1> SUFFICES ASSUME FlipTypeInv, [FlipNext]_flipVars PROVE FlipTypeInv'
  OBVIOUS
<1>1. CASE UNCHANGED flipVars
  BY <1>1 DEF flipVars, FlipTypeInv, FlipTypeOK, SingleFlight
<1>2. CASE (\E c \in FlipCmds : OnSbusFlippers(c)) \/ JointStatesComeAndGo
  <2>1. jsLost' \in BOOLEAN
    BY <1>2 DEF OnSbusFlippers, JointStatesComeAndGo, FlipTypeInv, FlipTypeOK
  <2>2. flipCmd' \in FlipCmds /\ lateCommits' \in Nat
    BY <1>2 DEF OnSbusFlippers, JointStatesComeAndGo, FlipTypeInv, FlipTypeOK
  <2>3. UNCHANGED <<prevCmd, flipPos, sendCount, checkBusy, flipTick, flipTarget,
                    flippers>>
    BY <1>2 DEF OnSbusFlippers, JointStatesComeAndGo
  <2>4. QED
    BY <2>1, <2>2, <2>3 DEF FlipTypeInv, FlipTypeOK, SingleFlight
<1>3. ASSUME NEW t \in FlipThreads, FlipperTicking(t) PROVE FlipTypeInv'
  BY <1>3, SnapKeepsTypes, StepKeepsTypes, AskKeepsTypes, AnswerKeepsTypes,
     CommitKeepsTypes DEF FlipperTicking
<1>4. ASSUME NEW s \in Sides, FlipperMoves(s) PROVE FlipTypeInv'
  BY <1>4, MoveKeepsTypes
<1>5. QED
  BY <1>1, <1>2, <1>3, <1>4 DEF FlipNext

\* Commands, accumulators, targets and flippers stay within the travel, and the check
\* lock is held exactly while a tick waits for an answer.
THEOREM FlipTypeCorrect == FlipSpec => []FlipTypeOK
<1>1. FlipTypeInv => FlipTypeOK
  BY DEF FlipTypeInv
<1>2. QED
  BY <1>1, FlipTypeInit, FlipTypeNext, PTL DEF FlipSpec

-----------------------------------------------------------------------------
(* A released flipper stops.                                               *)

\* The ticks that may still commit the step they have in hand.
InHand == {t \in FlipThreads : flipTick[t].at \notin {"idle", "send"}}

\* With the sticks centred, a step that was committed was in hand before.
LateInv ==
  IF flipCmd = AtRest
    THEN lateCommits + Cardinality(InHand) <= Cardinality(FlipThreads)
    ELSE lateCommits = 0

\* The steps in hand are no more than the threads, and fewer when one is let go.
LEMMA InHandCount ==
  /\ Cardinality(InHand) \in Nat /\ Cardinality(FlipThreads) \in Nat
  /\ Cardinality(InHand) <= Cardinality(FlipThreads)
  /\ \A t \in InHand : Cardinality(InHand \ {t}) = Cardinality(InHand) - 1
<1>1. IsFiniteSet(FlipThreads) /\ InHand \in SUBSET FlipThreads
  BY FlipperAssumption DEF InHand
<1>2. IsFiniteSet(InHand)
  BY <1>1, FS_Subset
<1>3. QED
  BY <1>1, <1>2, FS_Subset, FS_CardinalityType, FS_RemoveElement

\* Only a tick that read a command takes a step in hand.
LEMMA LateNext == FlipTypeInv /\ LateInv /\ [FlipNext]_flipVars => LateInv'
<1> SUFFICES ASSUME FlipTypeInv, LateInv, [FlipNext]_flipVars PROVE LateInv'
  OBVIOUS
<1> USE DEF FlipTypeInv
<1>1. /\ Cardinality(InHand) \in Nat /\ Cardinality(FlipThreads) \in Nat
      /\ Cardinality(InHand) <= Cardinality(FlipThreads)
  BY InHandCount
<1>2. lateCommits \in Nat
  BY DEF FlipTypeOK
<1>3. ASSUME UNCHANGED <<flipCmd, lateCommits>>, InHand' = InHand PROVE LateInv'
  BY <1>3 DEF LateInv
<1>4. CASE UNCHANGED flipVars
  BY <1>3, <1>4 DEF flipVars, InHand
<1>5. CASE JointStatesComeAndGo \/ \E s \in Sides : FlipperMoves(s)
  BY <1>3, <1>5 DEF JointStatesComeAndGo, FlipperMoves, InHand
<1>6. ASSUME NEW c \in FlipCmds, OnSbusFlippers(c) PROVE LateInv'
  <2>1. InHand' = InHand
    BY <1>6 DEF OnSbusFlippers, InHand
  <2>2. QED
    BY <1>1, <1>2, <1>6, <2>1 DEF OnSbusFlippers, LateInv
<1>7. ASSUME NEW t \in FlipThreads, FlipperTickSnaps(t) PROVE LateInv'
  <2>1. CASE flipCmd = AtRest
    <3>1. UNCHANGED <<flipTick, flipCmd, lateCommits>>
      BY <1>7, <2>1 DEF FlipperTickSnaps, Commanded
    <3>2. QED
      BY <1>3, <3>1 DEF InHand
  <2>2. CASE flipCmd # AtRest
    BY <1>7, <2>2 DEF FlipperTickSnaps, LateInv
  <2>3. QED
    BY <2>1, <2>2
<1>8. ASSUME NEW t \in InHand, \A u \in FlipThreads \ {t} : flipTick'[u] = flipTick[u],
             flipCmd' = flipCmd,
             \/ lateCommits' = lateCommits
             \/ /\ t \notin InHand'
                /\ lateCommits' = IF flipCmd = AtRest THEN lateCommits + 1 ELSE 0
      PROVE  LateInv'
  <2>1. InHand' = InHand \/ InHand' = InHand \ {t}
    BY <1>8 DEF InHand
  <2>2. t \notin InHand' => InHand' = InHand \ {t}
    BY <2>1
  <2>3. Cardinality(InHand \ {t}) = Cardinality(InHand) - 1
    BY InHandCount
  <2>4. QED
    BY <1>1, <1>2, <1>8, <2>1, <2>2, <2>3 DEF LateInv
<1>9. ASSUME NEW t \in FlipThreads, FlipperTicking(t) PROVE LateInv'
  <2>1. /\ \A u \in FlipThreads \ {t} : flipTick'[u] = flipTick[u]
        /\ flipCmd' = flipCmd
    BY <1>9, OthersWait DEF FlipperTicking, FlipperTickSnaps, FlipperTickSteps, FlipperTickAsks,
       CheckPasses, CheckFails, FlipperTickCommits, FlipperTickSends
  <2>2. CASE FlipperTickSnaps(t)
    BY <1>7, <2>2
  <2>3. CASE FlipperTickSteps(t) \/ FlipperTickAsks(t) \/ CheckPasses(t) \/ CheckFails(t)
    <3>1. t \in InHand /\ lateCommits' = lateCommits
      BY <2>3 DEF FlipperTickSteps, FlipperTickAsks, CheckPasses, CheckFails, InHand
    <3>2. QED
      BY <1>8, <2>1, <3>1
  <2>4. CASE FlipperTickCommits(t)
    <3>1. t \in InHand /\ lateCommits' = IF flipCmd = AtRest THEN lateCommits + 1 ELSE 0
      BY <2>4 DEF FlipperTickCommits, InHand
    <3>2. t \notin InHand'
      BY <2>4 DEF FlipperTickCommits, InHand, FlipTypeOK
    <3>3. QED
      BY <1>8, <2>1, <3>1, <3>2
  <2>5. CASE FlipperTickSends(t)
    <3>1. t \notin InHand /\ UNCHANGED <<flipCmd, lateCommits>>
      BY <2>5 DEF FlipperTickSends, InHand
    <3>2. t \notin InHand'
      BY <2>5 DEF FlipperTickSends, InHand, FlipTypeOK, FlipIdle
    <3>3. InHand' = InHand
      BY <2>1, <3>1, <3>2 DEF InHand
    <3>4. QED
      BY <1>3, <3>1, <3>3
  <2>6. QED
    BY <1>9, <2>2, <2>3, <2>4, <2>5 DEF FlipperTicking
<1>10. QED
  BY <1>4, <1>5, <1>6, <1>9 DEF FlipNext

\* However long a check takes, a released flipper is sent no more steps than there
\* are executor threads.
THEOREM FlipperReleased == FlipSpec => []ReleasedFlipperHolds
<1>1. FlipInit => LateInv
  BY InHandCount DEF FlipInit, LateInv
<1>2. FlipTypeInv /\ LateInv => ReleasedFlipperHolds
  BY InHandCount DEF FlipTypeInv, FlipTypeOK, LateInv, ReleasedFlipperHolds
<1>3. QED
  BY <1>1, <1>2, FlipTypeInit, FlipTypeNext, LateNext, PTL DEF FlipSpec

-----------------------------------------------------------------------------
(* What is sent was checked.                                               *)

\* A tick asks about what it would commit, and what it commits and sends is clear.
ClearInv ==
  /\ flipTarget \notin Colliding
  /\ \A t \in FlipThreads :
       /\ flipTick[t].at \in Asking => flipTick[t].asked = Probed(t, flipTick[t].at)
       /\ flipTick[t].at = "commit" => flipTick[t].to \notin Colliding
       /\ flipTick[t].at = "send" => flipPos \notin Colliding

\* A tick that is alone keeps the question it asked, commits what was found clear
\* and sends what it committed.
LEMMA TickKeepsClear ==
  ASSUME FlipTypeInv, ClearInv, NEW t \in FlipThreads, FlipperTicking(t)
  PROVE  /\ flipTarget' \notin Colliding
         /\ flipTick'[t].at \in Asking => flipTick'[t].asked = Probed(t, flipTick[t].at)'
         /\ flipTick'[t].at = "commit" => flipTick'[t].to \notin Colliding
         /\ flipTick'[t].at = "send" => flipPos' \notin Colliding
<1> USE DEF FlipTypeInv
<1>1. CASE FlipperTickSnaps(t) \/ FlipperTickSteps(t)
  <2>1. flipTarget' = flipTarget
    BY <1>1 DEF FlipperTickSnaps, FlipperTickSteps
  <2>2. flipTick'[t].at \in {"idle", "step", "ask"}
    BY <1>1 DEF FlipperTickSnaps, FlipperTickSteps, FlipTypeOK, FlipIdle
  <2>3. QED
    BY <2>1, <2>2 DEF ClearInv, Asking
<1>2. CASE FlipperTickAsks(t)
  <2>1. flipTarget' = flipTarget
    BY <1>2 DEF FlipperTickAsks
  <2>2. \/ flipTick'[t] = FlipIdle
        \/ flipTick'[t].at = "both" /\ flipTick'[t].asked = flipTick'[t].to
    BY <1>2 DEF FlipperTickAsks, FlipTypeOK
  <2>3. QED
    BY <2>1, <2>2 DEF ClearInv, Probed, FlipIdle, Asking
<1>3. CASE CheckPasses(t)
  <2>1. /\ flipTick'[t] = [at |-> "commit", to |-> Probed(t, flipTick[t].at)]
        /\ flipTick[t].at \in Asking /\ flipTick[t].asked \notin Colliding
        /\ flipTarget' = flipTarget
    BY <1>3 DEF CheckPasses, FlipTypeOK, Asking
  <2>2. QED
    BY <2>1 DEF ClearInv, Asking
<1>4. CASE CheckFails(t)
  <2>1. flipTick[t] \in Questions /\ UNCHANGED <<flipTarget, flipPos>>
    BY <1>4, TicksAre DEF CheckFails, FlipTypeOK, Asking
  <2> DEFINE next == IF flipTick[t].at = "both" THEN "front" ELSE "rear"
  <2>2. \/ flipTick'[t] = FlipIdle
        \/ flipTick'[t] = [flipTick[t] EXCEPT !.at = next, !.asked = Probed(t, next)]
    BY <1>4 DEF CheckFails, FlipTypeOK
  <2>3. next \in {"front", "rear"}
    OBVIOUS
  <2> HIDE DEF next
  <2>4. CASE flipTick'[t] = [flipTick[t] EXCEPT !.at = next, !.asked = Probed(t, next)]
    <3>1. /\ flipTick'[t].at = next /\ flipTick'[t].to = flipTick[t].to
          /\ flipTick'[t].asked = Probed(t, next)
      BY <2>1, <2>4 DEF Questions
    <3>2. QED
      BY <2>1, <2>3, <3>1 DEF ClearInv, Probed, Asking
  <2>5. QED
    BY <2>1, <2>2, <2>4 DEF ClearInv, FlipIdle, Asking
<1>5. CASE FlipperTickCommits(t)
  <2>1. /\ flipTick[t].at = "commit" /\ flipTick'[t] = [at |-> "send"]
        /\ flipTarget' = flipTarget /\ flipPos' = flipTick[t].to
    BY <1>5 DEF FlipperTickCommits, FlipTypeOK
  <2>2. QED
    BY <2>1 DEF ClearInv, Asking
<1>6. CASE FlipperTickSends(t)
  <2>1. /\ flipTick[t].at = "send" /\ flipTick'[t] = FlipIdle
        /\ flipTarget' \in {flipTarget, flipPos}
    BY <1>6 DEF FlipperTickSends, FlipTypeOK
  <2>2. QED
    BY <2>1 DEF ClearInv, FlipIdle, Asking
<1>7. QED
  BY <1>1, <1>2, <1>3, <1>4, <1>5, <1>6 DEF FlipperTicking

\* Where a tick is alone, nothing else moves the accumulators.
LEMMA ClearNext ==
  FlipTypeInv /\ ClearInv /\ TicksInTurn /\ TicksInTurn' /\ [FlipNext]_flipVars => ClearInv'
<1> SUFFICES ASSUME FlipTypeInv, ClearInv, TicksInTurn, TicksInTurn', [FlipNext]_flipVars
             PROVE  ClearInv'
  OBVIOUS
<1> USE DEF FlipTypeInv
<1>1. CASE UNCHANGED <<flipPos, flipTick, flipTarget>>
  BY <1>1 DEF ClearInv, Probed
<1>2. CASE UNCHANGED flipVars \/ (\E c \in FlipCmds : OnSbusFlippers(c))
           \/ JointStatesComeAndGo \/ (\E s \in Sides : FlipperMoves(s))
  BY <1>1, <1>2 DEF flipVars, OnSbusFlippers, JointStatesComeAndGo, FlipperMoves
<1>3. ASSUME NEW t \in FlipThreads, FlipperTicking(t) PROVE ClearInv'
  <2>1. \A u \in FlipThreads \ {t} : flipTick'[u] = flipTick[u]
    BY <1>3, OthersWait
  <2>2. CASE flipTick[t] = FlipIdle /\ flipTick'[t] = FlipIdle
    <3>1. UNCHANGED <<flipPos, flipTick, flipTarget>>
      <4>1. FlipperTickSnaps(t)
        BY <1>3, <2>2 DEF FlipperTicking, FlipperTickSteps, FlipperTickAsks, CheckPasses,
           CheckFails, FlipperTickCommits, FlipperTickSends, FlipIdle
      <4>2. QED
        BY <2>2, <4>1 DEF FlipperTickSnaps, FlipTypeOK, FlipIdle
    <3>2. QED
      BY <1>1, <3>1
  <2>3. CASE flipTick[t] # FlipIdle \/ flipTick'[t] # FlipIdle
    <3>1. \A u \in FlipThreads \ {t} : flipTick'[u] = FlipIdle
      BY <2>1, <2>3 DEF TicksInTurn
    <3>2. QED
      BY <1>3, <3>1, TickKeepsClear DEF ClearInv, FlipIdle, Asking
  <2>4. QED
    BY <2>2, <2>3
<1>4. QED
  BY <1>2, <1>3 DEF FlipNext

\* Whatever collides, the pair of targets sent to the flippers was checked, partial
\* moves included, in every behaviour where no two ticks overlap.
THEOREM TargetsClear == FlipSpec => TargetsClearInTurn
<1>1. FlipInit => ClearInv
  BY FlipperAssumption DEF FlipInit, ClearInv, FlipIdle, Asking
<1>2. ClearInv => FlipperTargetsClear
  BY DEF ClearInv, FlipperTargetsClear
<1>3. QED
  BY <1>1, <1>2, FlipTypeInit, FlipTypeNext, ClearNext, PTL DEF FlipSpec, TargetsClearInTurn
=============================================================================
