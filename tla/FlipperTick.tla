----------------------------- MODULE FlipperTick -----------------------------
(***************************************************************************)
(* The flippers in coordinator_node.py: the timer callback _flipper_tick,  *)
(* which several executor threads may run at a time, its accumulators, the *)
(* collision check it waits for under a single-flight lock, and what the   *)
(* flipper controller is sent.  Atomic are the reading of the command with *)
(* the snap, the computation of the step, the lock, an answer of MoveIt,   *)
(* the commit, which comes after the lock is free, and the sending.        *)
(* Positions are counted in steps of flipper_step; the front flipper goes  *)
(* up from 0, the rear one down.                                           *)
(***************************************************************************)
EXTENDS Integers, FiniteSets

CONSTANTS
  FlipThreads,   \* executor threads that can be in a tick
  FlipCmds,      \* what the stick may ask of the two flippers
  FrontMax,      \* steps to the end of travel of the front flipper
  RearMax,       \* ... and of the rear one
  AheadLimit,    \* flipper_ahead_limit
  SendInterval,  \* _flipper_send_interval
  Colliding      \* pairs of positions that are not valid

Sides == {"front", "rear"}
Lowest == [front |-> 0, rear |-> -RearMax]
Highest == [front |-> FrontMax, rear |-> 0]
Positions == [front: 0..FrontMax, rear: (-RearMax)..0]
AtRest == [s \in Sides |-> 0]

ASSUME FlipperAssumption ==
  /\ IsFiniteSet(FlipThreads)
  /\ FlipCmds \subseteq [Sides -> {-1, 0, 1}] /\ AtRest \in FlipCmds
  /\ FrontMax \in Nat /\ RearMax \in Nat
  /\ SendInterval \in Nat \ {0} /\ AheadLimit \in Nat /\ SendInterval <= AheadLimit
  /\ Colliding \subseteq Positions /\ AtRest \notin Colliding

VARIABLES
  flipCmd,     \* _front_flipper_cmd, _rear_flipper_cmd
  prevCmd,     \* _prev_front_flipper_cmd, _prev_rear_flipper_cmd
  flipPos,     \* _front_flipper_pos, _rear_flipper_pos
  sendCount,   \* _flipper_tick_count
  checkBusy,   \* _flipper_check_busy
  flipTick,    \* where each thread is in its tick
  jsLost,      \* _js_watchdog_triggered
  flipTarget,  \* what the flipper controller was sent last
  flippers,    \* where the flippers are, and _last_joint_state says so
  lateCommits  \* commits since the sticks were released

flipVars == <<flipCmd, prevCmd, flipPos, sendCount, checkBusy, flipTick, jsLost,
              flipTarget, flippers, lateCommits>>

FlipIdle == [at |-> "idle"]
FlipTicks == {FlipIdle}
             \cup [at: {"step"}, cmd: FlipCmds]
             \cup [at: {"ask"}, cmd: FlipCmds, to: Positions]
             \cup [at: {"both", "front", "rear"}, cmd: FlipCmds, to: Positions, asked: Positions]
             \cup [at: {"commit"}, to: Positions]
             \cup [at: {"send"}]

FlipTypeOK ==
  /\ flipCmd \in FlipCmds /\ prevCmd \in FlipCmds
  /\ flipPos \in Positions
  /\ sendCount \in 0..(SendInterval - 1)
  /\ checkBusy = (\E t \in FlipThreads : flipTick[t].at \in {"both", "front", "rear"})
  /\ flipTick \in [FlipThreads -> FlipTicks]
  /\ jsLost \in BOOLEAN
  /\ flipTarget \in Positions /\ flippers \in Positions
  /\ lateCommits \in Nat

FlipInit ==
  /\ flipCmd = AtRest /\ prevCmd = AtRest
  /\ flipPos = AtRest /\ flipTarget = AtRest /\ flippers = AtRest
  /\ sendCount = 0
  /\ checkBusy = FALSE
  /\ flipTick = [t \in FlipThreads |-> FlipIdle]
  /\ jsLost = FALSE
  /\ lateCommits = 0

-----------------------------------------------------------------------------
(* A message of the radio, or the SBUS watchdog, sets the commands. *)
OnSbusFlippers(c) ==
  /\ flipCmd' = c
  /\ lateCommits' = IF c = AtRest THEN lateCommits ELSE 0
  /\ UNCHANGED <<prevCmd, flipPos, sendCount, checkBusy, flipTick, jsLost, flipTarget,
                 flippers>>

(* The watchdog of the joint states, and the joint states when they return. *)
JointStatesComeAndGo ==
  /\ jsLost' = ~jsLost
  /\ UNCHANGED <<flipCmd, prevCmd, flipPos, sendCount, checkBusy, flipTick,
                 flipTarget, flippers, lateCommits>>

Within(lo, v, hi) == IF v < lo THEN lo ELSE IF v > hi THEN hi ELSE v

\* Mutant: the command of the tick before.
Commanded_late == prevCmd

(* The commands as the tick reads them, under their lock. *)
Commanded == flipCmd

(* Where the accumulator starts: at the measured position if this side is  *)
(* not commanded, or anew, or the other way.                               *)
Snapped(s) ==
  IF Commanded[s] = 0 \/ Commanded[s] # prevCmd[s] THEN flippers[s] ELSE flipPos[s]

(* A tick reads the command and snaps.  Nothing happens while the joint    *)
(* states are missing, or at rest.                                         *)
FlipperTickSnaps(t) ==
  /\ flipTick[t] = FlipIdle
  /\ ~jsLost
  /\ prevCmd' = flipCmd
  /\ IF Commanded = AtRest
       THEN UNCHANGED <<flipPos, flipTick>>
       ELSE /\ flipPos' = [s \in Sides |-> Snapped(s)]
            /\ flipTick' = [flipTick EXCEPT ![t] = [at |-> "step", cmd |-> Commanded]]
  /\ UNCHANGED <<flipCmd, sendCount, checkBusy, jsLost, flipTarget, flippers, lateCommits>>

(* One step on, within the limits and not too far ahead of the flipper. *)
Proposed(cmd, s) ==
  LET step == Within(Lowest[s], flipPos[s] + cmd[s], Highest[s])
  IN IF cmd[s] = 0
       THEN step
       ELSE Within(flippers[s] - AheadLimit, step, flippers[s] + AheadLimit)

(* The step is computed from the accumulators as they are now; one that    *)
(* changes nothing is not taken.                                           *)
FlipperTickSteps(t) ==
  LET cmd == flipTick[t].cmd
      proposed == [s \in Sides |-> Proposed(cmd, s)]
  IN /\ flipTick[t].at = "step"
     /\ flipTick' = [flipTick EXCEPT ![t] =
          IF proposed = flipPos THEN FlipIdle ELSE [at |-> "ask", cmd |-> cmd, to |-> proposed]]
     /\ UNCHANGED <<flipCmd, prevCmd, flipPos, sendCount, checkBusy, jsLost, flipTarget,
                    flippers, lateCommits>>

(* The check is asked for, unless that of another tick is pending. *)
FlipperTickAsks(t) ==
  /\ flipTick[t].at = "ask"
  /\ checkBusy' = TRUE
  /\ flipTick' = [flipTick EXCEPT ![t] =
       IF checkBusy
         THEN FlipIdle
         ELSE [at |-> "both", cmd |-> @.cmd, to |-> @.to, asked |-> @.to]]
  /\ UNCHANGED <<flipCmd, prevCmd, flipPos, sendCount, jsLost, flipTarget, flippers,
                 lateCommits>>

(* The pair a probe asks about, and the one it commits: the side that is   *)
(* not probed stays where its accumulator is, then and at the answer.      *)
Probed(t, side) ==
  CASE side = "both" -> flipTick[t].to
    [] side = "front" -> [flipPos EXCEPT !.front = flipTick[t].to.front]
    [] side = "rear" -> [flipPos EXCEPT !.rear = flipTick[t].to.rear]

\* Mutant: the whole step is committed when one side alone is clear.
CheckPasses_whole(t) ==
  /\ flipTick[t].at \in {"both", "front", "rear"}
  /\ flipTick[t].asked \notin Colliding
  /\ flipTick' = [flipTick EXCEPT ![t] = [at |-> "commit", to |-> flipTick[t].to]]
  /\ checkBusy' = FALSE
  /\ UNCHANGED <<flipCmd, prevCmd, flipPos, sendCount, jsLost, flipTarget,
                 flippers, lateCommits>>

(* MoveIt finds the pair valid; the lock is free before the commit. *)
CheckPasses(t) ==
  /\ flipTick[t].at \in {"both", "front", "rear"}
  /\ flipTick[t].asked \notin Colliding
  /\ flipTick' = [flipTick EXCEPT ![t] = [at |-> "commit", to |-> Probed(t, flipTick[t].at)]]
  /\ checkBusy' = FALSE
  /\ UNCHANGED <<flipCmd, prevCmd, flipPos, sendCount, jsLost, flipTarget,
                 flippers, lateCommits>>

\* Mutant: a blocked move keeps the lock.
CheckFails_keeps_lock(t) ==
  /\ flipTick[t].at \in {"both", "front", "rear"}
  /\ LET next == IF flipTick[t].at = "both" THEN "front" ELSE "rear"
     IN IF flipTick[t].at # "rear" /\ \A s \in Sides : flipTick[t].cmd[s] # 0
          THEN /\ flipTick' = [flipTick EXCEPT ![t].at = next, ![t].asked = Probed(t, next)]
               /\ UNCHANGED checkBusy
          ELSE /\ flipTick' = [flipTick EXCEPT ![t] = FlipIdle]
               /\ UNCHANGED checkBusy
  /\ UNCHANGED <<flipCmd, prevCmd, flipPos, sendCount, jsLost, flipTarget,
                 flippers, lateCommits>>

(* Not valid, or no answer in time.  With both sides commanded the front   *)
(* is tried alone, then the rear.                                          *)
CheckFails(t) ==
  /\ flipTick[t].at \in {"both", "front", "rear"}
  /\ LET next == IF flipTick[t].at = "both" THEN "front" ELSE "rear"
     IN IF flipTick[t].at # "rear" /\ \A s \in Sides : flipTick[t].cmd[s] # 0
          THEN /\ flipTick' = [flipTick EXCEPT ![t].at = next, ![t].asked = Probed(t, next)]
               /\ UNCHANGED checkBusy
          ELSE /\ flipTick' = [flipTick EXCEPT ![t] = FlipIdle]
               /\ checkBusy' = FALSE
  /\ UNCHANGED <<flipCmd, prevCmd, flipPos, sendCount, jsLost, flipTarget,
                 flippers, lateCommits>>

(* The commit of both accumulators. *)
FlipperTickCommits(t) ==
  /\ flipTick[t].at = "commit"
  /\ flipTick' = [flipTick EXCEPT ![t] = [at |-> "send"]]
  /\ flipPos' = flipTick[t].to
  /\ lateCommits' = IF flipCmd = AtRest THEN lateCommits + 1 ELSE 0
  /\ UNCHANGED <<flipCmd, prevCmd, sendCount, checkBusy, jsLost, flipTarget, flippers>>

(* Every few commits a trajectory to the accumulators, as they are now. *)
FlipperTickSends(t) ==
  /\ flipTick[t].at = "send"
  /\ flipTick' = [flipTick EXCEPT ![t] = FlipIdle]
  /\ sendCount' = (sendCount + 1) % SendInterval
  /\ flipTarget' = IF sendCount' = 0 THEN flipPos ELSE flipTarget
  /\ UNCHANGED <<flipCmd, prevCmd, flipPos, checkBusy, jsLost, flippers, lateCommits>>

(* A flipper moves towards its target. *)
FlipperMoves(s) ==
  /\ flippers[s] # flipTarget[s]
  /\ flippers' = [flippers EXCEPT ![s] = IF @ < flipTarget[s] THEN @ + 1 ELSE @ - 1]
  /\ UNCHANGED <<flipCmd, prevCmd, flipPos, sendCount, checkBusy, flipTick, jsLost,
                 flipTarget, lateCommits>>

FlipperTicking(t) == \/ FlipperTickSnaps(t)
                     \/ FlipperTickSteps(t)
                     \/ FlipperTickAsks(t)
                     \/ CheckPasses(t)
                     \/ CheckFails(t)
                     \/ FlipperTickCommits(t)
                     \/ FlipperTickSends(t)

FlipNext ==
  \/ \E c \in FlipCmds : OnSbusFlippers(c)
  \/ JointStatesComeAndGo
  \/ \E t \in FlipThreads : FlipperTicking(t)
  \/ \E s \in Sides : FlipperMoves(s)

FlipSpec == FlipInit /\ [][FlipNext]_flipVars

-----------------------------------------------------------------------------
(* A released flipper stops: however long a check takes, each thread       *)
(* commits at most the one step it had in hand when the stick was centred. *)
ReleasedFlipperHolds == lateCommits <= Cardinality(FlipThreads)

(* No two ticks overlap. *)
TicksInTurn ==
  \A t, u \in FlipThreads : flipTick[t] # FlipIdle /\ flipTick[u] # FlipIdle => t = u

(* Nothing moves, and nothing is under way. *)
Standing ==
  flippers = flipTarget /\ prevCmd = AtRest /\ \A t \in FlipThreads : flipTick[t] = FlipIdle

(* The front flipper is held on its own, with feedback and a clear way. *)
HeldUp == flipCmd = [front |-> 1, rear |-> 0] /\ ~jsLost /\ flippers.rear = 0 /\ TicksInTurn

(* A flipper that stands on its target when the stick is pushed, and is    *)
(* held on its own, with feedback and a clear way, gets to its limit but   *)
(* for the steps between two sends, whatever checks came before: the       *)
(* single-flight lock, the limit ahead and the rate limit do not stall one *)
(* another.  A flipper on its way back to a target that a slow check sent  *)
(* late may stop earlier: its accumulator is at the limit ahead or at the  *)
(* end of travel before the next send is due.                              *)
HeldFlipperArrives ==
  (Standing /\ []HeldUp) ~> (flippers.front > FrontMax - SendInterval)

(* What is sent was checked: "no trajectories are emitted past the         *)
(* last-known-safe setpoint" (docstring of _flipper_tick).                 *)
FlipperTargetsClear == flipTarget \notin Colliding

(* Where no two ticks overlap that is so, partial moves included, whatever *)
(* sticks, flippers and joint states do while a check is pending.  The     *)
(* lock alone does not see to it: ticks snap before they take it, and      *)
(* commit and send after they let it go.                                   *)
TargetsClearInTurn == []TicksInTurn => []FlipperTargetsClear
=============================================================================
