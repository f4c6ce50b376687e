-------------------------- MODULE CoordinatorProofs --------------------------
(***************************************************************************)
(* What holds of the arm pipeline for every number of executor threads,    *)
(* every set of stick inputs and every number of requests on the wire.     *)
(***************************************************************************)
EXTENDS Coordinator, FiniteSetTheorems, TLAPS

-----------------------------------------------------------------------------
(* The requests on their way: at most one of them is waited for.           *)

\* No answer of the worker's and no request it waits for, whatever it does next.
Unwaited(w) == \A i \in DOMAIN w : ~w[i]

\* A worker that stops waiting leaves requests nobody waits for.
LEMMA UnawaitedTyped ==
  ASSUME TypeOK
  PROVE  /\ Unawaited \in Seq(BOOLEAN) /\ Len(Unawaited) = Len(wire)
         /\ Unwaited(Unawaited)
<1>1. wire \in Seq(BOOLEAN) /\ DOMAIN wire = 1..Len(wire) /\ Len(wire) \in Nat
  BY DEF TypeOK
<1>2. Unawaited = [i \in 1..Len(wire) |-> FALSE]
  BY <1>1 DEF Unawaited
<1>3. QED
  BY <1>1, <1>2 DEF Unwaited

\* The controller takes the first request; the others keep their order, and no
\* other is waited for if that one was.
LEMMA TailTyped ==
  ASSUME TypeOK, wire # <<>>
  PROVE  /\ Head(wire) \in BOOLEAN
         /\ Tail(wire) \in Seq(BOOLEAN) /\ Len(Tail(wire)) <= MaxWire
         /\ Head(wire) => /\ reply = "none" /\ worker \in {"sending", "homeSending"}
                          /\ Unwaited(Tail(wire))
         /\ \A i \in DOMAIN Tail(wire) : Tail(wire)[i] =>
              /\ reply = "none" /\ worker \in {"sending", "homeSending"}
              /\ \A j \in DOMAIN Tail(wire) : Tail(wire)[j] => j = i
<1>1. wire \in Seq(BOOLEAN) /\ Len(wire) \in Nat /\ Len(wire) <= MaxWire /\ MaxWire \in Nat
  BY CoordinatorAssumption DEF TypeOK
<1>2. Len(wire) # 0 /\ DOMAIN wire = 1..Len(wire)
  BY <1>1
<1>3. Tail(wire) \in Seq(BOOLEAN) /\ Len(Tail(wire)) = Len(wire) - 1
  BY <1>1, <1>2
<1>4. \A i \in 1..Len(wire) - 1 : Tail(wire)[i] = wire[i + 1]
  BY <1>1, <1>2
<1>5. Head(wire) = wire[1] /\ wire[1] \in BOOLEAN
  BY <1>1, <1>2
<1>6. \A i, j \in 1..Len(wire) : wire[i] =>
        /\ reply = "none" /\ worker \in {"sending", "homeSending"}
        /\ wire[j] => j = i
  BY <1>2 DEF TypeOK, AwaitedOnce
<1>7. \A i \in 1..Len(wire) - 1 : i + 1 \in 1..Len(wire) /\ i + 1 # 1
  BY <1>1, <1>2
<1>8. 1 \in 1..Len(wire)
  BY <1>1, <1>2
<1>9. Head(wire) => \A i \in 1..Len(wire) - 1 : ~Tail(wire)[i]
  BY <1>4, <1>5, <1>6, <1>7, <1>8
<1>10. \A i, j \in 1..Len(wire) - 1 : i + 1 = j + 1 => i = j
  BY <1>1
<1>11. \A i, j \in 1..Len(wire) - 1 : Tail(wire)[i] =>
         /\ reply = "none" /\ worker \in {"sending", "homeSending"}
         /\ Tail(wire)[j] => j = i
  BY <1>4, <1>6, <1>7, <1>10
<1>12. Head(wire) => reply = "none" /\ worker \in {"sending", "homeSending"}
  BY <1>5, <1>6, <1>8
<1>13. DOMAIN Tail(wire) = 1..Len(wire) - 1
  BY <1>1, <1>2, <1>3
<1>14. Unwaited(Tail(wire)) <=> \A i \in 1..Len(wire) - 1 : ~Tail(wire)[i]
  BY <1>13 DEF Unwaited
<1>15. \A i \in DOMAIN Tail(wire) : Tail(wire)[i] =>
         /\ reply = "none" /\ worker \in {"sending", "homeSending"}
         /\ \A j \in DOMAIN Tail(wire) : Tail(wire)[j] => j = i
  BY <1>11, <1>13
<1>16. Tail(wire) \in Seq(BOOLEAN) /\ Len(Tail(wire)) <= MaxWire
  BY <1>1, <1>3
<1>17. QED
  BY <1>5, <1>9, <1>12, <1>14, <1>15, <1>16

\* A request joins the end; it is the only one waited for, if it is waited for.
LEMMA AppendTyped ==
  ASSUME TypeOK, NEW b \in BOOLEAN, Len(wire) < MaxWire
  PROVE  /\ Append(wire, b) \in Seq(BOOLEAN) /\ Len(Append(wire, b)) <= MaxWire
         /\ \A i \in DOMAIN Append(wire, b) :
              \/ i \in DOMAIN wire /\ Append(wire, b)[i] = wire[i]
              \/ i = Len(wire) + 1 /\ Append(wire, b)[i] = b
<1>1. wire \in Seq(BOOLEAN) /\ Len(wire) \in Nat /\ MaxWire \in Nat
      /\ DOMAIN wire = 1..Len(wire)
  BY CoordinatorAssumption DEF TypeOK
<1>2. Append(wire, b) \in Seq(BOOLEAN) /\ Len(Append(wire, b)) = Len(wire) + 1
  BY <1>1
<1>3. DOMAIN Append(wire, b) = 1..Len(wire) + 1
  BY <1>1, <1>2
<1>4. \A i \in 1..Len(wire) : Append(wire, b)[i] = wire[i]
  BY <1>1
<1>5. Append(wire, b)[Len(wire) + 1] = b
  BY <1>1
<1>6. QED
  BY <1>1, <1>2, <1>3, <1>4, <1>5
-----------------------------------------------------------------------------
(* Type correctness.                                                       *)

\* What moves neither the wire nor the worker's wait keeps AwaitedOnce.
LEMMA AwaitedKept ==
  AwaitedOnce /\ UNCHANGED <<wire, reply, worker>> => AwaitedOnce'
BY DEF AwaitedOnce

\* Before any message, tick or event the state has its types.
LEMMA TypeInit == Init => TypeOK
<1>1. <<>> \in Seq(BOOLEAN) /\ Len(<<>>) = 0 /\ DOMAIN <<>> = {}
  OBVIOUS
<1>2. Init => /\ at \in [Threads -> Places] /\ held \in [Threads -> SUBSET Inputs]
              /\ cmd \subseteq Inputs /\ prev \subseteq Inputs \cup {"firing_pitch"}
  BY DEF Init, Places
<1>3. Init => wire \in Seq(BOOLEAN) /\ Len(wire) <= MaxWire /\ DOMAIN wire = {}
  BY <1>1, CoordinatorAssumption DEF Init
<1>4. ASSUME Init PROVE
        /\ pending \in Goals \cup {None} /\ job \in Goals \cup {None}
        /\ worker \in {"idle", "taking"} <=> job = None
        /\ worker \in HomePlaces <=> job = "HOME"
  BY <1>4, CoordinatorAssumption DEF Init, Goals, HomePlaces
<1>5. Init => AwaitedOnce
  BY <1>3 DEF Init, AwaitedOnce
<1>6. ASSUME Init PROVE
        /\ heard \in BOOLEAN /\ watchdog \in BOOLEAN /\ jsWatchdog \in BOOLEAN
        /\ homeReq \in BOOLEAN /\ atHome \in BOOLEAN /\ rearm \in BOOLEAN
        /\ stale \in BOOLEAN /\ queued \in BOOLEAN /\ handle \in BOOLEAN
        /\ commanded \in BOOLEAN
  BY <1>6 DEF Init
<1>7. ASSUME Init PROVE
        /\ firing \in {"off", "pending", "active"}
        /\ worker \in {"idle", "taking", "validate", "validated", "planning", "planned",
                       "send", "sending"} \cup HomePlaces
        /\ reply \in {"none", "accepted", "over"}
        /\ reply # "none" => worker \in {"sending", "homeSending"}
        /\ running \in {"none", "owned", "orphan"}
        /\ overshoot \in Nat
  BY <1>7 DEF Init
<1>8. QED
  BY <1>2, <1>3, <1>4, <1>5, <1>6, <1>7 DEF TypeOK

\* A step that several callbacks take leaves the worker and the wire alone, and the
\* thread in one of its places.
LEMMA SharedTyped ==
  ASSUME TypeOK, NEW t \in Threads, NEW from, NEW to \in Places, NEW goal \in Goals,
         \/ Cancels(t, from, to) \/ Posts(t, from, goal, to) \/ Puts(t, from, to)
         \/ Forgets(t, from, to) \/ Drains(t, from, to) \/ Looks(t, from, to)
  PROVE  TypeOK'
<1> USE DEF stickVars, flagVars, tickVars, boxVars, workVars, ctrlVars
<1>1. UNCHANGED <<stickVars, flagVars, tickVars, workVars, wire, reply, commanded, overshoot>>
  BY DEF Cancels, Posts, Puts, Forgets, Drains, Looks
<1>2. AwaitedOnce'
  BY <1>1, AwaitedKept DEF TypeOK
<1>3. at' \in [Threads -> Places]
  BY DEF Cancels, Posts, Puts, Forgets, Drains, Looks, Moves, TypeOK
<1>4. pending' \in Goals \cup {None} /\ queued' \in BOOLEAN
  BY DEF Cancels, Posts, Puts, Forgets, Drains, Looks, TypeOK
<1>5. running' \in {"none", "owned", "orphan"} /\ handle' \in BOOLEAN
  BY DEF Cancels, Posts, Puts, Forgets, Drains, Looks, TypeOK
<1>6. QED
  BY <1>1, <1>2, <1>3, <1>4, <1>5 DEF TypeOK

\* A step of one callback alone, but the one that fires.
LEMMA StepTyped ==
  ASSUME TypeOK, at' \in [Threads -> Places],
         UNCHANGED <<queued, workVars, wire, reply, running, handle, commanded>>,
         cmd' \subseteq Inputs, prev' \subseteq Inputs \cup {"firing_pitch"},
         held' \in [Threads -> SUBSET Inputs],
         heard' \in BOOLEAN, watchdog' \in BOOLEAN, jsWatchdog' \in BOOLEAN,
         homeReq' \in BOOLEAN, atHome' \in BOOLEAN, rearm' \in BOOLEAN, stale' \in BOOLEAN,
         firing' \in {"off", "pending", "active"},
         pending' \in Goals \cup {None}, overshoot' \in Nat
  PROVE  TypeOK'
<1>1. UNCHANGED <<worker, job>>
  BY DEF workVars
<1>2. AwaitedOnce'
  BY <1>1, AwaitedKept DEF TypeOK
<1>3. QED
  BY <1>1, <1>2 DEF TypeOK

\* A callback begins.
LEMMA StartTyped ==
  ASSUME TypeOK, NEW t \in Threads, Starts(t)
  PROVE  TypeOK'
<1> USE DEF stickVars, flagVars, tickVars, boxVars, workVars, ctrlVars
<1>1. CASE SbusArrives(t)
  BY <1>1, StepTyped DEF SbusArrives, Moves, TypeOK, Places
<1>2. CASE EntersFireMode(t)
  BY <1>2, StepTyped DEF EntersFireMode, Moves, TypeOK, Places
<1>3. CASE ExitsFireMode(t)
  BY <1>3, StepTyped DEF ExitsFireMode, Moves, TypeOK, Places
<1>4. CASE HearsJoints(t)
  BY <1>4, StepTyped DEF HearsJoints, Moves, TypeOK, Places
<1>5. CASE WatchdogBlocks(t)
  BY <1>5, StepTyped DEF WatchdogBlocks, Moves, TypeOK, Places
<1>6. CASE \/ Posts(t, "idle", "test", "put") \/ WatchdogWakes(t) \/ TickWakes(t)
  BY <1>6, SharedTyped DEF WatchdogWakes, TickWakes, Places, Goals
<1>7. QED
  BY <1>1, <1>2, <1>3, <1>4, <1>5, <1>6 DEF Starts

\* A message and a HOME request go on.
LEMMA HomingTyped ==
  ASSUME TypeOK, NEW t \in Threads, Homing(t)
  PROVE  TypeOK'
<1> USE DEF stickVars, flagVars, tickVars, boxVars, workVars, ctrlVars
<1>1. ASSUME NEW mode \in {"ARM", "DRIVE", "HOME"}, NEW inputs \in SUBSET Inputs,
             SbusLatches(t, mode, inputs)
      PROVE  TypeOK'
  <2>1. Latched(mode, inputs) \subseteq Inputs
    BY DEF Latched
  <2>2. QED
    BY <1>1, <2>1, StepTyped DEF SbusLatches, Moves, TypeOK, Places
<1>2. CASE SbusHomes(t)
  BY <1>2, StepTyped DEF SbusHomes, Moves, TypeOK, Places, Goals
<1>3. CASE Requests(t)
  BY <1>3, StepTyped DEF Requests, Moves, TypeOK, Places
<1>4. CASE \/ Posts(t, "fire", "HOME", "request")
           \/ Cancels(t, "homeCancel", "homePut") \/ Puts(t, "homePut", "idle")
  BY <1>4, SharedTyped DEF Places, Goals
<1>5. QED
  BY <1>1, <1>2, <1>3, <1>4 DEF Homing

\* The watchdog goes on.
LEMMA WatchingTyped ==
  ASSUME TypeOK, NEW t \in Threads, Watching(t)
  PROVE  TypeOK'
<1> USE DEF stickVars, flagVars, tickVars, boxVars, workVars, ctrlVars
<1>1. CASE WatchdogFlags(t)
  BY <1>1, StepTyped DEF WatchdogFlags, Moves, TypeOK, Places
<1>2. CASE WatchdogZeroes(t)
  BY <1>2, StepTyped DEF WatchdogZeroes, Moves, TypeOK, Places
<1>3. CASE \/ Cancels(t, "jointCancel", "elapsed") \/ Looks(t, "elapsed", "idle")
           \/ Cancels(t, "lostCancel", "lostZero")
           \/ Forgets(t, "lostForget", "lostDrain") \/ Drains(t, "lostDrain", "idle")
  <2>1. "elapsed" \in Places /\ "idle" \in Places /\ "lostZero" \in Places
        /\ "lostDrain" \in Places /\ "HOME" \in Goals
    BY DEF Places, Goals
  <2>2. QED
    BY <1>3, <2>1, SharedTyped
<1>4. QED
  BY <1>1, <1>2, <1>3 DEF Watching

\* An arm tick goes on.
LEMMA TickingTyped ==
  ASSUME TypeOK, NEW t \in Threads, Ticking(t)
  PROVE  TypeOK'
<1> USE DEF stickVars, flagVars, tickVars, boxVars, workVars, ctrlVars
<1>1. CASE TickReads(t)
  BY <1>1, StepTyped DEF TickReads, Moves, TypeOK, Places
<1>2. CASE MarksStale(t)
  BY <1>2, StepTyped DEF MarksStale, Moves, TypeOK, Places
<1>3. CASE TickHolds(t)
  BY <1>3, StepTyped DEF TickHolds, Moves, TypeOK, Places
<1>4. CASE TickDispatches(t)
  BY <1>4, StepTyped DEF TickDispatches, Moves, TypeOK, Places
<1>5. CASE TickFreshens(t)
  BY <1>5, StepTyped DEF TickFreshens, Moves, TypeOK, Places
<1>6. CASE TickReadsFiring(t)
  BY <1>6, StepTyped DEF TickReadsFiring, Moves, TypeOK, Places
<1>7. CASE TickFires(t)
  <2>1. Len(wire) \in Nat /\ MaxWire \in Nat
    BY CoordinatorAssumption DEF TypeOK
  <2>2. Len(wire) < MaxWire /\ wire' = Append(wire, FALSE)
    BY <1>7, <2>1 DEF TickFires
  <2>3. wire' \in Seq(BOOLEAN) /\ Len(wire') <= MaxWire
    BY <2>2, AppendTyped
  <2>4. \A i \in DOMAIN wire' : wire'[i] => i \in DOMAIN wire /\ wire[i]
    BY <2>2, AppendTyped
  <2>5. AwaitedOnce'
    BY <1>7, <2>4 DEF TickFires, TypeOK, AwaitedOnce
  <2>6. at' \in [Threads -> Places] /\ commanded' \in BOOLEAN
    BY <1>7 DEF TickFires, Moves, TypeOK, Places
  <2>7. QED
    BY <1>7, <2>3, <2>5, <2>6 DEF TickFires, TypeOK
<1>8. CASE \/ TickAsksHome(t) \/ Looks(t, "firing", "idle")
           \/ Cancels(t, "dropCancel", "dropMark") \/ Forgets(t, "dropForget", "dropDrain")
           \/ Drains(t, "dropDrain", "act") \/ Posts(t, "post", "stick", "fresh")
           \/ Puts(t, "put", "idle") \/ Cancels(t, "fireCancel", "idle")
  <2>1. /\ {"idle", "dropMark", "dropDrain", "act", "fresh"} \subseteq Places
        /\ (IF homeReq THEN "idle" ELSE "read") \in Places
        /\ "stick" \in Goals
    BY DEF Places, Goals
  <2>2. QED
    BY <1>8, <2>1, SharedTyped DEF TickAsksHome
<1>9. QED
  BY <1>1, <1>2, <1>3, <1>4, <1>5, <1>6, <1>7, <1>8 DEF Ticking

\* The arm controller answers the first request and leaves the others as they are.
LEMMA AnswerTyped ==
  ASSUME TypeOK, wire # <<>>, wire' = Tail(wire), UNCHANGED worker,
         Head(wire) => reply' \in {"accepted", "over"},
         ~Head(wire) => reply' = reply \/ (reply = "accepted" /\ reply' = "over")
  PROVE  /\ wire' \in Seq(BOOLEAN) /\ Len(wire') <= MaxWire
         /\ reply' \in {"none", "accepted", "over"}
         /\ reply' # "none" => worker' \in {"sending", "homeSending"}
         /\ AwaitedOnce'
<1>1. /\ Head(wire) \in BOOLEAN
      /\ wire' \in Seq(BOOLEAN) /\ Len(wire') <= MaxWire
      /\ Head(wire) => /\ reply = "none" /\ worker \in {"sending", "homeSending"}
                       /\ Unwaited(wire')
      /\ \A i \in DOMAIN wire' : wire'[i] =>
           /\ reply = "none" /\ worker \in {"sending", "homeSending"}
           /\ \A j \in DOMAIN wire' : wire'[j] => j = i
  BY TailTyped
<1>2. reply \in {"none", "accepted", "over"}
      /\ (reply # "none" => worker \in {"sending", "homeSending"})
  BY DEF TypeOK
<1>3. CASE Head(wire)
  <2>1. \A i \in DOMAIN wire' : ~wire'[i]
    BY <1>1, <1>3 DEF Unwaited
  <2>2. AwaitedOnce'
    BY <2>1 DEF AwaitedOnce
  <2>3. QED
    BY <1>1, <1>3, <2>2
<1>4. CASE ~Head(wire)
  <2>1. reply = "none" => reply' = "none"
    BY <1>4
  <2>2. AwaitedOnce'
    BY <1>1, <2>1 DEF AwaitedOnce
  <2>3. QED
    BY <1>1, <1>2, <1>4, <2>2
<1>5. QED
  BY <1>3, <1>4

\* An answer of the arm controller, or the end of a trajectory, keeps the types.
LEMMA ControllerTyped ==
  ASSUME TypeOK, ControllerAccepts \/ ControllerRejects \/ ControllerFinishes
  PROVE  TypeOK'
<1> USE DEF stickVars, flagVars, threadVars, tickVars, boxVars, workVars
<1>1. CASE ControllerAccepts
  <2>1. Head(wire) \in BOOLEAN
    BY <1>1, TailTyped DEF ControllerAccepts
  <2>2. /\ Head(wire) => reply' = "accepted"
        /\ ~Head(wire) => reply' = reply \/ (reply = "accepted" /\ reply' = "over")
    BY <1>1, <2>1 DEF ControllerAccepts
  <2>3. /\ wire' \in Seq(BOOLEAN) /\ Len(wire') <= MaxWire
        /\ reply' \in {"none", "accepted", "over"}
        /\ reply' # "none" => worker' \in {"sending", "homeSending"}
        /\ AwaitedOnce'
    BY <1>1, <2>2, AnswerTyped DEF ControllerAccepts
  <2>4. running' \in {"none", "owned", "orphan"} /\ handle' \in BOOLEAN
    BY <1>1 DEF ControllerAccepts
  <2>5. UNCHANGED <<stickVars, flagVars, threadVars, boxVars, workVars, commanded, overshoot>>
    BY <1>1 DEF ControllerAccepts
  <2>6. QED
    BY <2>3, <2>4, <2>5 DEF TypeOK
<1>2. CASE ControllerRejects
  <2>1. Head(wire) \in BOOLEAN
    BY <1>2, TailTyped DEF ControllerRejects
  <2>2. /\ Head(wire) => reply' = "over"
        /\ ~Head(wire) => reply' = reply
    BY <1>2, <2>1 DEF ControllerRejects
  <2>3. /\ wire' \in Seq(BOOLEAN) /\ Len(wire') <= MaxWire
        /\ reply' \in {"none", "accepted", "over"}
        /\ reply' # "none" => worker' \in {"sending", "homeSending"}
        /\ AwaitedOnce'
    BY <1>2, <2>2, AnswerTyped DEF ControllerRejects
  <2>4. UNCHANGED <<stickVars, flagVars, threadVars, boxVars, workVars, running, handle,
                    commanded, overshoot>>
    BY <1>2 DEF ControllerRejects
  <2>5. QED
    BY <2>3, <2>4 DEF TypeOK
<1>3. CASE ControllerFinishes
  <2>1. wire' = wire /\ worker' = worker
    BY <1>3 DEF ControllerFinishes, workVars
  <2>2. AwaitedOnce'
    BY <1>3, <2>1 DEF ControllerFinishes, TypeOK, AwaitedOnce
  <2>3. wire' \in Seq(BOOLEAN) /\ Len(wire') <= MaxWire
    BY <2>1 DEF TypeOK
  <2>4. /\ running' \in {"none", "owned", "orphan"} /\ handle' \in BOOLEAN
        /\ reply' \in {"none", "accepted", "over"}
        /\ reply' # "none" => worker' \in {"sending", "homeSending"}
    BY <1>3, <2>1 DEF ControllerFinishes, TypeOK
  <2>5. UNCHANGED <<stickVars, flagVars, threadVars, boxVars, workVars, commanded, overshoot>>
    BY <1>3 DEF ControllerFinishes
  <2>6. QED
    BY <2>2, <2>3, <2>4, <2>5 DEF TypeOK
<1>4. QED
  BY <1>1, <1>2, <1>3

\* The worker leaves its wait with no answer and no request it waits for.
LEMMA WaitOver ==
  ASSUME TypeOK, wire' = Unawaited, reply' = "none"
  PROVE  /\ wire' \in Seq(BOOLEAN) /\ Len(wire') <= MaxWire
         /\ AwaitedOnce'
<1>1. /\ wire' \in Seq(BOOLEAN) /\ Len(wire') = Len(wire)
      /\ Unwaited(wire')
  BY UnawaitedTyped
<1>2. AwaitedOnce'
  BY <1>1 DEF AwaitedOnce, Unwaited
<1>3. QED
  BY <1>1, <1>2 DEF TypeOK

\* The worker begins to wait for the request it appends.
LEMMA WaitBegins ==
  ASSUME TypeOK, Len(wire) < MaxWire, wire' = Append(wire, TRUE),
         worker \notin {"sending", "homeSending"}, worker' \in {"sending", "homeSending"},
         UNCHANGED reply
  PROVE  /\ wire' \in Seq(BOOLEAN) /\ Len(wire') <= MaxWire
         /\ reply' = "none"
         /\ AwaitedOnce'
<1>1. \A i \in DOMAIN wire : ~wire[i]
  BY DEF TypeOK, AwaitedOnce
<1>2. /\ wire' \in Seq(BOOLEAN) /\ Len(wire') <= MaxWire
      /\ \A i \in DOMAIN wire' : \/ i \in DOMAIN wire /\ wire'[i] = wire[i]
                               \/ i = Len(wire) + 1
  BY AppendTyped
<1>3. \A i \in DOMAIN wire' : wire'[i] => i = Len(wire) + 1
  BY <1>1, <1>2
<1>4. reply' = "none"
  BY DEF TypeOK
<1>5. QED
  BY <1>2, <1>3, <1>4 DEF AwaitedOnce

\* A step of the worker between its waits.
LEMMA WorkTyped ==
  ASSUME TypeOK, UNCHANGED <<stickVars, threadVars, wire, reply, running, handle>>,
         worker \notin {"sending", "homeSending"}, worker' \notin {"sending", "homeSending"},
         UNCHANGED <<watchdog, jsWatchdog, firing, atHome, commanded, overshoot>>,
         homeReq' \in BOOLEAN, rearm' \in BOOLEAN, stale' \in BOOLEAN, queued' \in BOOLEAN,
         pending' \in Goals \cup {None}, job' \in Goals \cup {None},
         worker' \in {"idle", "taking", "validate", "validated", "planning", "planned",
                      "send"} \cup HomePlaces,
         worker' \in {"idle", "taking"} <=> job' = None,
         worker' \in HomePlaces <=> job' = "HOME"
  PROVE  TypeOK'
<1>1. UNCHANGED <<cmd, heard, at, held, prev>>
  BY DEF stickVars, threadVars, tickVars
<1>2. reply' = "none" /\ AwaitedOnce'
  BY DEF TypeOK, AwaitedOnce
<1>3. worker' \in {"idle", "taking", "validate", "validated", "planning", "planned",
                   "send", "sending"} \cup HomePlaces
  OBVIOUS
<1>4. QED
  BY <1>1, <1>2, <1>3 DEF TypeOK

\* Each step of the worker keeps its place, its job and its request in agreement.
LEMMA WorkerTyped == TypeOK /\ Working => TypeOK'
<1> SUFFICES ASSUME TypeOK, Working PROVE TypeOK'
  OBVIOUS
<1> USE DEF flagVars, boxVars, workVars, ctrlVars
<1>a. None # "HOME" /\ None \notin Goals
  BY CoordinatorAssumption DEF Goals
<1>1. CASE TakeEvent
  BY <1>1, WorkTyped DEF TakeEvent, TypeOK, HomePlaces
<1>2. CASE GrabGoal
  <2>1. /\ job' \in Goals \cup {None}
        /\ worker' \in {"idle", "validate", "homeClear"}
        /\ worker' = "idle" <=> job' = None
        /\ worker' = "homeClear" <=> job' = "HOME"
    BY <1>2, <1>a DEF GrabGoal, EnterHome, JobOver, TypeOK, Goals
  <2>2. QED
    BY <1>2, <2>1, WorkTyped DEF GrabGoal, TypeOK, HomePlaces
<1>3. ASSUME NEW ok \in BOOLEAN, Validate(ok) PROVE TypeOK'
  <2>1. /\ job' \in Goals \cup {None} /\ rearm' \in BOOLEAN
        /\ worker' \in {"idle", "validated", "homeClear"}
        /\ worker' = "idle" <=> job' = None
        /\ worker' = "homeClear" <=> job' = "HOME"
    BY <1>3, <1>a DEF Validate, EnterHome, Rollback, JobOver, TypeOK, Goals, HomePlaces
  <2>2. QED
    BY <1>3, <2>1, WorkTyped DEF Validate, TypeOK, HomePlaces
<1>4. ASSUME NEW from \in {"validated", "planned"}, NEW to \in {"planning", "send"},
             ChecksStale(from, to)
      PROVE  TypeOK'
  <2>1. /\ job' \in Goals \cup {None}
        /\ worker' \in {"idle", "planning", "send"}
        /\ worker' = "idle" <=> job' = None
        /\ job' # "HOME"
    BY <1>4, <1>a DEF ChecksStale, JobOver, TypeOK, HomePlaces
  <2>2. QED
    BY <1>4, <2>1, WorkTyped DEF ChecksStale, TypeOK, HomePlaces
<1>5. CASE Plan
  <2>1. /\ job' \in Goals \cup {None} /\ rearm' \in BOOLEAN
        /\ worker' \in {"idle", "planned", "homeClear"}
        /\ worker' = "idle" <=> job' = None
        /\ worker' = "homeClear" <=> job' = "HOME"
    BY <1>5, <1>a DEF Plan, EnterHome, Rollback, JobOver, TypeOK, Goals, HomePlaces
  <2>2. QED
    BY <1>5, <2>1, WorkTyped DEF Plan, TypeOK, HomePlaces
<1>6. CASE Send
  <2>1. /\ wire' \in Seq(BOOLEAN) /\ Len(wire') <= MaxWire
        /\ reply' = "none" /\ AwaitedOnce'
    <3>1. CASE wire' = Append(wire, TRUE)
      BY <1>6, <3>1, WaitBegins DEF Send
    <3>2. CASE wire' = wire
      BY <1>6, <3>2 DEF Send, TypeOK, AwaitedOnce
    <3>3. QED
      BY <1>6, <3>1, <3>2 DEF Send
  <2>2. worker = "send" /\ worker' = "sending" /\ job # None /\ job # "HOME"
    BY <1>6 DEF Send, TypeOK, HomePlaces
  <2>3. overshoot' \in Nat
    <3>1. overshoot \in Nat
      BY DEF TypeOK
    <3>2. overshoot' = overshoot \/ overshoot' = overshoot + 1
      BY <1>6 DEF Send
    <3>3. QED
      BY <3>1, <3>2
  <2>4. UNCHANGED <<cmd, heard, flagVars, at, held, prev, boxVars, job,
                    running, handle, commanded>>
    BY <1>6 DEF Send, stickVars, threadVars, tickVars
  <2>5. QED
    BY <2>1, <2>2, <2>3, <2>4 DEF TypeOK, HomePlaces
<1>7. ASSUME NEW arrived \in BOOLEAN, Sent(arrived) PROVE TypeOK'
  <2>1. wire' = Unawaited /\ reply' = "none"
    BY <1>7 DEF Sent, SendReturns
  <2>2. /\ wire' \in Seq(BOOLEAN) /\ Len(wire') <= MaxWire
        /\ AwaitedOnce'
    BY <2>1, WaitOver
  <2>3. running' \in {"none", "owned", "orphan"} /\ handle' \in BOOLEAN
    BY <1>7 DEF Sent, SendReturns, KeepHandle, TypeOK
  <2>4. commanded' \in BOOLEAN /\ rearm' \in BOOLEAN
    BY <1>7 DEF Sent
  <2>5. worker' = "idle" /\ job' = None
    BY <1>7 DEF Sent, JobOver
  <2>6. UNCHANGED <<cmd, heard, watchdog, jsWatchdog, firing, homeReq, atHome, stale,
                    at, held, prev, boxVars, overshoot>>
    BY <1>7 DEF Sent, stickVars, threadVars, tickVars
  <2>7. QED
    BY <1>a, <2>1, <2>2, <2>3, <2>4, <2>5, <2>6 DEF TypeOK, HomePlaces
<1>8. CASE HomeClears \/ HomeForgets \/ HomeDrains
  <2>1. job = "HOME" /\ job' = "HOME" /\ worker' \in {"homeForget", "homeDrain", "homePlan"}
    BY <1>8 DEF HomeClears, HomeForgets, HomeDrains, TypeOK, HomePlaces
  <2>2. QED
    BY <1>8, <1>a, <2>1, WorkTyped DEF HomeClears, HomeForgets, HomeDrains, TypeOK, HomePlaces
<1>9. CASE HomePlan
  <2>1. /\ wire' \in Seq(BOOLEAN) /\ Len(wire') <= MaxWire
        /\ reply' = "none" /\ AwaitedOnce'
    BY <1>9, WaitBegins DEF HomePlan
  <2>2. /\ worker = "homePlan" /\ worker' = "homeSending"
        /\ UNCHANGED <<cmd, heard, flagVars, at, held, prev, boxVars, job,
                       running, handle, commanded, overshoot>>
    BY <1>9 DEF HomePlan, stickVars, threadVars, tickVars
  <2>3. QED
    BY <2>1, <2>2 DEF TypeOK, HomePlaces
<1>10. CASE HomeSent
  <2>1. wire' = Unawaited /\ reply' = "none"
    BY <1>10 DEF HomeSent, SendReturns
  <2>2. /\ wire' \in Seq(BOOLEAN) /\ Len(wire') <= MaxWire
        /\ AwaitedOnce'
    BY <2>1, WaitOver
  <2>3. running' \in {"none", "owned", "orphan"} /\ handle' \in BOOLEAN
    BY <1>10 DEF HomeSent, SendReturns, KeepHandle, TypeOK
  <2>4. commanded' \in BOOLEAN /\ rearm' \in BOOLEAN /\ atHome' \in BOOLEAN
    BY <1>10 DEF HomeSent
  <2>5. worker' = "idle" /\ job' = None /\ firing' \in {"off", "pending", "active"}
    BY <1>10 DEF HomeSent, JobOver, TypeOK
  <2>6. UNCHANGED <<cmd, heard, watchdog, jsWatchdog, homeReq, stale, at, held, prev,
                    boxVars, overshoot>>
    BY <1>10 DEF HomeSent, stickVars, threadVars, tickVars
  <2>7. QED
    BY <1>a, <2>1, <2>2, <2>3, <2>4, <2>5, <2>6 DEF TypeOK, HomePlaces
<1>11. CASE WorkerFails
  <2>1. wire' = Unawaited /\ reply' = "none"
    BY <1>11 DEF WorkerFails
  <2>2. /\ wire' \in Seq(BOOLEAN) /\ Len(wire') <= MaxWire
        /\ AwaitedOnce'
    BY <2>1, WaitOver
  <2>3. running' \in {"none", "owned", "orphan"}
    BY <1>11 DEF WorkerFails, TypeOK
  <2>4. worker' = "idle" /\ job' = None
    BY <1>11 DEF WorkerFails, JobOver
  <2>5. UNCHANGED <<cmd, heard, flagVars, at, held, prev, boxVars, handle, commanded,
                    overshoot>>
    BY <1>11 DEF WorkerFails, stickVars, threadVars, tickVars
  <2>6. QED
    BY <1>a, <2>1, <2>2, <2>3, <2>4, <2>5 DEF TypeOK, HomePlaces
<1>12. QED
  BY <1>1, <1>2, <1>3, <1>4, <1>5, <1>6, <1>7, <1>8, <1>9, <1>10, <1>11 DEF Working

\* The types survive every step.
LEMMA TypeNext == TypeOK /\ [Next]_vars => TypeOK'
<1> SUFFICES ASSUME TypeOK, [Next]_vars PROVE TypeOK'
  OBVIOUS
<1>1. CASE UNCHANGED vars
  BY <1>1, AwaitedKept DEF TypeOK, vars, stickVars, flagVars, threadVars, tickVars, boxVars,
     workVars, ctrlVars
<1>2. ASSUME NEW t \in Threads, Starts(t) \/ Continues(t) PROVE TypeOK'
  BY <1>2, StartTyped, HomingTyped, WatchingTyped, TickingTyped DEF Continues
<1>3. CASE ControllerAccepts \/ ControllerRejects \/ ControllerFinishes
  BY <1>3, ControllerTyped
<1>4. CASE Working
  BY <1>4, WorkerTyped
<1>5. QED
  BY <1>1, <1>2, <1>3, <1>4 DEF Next

\* The state variables have their types; of the requests on the wire the worker
\* waits for one at most.
THEOREM TypeCorrect == Spec => []TypeOK
<1>1. QED
  BY TypeInit, TypeNext, PTL DEF Spec

-----------------------------------------------------------------------------
(* What a thread shows to the worker and to the arm controller.            *)

\* A callback never touches the worker, nor the answer it waits for.
LEMMA ThreadsSparePipeline ==
  ASSUME NEW t \in Threads, Starts(t) \/ Continues(t)
  PROVE  UNCHANGED <<worker, job, reply>>
<1>1. CASE Starts(t)
  BY <1>1 DEF Starts, SbusArrives, EntersFireMode, ExitsFireMode, HearsJoints, WatchdogWakes,
     WatchdogBlocks, TickWakes, Posts, Looks, workVars, ctrlVars
<1>2. CASE Homing(t)
  BY <1>2 DEF Homing, SbusLatches, SbusHomes, Requests, Posts, Cancels, Puts, workVars,
     ctrlVars
<1>3. CASE Watching(t)
  BY <1>3 DEF Watching, WatchdogFlags, WatchdogZeroes, Cancels, Looks, Forgets, Drains,
     workVars, ctrlVars
<1>4. CASE Ticking(t)
  BY <1>4 DEF Ticking, TickAsksHome, TickReads, MarksStale, TickHolds, TickDispatches,
     TickFreshens, TickReadsFiring, TickFires, Cancels, Forgets, Drains, Posts, Puts, Looks,
     workVars, ctrlVars
<1>5. QED
  BY <1>1, <1>2, <1>3, <1>4 DEF Continues

\* What it does to a trajectory that runs is to cancel it through the handle.
LEMMA ThreadsCancelByHandle ==
  ASSUME NEW t \in Threads, Starts(t) \/ Continues(t)
  PROVE  \/ UNCHANGED <<running, handle>>
         \/ handle' = FALSE /\ running' = IF handle THEN "none" ELSE running
<1>1. CASE Starts(t)
  BY <1>1 DEF Starts, SbusArrives, EntersFireMode, ExitsFireMode, HearsJoints, WatchdogWakes,
     WatchdogBlocks, TickWakes, Posts, Looks, ctrlVars
<1>2. CASE Homing(t)
  BY <1>2 DEF Homing, SbusLatches, SbusHomes, Requests, Posts, Cancels, Puts, ctrlVars
<1>3. CASE Watching(t)
  BY <1>3 DEF Watching, WatchdogFlags, WatchdogZeroes, Cancels, Looks, Forgets, Drains,
     ctrlVars
<1>4. CASE Ticking(t)
  BY <1>4 DEF Ticking, TickAsksHome, TickReads, MarksStale, TickHolds, TickDispatches,
     TickFreshens, TickReadsFiring, TickFires, Cancels, Forgets, Drains, Posts, Puts, Looks,
     ctrlVars
<1>5. QED
  BY <1>1, <1>2, <1>3, <1>4 DEF Continues

\* The box keeps its goal, is emptied, or gets another.
LEMMA ThreadsUseBox ==
  ASSUME NEW t \in Threads, Starts(t) \/ Continues(t)
  PROVE  UNCHANGED pending \/ pending' \in Goals \cup {None}
<1> USE DEF Goals
<1>1. CASE Starts(t)
  BY <1>1 DEF Starts, SbusArrives, EntersFireMode, ExitsFireMode, HearsJoints, WatchdogWakes,
     WatchdogBlocks, TickWakes, Posts, Looks, boxVars
<1>2. CASE Homing(t)
  BY <1>2 DEF Homing, SbusLatches, SbusHomes, Requests, Posts, Cancels, Puts, boxVars
<1>3. CASE Watching(t)
  BY <1>3 DEF Watching, WatchdogFlags, WatchdogZeroes, Cancels, Looks, Forgets, Drains,
     boxVars
<1>4. CASE Ticking(t)
  BY <1>4 DEF Ticking, TickAsksHome, TickReads, MarksStale, TickHolds, TickDispatches,
     TickFreshens, TickReadsFiring, TickFires, Cancels, Forgets, Drains, Posts, Puts, Looks,
     boxVars
<1>5. QED
  BY <1>1, <1>2, <1>3, <1>4 DEF Continues

-----------------------------------------------------------------------------
(* Whoever cancels finds the trajectory the worker started.                *)

\* No step leaves an accepted trajectory without a handle someone holds.
LEMMA CancelNext == TypeOK /\ RunningCanBeCancelled /\ [Next]_vars => RunningCanBeCancelled'
<1> SUFFICES ASSUME TypeOK, RunningCanBeCancelled, [Next]_vars
             PROVE  RunningCanBeCancelled'
  OBVIOUS
<1>1. ASSUME UNCHANGED <<running, handle, reply>> PROVE RunningCanBeCancelled'
  BY <1>1 DEF RunningCanBeCancelled
<1>2. CASE UNCHANGED vars
  BY <1>1, <1>2 DEF vars, ctrlVars
<1>3. ASSUME NEW t \in Threads, Starts(t) \/ Continues(t) PROVE RunningCanBeCancelled'
  <2>1. reply' = reply
    BY <1>3, ThreadsSparePipeline
  <2>2. CASE handle' = FALSE /\ running' = IF handle THEN "none" ELSE running
    BY <2>1, <2>2 DEF RunningCanBeCancelled
  <2>3. QED
    BY <1>1, <1>3, <2>1, <2>2, ThreadsCancelByHandle
<1>4. CASE ControllerAccepts
  <2>1. Head(wire) \in BOOLEAN
    BY <1>4, TailTyped DEF ControllerAccepts
  <2>2. CASE Head(wire)
    BY <1>4, <2>2 DEF ControllerAccepts, RunningCanBeCancelled
  <2>3. CASE ~Head(wire)
    BY <1>4, <2>3 DEF ControllerAccepts, RunningCanBeCancelled
  <2>4. QED
    BY <2>1, <2>2, <2>3
<1>5. CASE ControllerRejects
  <2>1. Head(wire) \in BOOLEAN /\ (Head(wire) => reply = "none")
    BY <1>5, TailTyped DEF ControllerRejects
  <2>2. QED
    BY <1>5, <2>1 DEF ControllerRejects, RunningCanBeCancelled
<1>6. CASE ControllerFinishes
  BY <1>6 DEF ControllerFinishes, RunningCanBeCancelled
<1>7. CASE Working
  <2>1. CASE \/ TakeEvent \/ GrabGoal \/ (\E ok \in BOOLEAN : Validate(ok))
             \/ ChecksStale("validated", "planning") \/ Plan \/ ChecksStale("planned", "send")
             \/ Send \/ HomeClears \/ HomeForgets \/ HomeDrains \/ HomePlan
    BY <1>1, <2>1 DEF TakeEvent, GrabGoal, Validate, ChecksStale, Plan, Send, HomeClears,
       HomeForgets, HomeDrains, HomePlan, ctrlVars
  <2>2. CASE (\E arrived \in BOOLEAN : Sent(arrived)) \/ HomeSent
    BY <2>2 DEF Sent, HomeSent, SendReturns, KeepHandle, RunningCanBeCancelled
  <2>3. CASE WorkerFails
    BY <2>3 DEF WorkerFails, RunningCanBeCancelled
  <2>4. QED
    BY <1>7, <2>1, <2>2, <2>3 DEF Working
<1>8. QED
  BY <1>2, <1>3, <1>4, <1>5, <1>6, <1>7 DEF Next

\* A trajectory the worker saw accepted is never out of reach of the watchdogs, a
\* release or HOME: its handle is stored or about to be.
THEOREM RunningAlwaysCancellable == Spec => []RunningCanBeCancelled
<1>1. Init => RunningCanBeCancelled
  BY DEF Init, RunningCanBeCancelled
<1>2. QED
  BY <1>1, CancelNext, TypeCorrect, PTL DEF Spec

-----------------------------------------------------------------------------
(* The pipeline is the mailbox.                                            *)

\* At the start the box and the pipeline are empty.
LEMMA MailboxInit == Init => Mailbox!Init
BY DEF Init, Mailbox!Init

\* Every step of the coordinator is a step of the mailbox, or does not show there.
LEMMA MailboxStep == TypeOK /\ [Next]_vars => [Mailbox!Next]_(Mailbox!vars)
<1> SUFFICES ASSUME TypeOK, [Next]_vars
             PROVE  Mailbox!Next \/ UNCHANGED <<pending, job>>
  BY DEF Mailbox!vars
<1> USE DEF boxVars, workVars
<1>1. CASE UNCHANGED vars
  BY <1>1 DEF vars
<1>2. ASSUME NEW t \in Threads, Starts(t) \/ Continues(t)
      PROVE  Mailbox!Next \/ UNCHANGED <<pending, job>>
  <2>1. job' = job /\ (UNCHANGED pending \/ pending' \in Goals \cup {None})
    BY <1>2, ThreadsSparePipeline, ThreadsUseBox
  <2>2. QED
    BY <2>1 DEF Mailbox!Next, Mailbox!Post, Mailbox!Withdraw
<1>3. CASE ControllerAccepts \/ ControllerRejects \/ ControllerFinishes
  BY <1>3 DEF ControllerAccepts, ControllerRejects, ControllerFinishes
<1>4. CASE Working
  <2>1. ASSUME JobOver, job # None, UNCHANGED pending PROVE Mailbox!Next
    BY <2>1 DEF JobOver, Mailbox!Next, Mailbox!Finish
  <2>2. ASSUME EnterHome, job \notin {None, "HOME"}, UNCHANGED pending PROVE Mailbox!Next
    BY <2>2 DEF EnterHome, Mailbox!Next, Mailbox!Preempt
  <2>3. CASE GrabGoal
    <3>1. job = None /\ pending' = None
      BY <2>3 DEF GrabGoal, TypeOK
    <3>2. CASE EnterHome /\ pending # None
      BY <3>1, <3>2 DEF EnterHome, Mailbox!Next, Mailbox!Take
    <3>3. CASE job' = pending /\ pending # None
      BY <3>1, <3>3 DEF Mailbox!Next, Mailbox!Take
    <3>4. CASE JobOver /\ pending = None
      BY <3>1, <3>4 DEF JobOver
    <3>5. QED
      BY <2>3, <3>2, <3>3, <3>4, CoordinatorAssumption DEF GrabGoal
  <2>4. CASE (\E ok \in BOOLEAN : Validate(ok)) \/ Plan
             \/ ChecksStale("validated", "planning") \/ ChecksStale("planned", "send")
    <3>1. job \notin {None, "HOME"}
      BY <2>4 DEF Validate, Plan, ChecksStale, TypeOK, HomePlaces
    <3>2. QED
      BY <2>1, <2>2, <2>4, <3>1 DEF Validate, Plan, ChecksStale, Rollback
  <2>5. CASE HomeForgets
    BY <2>5 DEF HomeForgets, Mailbox!Next, Mailbox!Withdraw
  <2>6. CASE TakeEvent \/ Send \/ HomeClears \/ HomeDrains \/ HomePlan
    BY <2>6 DEF TakeEvent, Send, HomeClears, HomeDrains, HomePlan
  <2>7. CASE (\E arrived \in BOOLEAN : Sent(arrived)) \/ HomeSent \/ WorkerFails
    <3>1. job # None
      BY <2>7 DEF Sent, HomeSent, WorkerFails, TypeOK
    <3>2. QED
      BY <2>1, <2>7, <3>1 DEF Sent, HomeSent, WorkerFails
  <2>8. QED
    BY <1>4, <2>3, <2>4, <2>5, <2>6, <2>7 DEF Working
<1>5. QED
  BY <1>1, <1>2, <1>3, <1>4 DEF Next

\* The coordinator implements ArmMailbox: one job at a time, a goal taken at most
\* once, the latest one kept, and only HOME replaces a job.
THEOREM CoordinatorIsMailbox == Spec => IsMailbox
<1>1. QED
  BY MailboxInit, MailboxStep, TypeCorrect, PTL DEF Spec, IsMailbox, Mailbox!Spec

-----------------------------------------------------------------------------
(* What is still sent after the link is lost.                              *)

\* The ticks past their look at the watchdog's flag that have not posted yet.
LatePlaces ==
  {"look", "read", "dropCancel", "dropMark", "dropForget", "dropDrain", "act", "post"}
Late == {t \in Threads : at[t] \in LatePlaces}

\* A stick goal waits in the box; the worker has one it has not sent.
Waiting == pending = "stick"
Unsent == /\ job = "stick"
          /\ worker \in {"validate", "validated", "planning", "planned", "send"}

\* LinkLossOvershoot does not say what may still come; this does: each late tick
\* posts one goal at most, the box holds one, the worker one.
OvershootInv ==
  /\ ~watchdog => overshoot = 0
  /\ watchdog =>
       /\ overshoot + Cardinality(Late) <= 1 + Cardinality(Threads)
       /\ Waiting \/ Unsent => overshoot + Cardinality(Late) <= Cardinality(Threads)
       /\ Waiting /\ Unsent => overshoot + Cardinality(Late) + 1 <= Cardinality(Threads)

\* There are no more late ticks than threads, and one fewer after each.
LEMMA LateTicks ==
  /\ IsFiniteSet(Late)
  /\ Cardinality(Threads) \in Nat /\ Cardinality(Late) \in Nat
  /\ Cardinality(Late) <= Cardinality(Threads)
  /\ \A t \in Late : /\ Cardinality(Late \ {t}) = Cardinality(Late) - 1
                     /\ Cardinality(Late \ {t}) \in Nat
<1>1. IsFiniteSet(Threads) /\ Late \subseteq Threads
  BY CoordinatorAssumption DEF Late
<1>2. IsFiniteSet(Late) /\ Cardinality(Late) <= Cardinality(Threads)
  BY <1>1, FS_Subset
<1>3. Cardinality(Threads) \in Nat /\ Cardinality(Late) \in Nat
  BY <1>1, <1>2, FS_CardinalityType
<1>4. \A t \in Late : Cardinality(Late \ {t}) = Cardinality(Late) - 1
  BY <1>2, FS_RemoveElement
<1>5. \A t \in Late : Cardinality(Late \ {t}) \in Nat
  BY <1>2, FS_RemoveElement, FS_CardinalityType
<1>6. QED
  BY <1>2, <1>3, <1>4, <1>5

\* What leaves the box, the worker and the ticks no fuller keeps the bound.
LEMMA OvershootKept ==
  ASSUME TypeOK, OvershootInv, UNCHANGED <<watchdog, overshoot>>,
         Waiting' => Waiting, Unsent' => Unsent, Late' \subseteq Late
  PROVE  OvershootInv'
<1>1. overshoot \in Nat
  BY DEF TypeOK
<1>2. IsFiniteSet(Late') /\ Cardinality(Late') <= Cardinality(Late)
  BY LateTicks, FS_Subset
<1>3. Cardinality(Late') \in Nat
  BY <1>2, FS_CardinalityType
<1>4. QED
  BY <1>1, <1>2, <1>3, LateTicks DEF OvershootInv

\* A thread that is not late does not become so but by waking.
LEMMA LateMoves ==
  ASSUME TypeOK, NEW t \in Threads, NEW from, NEW to, Moves(t, from, to)
  PROVE  /\ from \in LatePlaces \/ to \notin LatePlaces => Late' \subseteq Late
         /\ from \in LatePlaces /\ to \notin LatePlaces => t \in Late /\ Late' = Late \ {t}
<1>1. at[t] = from /\ at'[t] = to /\ \A u \in Threads \ {t} : at'[u] = at[u]
  BY DEF Moves, TypeOK
<1>2. QED
  BY <1>1 DEF Late

\* What a thread does next leaves the bound, unless it sees the link come or go, or
\* a tick wakes or posts: it goes no place that is late from one that is not.
LEMMA StepKeepsBound ==
  ASSUME TypeOK, OvershootInv, NEW t \in Threads, NEW from, NEW to, Moves(t, from, to),
         from \in LatePlaces \/ to \notin LatePlaces,
         UNCHANGED <<watchdog, overshoot, worker, job>>,
         pending' # "stick" \/ UNCHANGED pending
  PROVE  OvershootInv'
<1>1. (Waiting' => Waiting) /\ (Unsent' => Unsent)
  BY DEF Waiting, Unsent
<1>2. QED
  BY <1>1, LateMoves, OvershootKept

\* The callbacks and the beginning of a tick.
LEMMA OvershootStarts ==
  ASSUME TypeOK, OvershootInv, NEW t \in Threads, Starts(t)
  PROVE  OvershootInv'
<1> USE DEF stickVars, flagVars, tickVars, boxVars, workVars, ctrlVars, LatePlaces
<1>1. CASE SbusArrives(t)
  BY <1>1 DEF SbusArrives, OvershootInv
<1>2. CASE TickWakes(t)
  BY <1>2 DEF TickWakes, Looks, OvershootInv
<1>3. CASE \/ EntersFireMode(t) \/ ExitsFireMode(t) \/ HearsJoints(t)
           \/ Posts(t, "idle", "test", "put") \/ WatchdogWakes(t) \/ WatchdogBlocks(t)
  BY <1>3, StepKeepsBound DEF EntersFireMode, ExitsFireMode, HearsJoints, Posts,
     WatchdogWakes, WatchdogBlocks, Looks
<1>4. QED
  BY <1>1, <1>2, <1>3 DEF Starts

\* A message, a HOME request.
LEMMA OvershootHoming ==
  ASSUME TypeOK, OvershootInv, NEW t \in Threads, Homing(t)
  PROVE  OvershootInv'
<1> USE DEF stickVars, flagVars, tickVars, boxVars, workVars, ctrlVars, LatePlaces
<1>1. ASSUME NEW mode \in {"ARM", "DRIVE", "HOME"}, NEW inputs \in SUBSET Inputs,
             SbusLatches(t, mode, inputs)
      PROVE  OvershootInv'
  <2>1. CASE Moves(t, "sbus", "home")
    BY <1>1, <2>1, StepKeepsBound DEF SbusLatches
  <2>2. CASE Moves(t, "sbus", "idle")
    BY <1>1, <2>2, StepKeepsBound DEF SbusLatches
  <2>3. QED
    BY <1>1, <2>1, <2>2 DEF SbusLatches
<1>2. CASE \/ SbusHomes(t) \/ Posts(t, "fire", "HOME", "request") \/ Requests(t)
           \/ Cancels(t, "homeCancel", "homePut") \/ Puts(t, "homePut", "idle")
  BY <1>2, StepKeepsBound DEF SbusHomes, Posts, Requests, Cancels, Puts
<1>3. QED
  BY <1>1, <1>2 DEF Homing

\* When the link is found lost the thread of the watchdog is in no tick, and nothing has
\* been sent: what may follow is in the worker, in the box and in the other threads.
LEMMA OvershootWatching ==
  ASSUME TypeOK, OvershootInv, NEW t \in Threads, Watching(t)
  PROVE  OvershootInv'
<1> USE DEF stickVars, flagVars, tickVars, boxVars, workVars, ctrlVars
<1>1. CASE WatchdogFlags(t)
  <2>1. Moves(t, "elapsed", "lostCancel") /\ watchdog' = TRUE
        /\ UNCHANGED <<overshoot, pending, worker, job>>
    BY <1>1 DEF WatchdogFlags
  <2>2. CASE watchdog
    <3>1. UNCHANGED watchdog
      BY <2>1, <2>2
    <3>2. "lostCancel" \notin LatePlaces
      BY DEF LatePlaces
    <3>3. QED
      BY <2>1, <3>1, <3>2, StepKeepsBound
  <2>3. CASE ~watchdog
    <3>1. overshoot' = 0
      BY <2>1, <2>3 DEF OvershootInv
    <3>2. t \in Threads \ Late /\ Late' = Late
      BY <2>1 DEF Late, LatePlaces, Moves, TypeOK
    <3>3. IsFiniteSet(Threads) /\ Late \subseteq Threads \ {t}
      BY <3>2, CoordinatorAssumption DEF Late
    <3>4. /\ IsFiniteSet(Threads \ {t})
          /\ Cardinality(Threads \ {t}) = Cardinality(Threads) - 1
      BY <3>3, FS_RemoveElement
    <3>5. Cardinality(Late) <= Cardinality(Threads) - 1
      BY <3>3, <3>4, FS_Subset
    <3>6. Cardinality(Late') = Cardinality(Late)
      BY <3>2
    <3>7. QED
      BY <2>1, <3>1, <3>5, <3>6, LateTicks DEF OvershootInv
  <2>4. QED
    BY <2>2, <2>3
<1>2. CASE \/ Cancels(t, "jointCancel", "elapsed") \/ Looks(t, "elapsed", "idle")
           \/ Cancels(t, "lostCancel", "lostZero") \/ WatchdogZeroes(t)
           \/ Forgets(t, "lostForget", "lostDrain") \/ Drains(t, "lostDrain", "idle")
  BY <1>2, StepKeepsBound, CoordinatorAssumption
     DEF Cancels, Looks, WatchdogZeroes, Forgets, Drains, LatePlaces
<1>3. QED
  BY <1>1, <1>2 DEF Watching

\* A tick puts one goal into the box and is late no more.
LEMMA OvershootTicking ==
  ASSUME TypeOK, OvershootInv, NEW t \in Threads, Ticking(t)
  PROVE  OvershootInv'
<1> USE DEF stickVars, flagVars, tickVars, boxVars, workVars, ctrlVars
<1>1. CASE Posts(t, "post", "stick", "fresh")
  <2>1. t \in Late /\ Late' = Late \ {t}
    BY <1>1, LateMoves DEF Posts, LatePlaces
  <2>2. Cardinality(Late') = Cardinality(Late) - 1
    BY <2>1, LateTicks
  <2>3. (Unsent' => Unsent) /\ UNCHANGED <<watchdog, overshoot>>
    BY <1>1 DEF Posts, Unsent
  <2>4. overshoot \in Nat
    BY DEF TypeOK
  <2>5. QED
    BY <2>2, <2>3, <2>4, LateTicks DEF OvershootInv
<1>2. CASE TickAsksHome(t)
  <2>1. PICK to \in {"idle", "read"} : Looks(t, "look", to)
    BY <1>2 DEF TickAsksHome
  <2>2. QED
    BY <2>1, StepKeepsBound DEF Looks, LatePlaces
<1>3. CASE TickReads(t)
  <2>1. PICK to : Moves(t, "read", to)
    BY <1>3 DEF TickReads
  <2>2. QED
    BY <1>3, <2>1, StepKeepsBound DEF TickReads, LatePlaces
<1>4. CASE TickReadsFiring(t)
  <2>1. PICK to : Moves(t, "read", to)
    BY <1>4 DEF TickReadsFiring
  <2>2. QED
    BY <1>4, <2>1, StepKeepsBound DEF TickReadsFiring, LatePlaces
<1>5. CASE \/ Cancels(t, "dropCancel", "dropMark") \/ MarksStale(t)
           \/ Forgets(t, "dropForget", "dropDrain") \/ Drains(t, "dropDrain", "act")
           \/ TickHolds(t) \/ TickDispatches(t)
  BY <1>5, StepKeepsBound, CoordinatorAssumption
     DEF Cancels, MarksStale, Forgets, Drains, TickHolds, TickDispatches, LatePlaces
<1>6. CASE \/ TickFreshens(t) \/ Puts(t, "put", "idle") \/ Cancels(t, "fireCancel", "idle")
           \/ TickFires(t) \/ Looks(t, "firing", "idle")
  BY <1>6, StepKeepsBound DEF TickFreshens, Puts, Cancels, TickFires, Looks, LatePlaces
<1>7. QED
  BY <1>1, <1>2, <1>3, <1>4, <1>5, <1>6 DEF Ticking

\* What the worker sends it had in hand, and it has one goal at a time.
LEMMA OvershootWorking ==
  ASSUME TypeOK, OvershootInv, Working
  PROVE  OvershootInv'
<1> USE DEF stickVars, flagVars, threadVars, tickVars, boxVars, workVars, ctrlVars
<1>a. UNCHANGED at => Late' = Late
  BY DEF Late
<1>b. ASSUME UNCHANGED <<at, watchdog, overshoot>>,
             Waiting' => Waiting, Unsent' => Unsent
      PROVE  OvershootInv'
  BY <1>a, <1>b, OvershootKept
<1>1. CASE GrabGoal
  <2>1. Late' = Late /\ UNCHANGED <<watchdog, overshoot>>
    BY <1>1, <1>a DEF GrabGoal
  <2>2. ~Unsent /\ ~Waiting' /\ (Unsent' => Waiting)
    BY <1>1, CoordinatorAssumption DEF GrabGoal, EnterHome, JobOver, Waiting, Unsent
  <2>3. overshoot \in Nat
    BY DEF TypeOK
  <2>4. QED
    BY <2>1, <2>2, <2>3, LateTicks DEF OvershootInv
<1>2. CASE Send
  <2>1. Late' = Late /\ watchdog' = watchdog /\ (Waiting' => Waiting)
    BY <1>2, <1>a DEF Send, Waiting
  <2>2. ~Unsent' /\ overshoot \in Nat
    BY <1>2 DEF Send, Unsent, TypeOK
  <2>3. overshoot' = overshoot \/ (Unsent /\ watchdog /\ overshoot' = overshoot + 1)
    BY <1>2 DEF Send, Unsent
  <2>4. QED
    BY <2>1, <2>2, <2>3, LateTicks DEF OvershootInv
<1>3. CASE TakeEvent
  BY <1>3, <1>b DEF TakeEvent, Waiting, Unsent
<1>4. CASE \/ (\E ok \in BOOLEAN : Validate(ok)) \/ Plan
           \/ ChecksStale("validated", "planning") \/ ChecksStale("planned", "send")
  <2>1. Waiting' => Waiting
    BY <1>4 DEF Validate, Plan, ChecksStale, Waiting
  <2>2. Unsent' => Unsent
    BY <1>4, CoordinatorAssumption DEF Validate, Plan, ChecksStale, EnterHome, Rollback,
       JobOver, Unsent
  <2>3. QED
    BY <1>4, <1>b, <2>1, <2>2 DEF Validate, Plan, ChecksStale
<1>5. CASE HomeClears \/ HomeForgets \/ HomeDrains \/ HomePlan
  <2>1. job' = "HOME" /\ (Waiting' => Waiting)
    BY <1>5, CoordinatorAssumption DEF HomeClears, HomeForgets, HomeDrains, HomePlan,
       HomePlaces, TypeOK, Waiting
  <2>2. QED
    BY <1>5, <1>b, <2>1 DEF HomeClears, HomeForgets, HomeDrains, HomePlan, Unsent
<1>6. CASE (\E arrived \in BOOLEAN : Sent(arrived)) \/ HomeSent \/ WorkerFails
  <2>1. job' = None /\ (Waiting' => Waiting)
    BY <1>6 DEF Sent, HomeSent, WorkerFails, JobOver, Waiting
  <2>2. QED
    BY <1>6, <1>b, <2>1, CoordinatorAssumption DEF Sent, HomeSent, WorkerFails, Unsent
<1>7. QED
  BY <1>1, <1>2, <1>3, <1>4, <1>5, <1>6 DEF Working

\* What is sent after the link was lost was in hand when it was: in the worker, in a
\* tick, or in the box.
LEMMA OvershootNext == TypeOK /\ OvershootInv /\ [Next]_vars => OvershootInv'
<1> SUFFICES ASSUME TypeOK, OvershootInv, [Next]_vars
             PROVE  OvershootInv'
  OBVIOUS
<1> USE DEF flagVars, threadVars, boxVars, workVars, ctrlVars
<1>1. ASSUME UNCHANGED <<at, watchdog, overshoot, pending, worker, job>> PROVE OvershootInv'
  <2>1. Late' = Late /\ (Waiting' => Waiting) /\ (Unsent' => Unsent)
    BY <1>1 DEF Late, Waiting, Unsent
  <2>2. QED
    BY <1>1, <2>1, OvershootKept
<1>2. CASE UNCHANGED vars
  BY <1>1, <1>2 DEF vars
<1>3. CASE ControllerAccepts \/ ControllerRejects \/ ControllerFinishes
  BY <1>1, <1>3 DEF ControllerAccepts, ControllerRejects, ControllerFinishes
<1>4. ASSUME NEW t \in Threads, Starts(t) \/ Continues(t) PROVE OvershootInv'
  BY <1>4, OvershootStarts, OvershootHoming, OvershootWatching, OvershootTicking
     DEF Continues
<1>5. QED
  BY <1>2, <1>3, <1>4, OvershootWorking DEF Next

\* After the link is declared lost at most the worker's goal, the one in the box and one
\* of each thread that was in an arm tick are still sent, however many threads there are;
\* the thread that declared it was in none.
THEOREM OvershootBounded == Spec => []LinkLossOvershoot
<1>1. Init => OvershootInv
  BY DEF Init, OvershootInv
<1>2. TypeOK /\ OvershootInv => LinkLossOvershoot
  <2>1. TypeOK => overshoot \in Nat /\ watchdog \in BOOLEAN
    BY DEF TypeOK
  <2>2. QED
    BY <2>1, LateTicks DEF OvershootInv, LinkLossOvershoot
<1>3. QED
  BY <1>1, <1>2, OvershootNext, TypeCorrect, PTL DEF Spec

-----------------------------------------------------------------------------
(* What can lose a HOME.                                                   *)

\* A request that was set is on its way to its event, or is followed by it, and its goal
\* is in the box; it may have become another goal, and still stands for HOME.  With
\* HomeInFlight alone the worker may be busy with another goal and the queue empty.
Coming == \E t \in Threads : at[t] \in {"homeCancel", "homePut"}

InFlightInv ==
  /\ Asking # {} => pending # None
  /\ homeReq => \/ worker = "homeClear"
                \/ pending # None /\ (queued \/ worker = "taking" \/ Coming)

\* A step of a thread that takes nothing from the box or the queue, is not the last of a
\* HOME request and brings no new request.
LEMMA InFlightKept ==
  ASSUME TypeOK, InFlightInv, NEW t \in Threads, NEW from, NEW to, Moves(t, from, to),
         from \notin {"homeCancel", "homePut"} \/ to = "homePut",
         to # "request" \/ pending' # None,
         UNCHANGED <<homeReq, worker>>,
         UNCHANGED pending \/ pending' # None, UNCHANGED queued \/ queued'
  PROVE  InFlightInv'
<1>1. at[t] = from /\ at'[t] = to /\ \A u \in Threads \ {t} : at'[u] = at[u]
  BY DEF Moves, TypeOK
<1>2. Coming => Coming'
  BY <1>1 DEF Coming
<1>3. Asking' # {} => Asking # {} \/ pending' # None
  BY <1>1 DEF Asking
<1>4. QED
  BY <1>2, <1>3 DEF InFlightInv

\* What empties the box or the queue finds no HOME that was asked for.
LEMMA SweepSparesHome ==
  ASSUME TypeOK, HomeIsSpared, NEW t \in Threads, NEW from \in Sweeping, NEW to,
         Moves(t, from, to), to \in {"dropDrain", "lostDrain", "act", "idle"},
         UNCHANGED homeReq
  PROVE  InFlightInv'
<1>1. at[t] = from /\ at'[t] = to /\ \A u \in Threads \ {t} : at'[u] = at[u]
  BY DEF Moves, TypeOK
<1>2. ~homeReq /\ Asking = {}
  BY <1>1 DEF HomeIsSpared
<1>3. Asking' = {}
  BY <1>1, <1>2 DEF Asking
<1>4. QED
  BY <1>2, <1>3 DEF InFlightInv

\* A callback leaves a HOME that was asked for its goal and its event.
LEMMA InFlightThreads ==
  ASSUME TypeOK, InFlightInv, HomeIsSpared, NEW t \in Threads, Starts(t) \/ Continues(t)
  PROVE  InFlightInv'
<1> USE CoordinatorAssumption DEF stickVars, flagVars, tickVars, boxVars, workVars, ctrlVars
<1>1. CASE Starts(t)
  BY <1>1, InFlightKept DEF Starts, SbusArrives, EntersFireMode, ExitsFireMode, HearsJoints,
     WatchdogWakes, WatchdogBlocks, TickWakes, Posts, Looks
<1>2. CASE Homing(t)
  <2>1. ASSUME NEW mode \in {"ARM", "DRIVE", "HOME"}, NEW inputs \in SUBSET Inputs,
               SbusLatches(t, mode, inputs)
        PROVE  InFlightInv'
    <3>1. PICK to \in {"home", "idle"} : Moves(t, "sbus", to)
      BY <2>1 DEF SbusLatches
    <3>2. QED
      BY <2>1, <3>1, InFlightKept DEF SbusLatches
  <2>2. CASE Requests(t)
    <3>1. at[t] = "request" /\ at'[t] = "homeCancel"
          /\ \A u \in Threads \ {t} : at'[u] = at[u]
      BY <2>2 DEF Requests, Moves, TypeOK
    <3>2. Asking # {} /\ Coming'
      BY <3>1 DEF Asking, Coming
    <3>3. pending' # None
      BY <2>2, <3>2 DEF Requests, InFlightInv
    <3>4. QED
      BY <3>2, <3>3 DEF InFlightInv
  <2>3. CASE Puts(t, "homePut", "idle")
    <3>1. at'[t] = "idle" /\ \A u \in Threads \ {t} : at'[u] = at[u]
      BY <2>3 DEF Puts, Moves, TypeOK
    <3>2. Asking' # {} => Asking # {}
      BY <3>1 DEF Asking
    <3>3. QED
      BY <2>3, <3>2 DEF Puts, InFlightInv
  <2>4. CASE \/ SbusHomes(t) \/ Posts(t, "fire", "HOME", "request")
             \/ Cancels(t, "homeCancel", "homePut")
    BY <2>4, InFlightKept DEF SbusHomes, Posts, Cancels
  <2>5. QED
    BY <1>2, <2>1, <2>2, <2>3, <2>4 DEF Homing
<1>3. CASE Watching(t)
  <2>1. CASE Forgets(t, "lostForget", "lostDrain") \/ Drains(t, "lostDrain", "idle")
    BY <2>1, SweepSparesHome DEF Forgets, Drains, Sweeping
  <2>2. CASE \/ Cancels(t, "jointCancel", "elapsed") \/ Looks(t, "elapsed", "idle")
             \/ WatchdogFlags(t) \/ Cancels(t, "lostCancel", "lostZero") \/ WatchdogZeroes(t)
    BY <2>2, InFlightKept DEF Cancels, Looks, WatchdogFlags, WatchdogZeroes
  <2>3. QED
    BY <1>3, <2>1, <2>2 DEF Watching
<1>4. CASE Ticking(t)
  <2>1. CASE Forgets(t, "dropForget", "dropDrain") \/ Drains(t, "dropDrain", "act")
    BY <2>1, SweepSparesHome DEF Forgets, Drains, Sweeping
  <2>2. CASE TickAsksHome(t)
    <3>1. PICK to \in {"idle", "read"} : Looks(t, "look", to)
      BY <2>2 DEF TickAsksHome
    <3>2. QED
      BY <3>1, InFlightKept DEF Looks
  <2>3. CASE TickReads(t)
    <3>1. PICK to \in {"act", "dropCancel"} : Moves(t, "read", to)
      BY <2>3 DEF TickReads
    <3>2. QED
      BY <2>3, <3>1, InFlightKept DEF TickReads
  <2>4. CASE TickReadsFiring(t)
    <3>1. PICK to \in {"firing", "fireCancel", "idle"} : Moves(t, "read", to)
      BY <2>4 DEF TickReadsFiring
    <3>2. QED
      BY <2>4, <3>1, InFlightKept DEF TickReadsFiring
  <2>5. CASE \/ Cancels(t, "dropCancel", "dropMark") \/ MarksStale(t) \/ TickHolds(t)
             \/ TickDispatches(t) \/ Posts(t, "post", "stick", "fresh") \/ TickFreshens(t)
    BY <2>5, InFlightKept DEF Cancels, MarksStale, TickHolds, TickDispatches, Posts,
       TickFreshens
  <2>6. CASE \/ Puts(t, "put", "idle") \/ Cancels(t, "fireCancel", "idle")
             \/ TickFires(t) \/ Looks(t, "firing", "idle")
    BY <2>6, InFlightKept DEF Puts, Cancels, TickFires, Looks
  <2>7. QED
    BY <1>4, <2>1, <2>2, <2>3, <2>4, <2>5, <2>6 DEF Ticking
<1>5. QED
  BY <1>1, <1>2, <1>3, <1>4 DEF Continues

\* The worker takes the event of a HOME that was asked for only with its goal.
LEMMA InFlightWorking ==
  ASSUME TypeOK, InFlightInv, HomeIsSpared, Working
  PROVE  InFlightInv'
<1> USE DEF stickVars, flagVars, threadVars, tickVars, boxVars, workVars, ctrlVars
<1>0. UNCHANGED at => Asking' = Asking /\ (Coming' <=> Coming)
  BY DEF Asking, Coming
<1>1. CASE TakeEvent
  BY <1>0, <1>1 DEF TakeEvent, InFlightInv
<1>2. CASE GrabGoal
  <2>1. Asking' = {}
    BY <1>0, <1>2 DEF GrabGoal, HomeIsSpared
  <2>2. homeReq' => worker' = "homeClear"
    BY <1>2 DEF GrabGoal, EnterHome, InFlightInv
  <2>3. QED
    BY <2>1, <2>2 DEF InFlightInv
<1>3. CASE HomeClears
  BY <1>0, <1>3 DEF HomeClears, InFlightInv
<1>4. CASE HomeForgets \/ HomeDrains
  <2>1. ~homeReq /\ Asking = {}
    BY <1>4 DEF HomeForgets, HomeDrains, HomeIsSpared
  <2>2. QED
    BY <1>0, <1>4, <2>1 DEF HomeForgets, HomeDrains, InFlightInv
<1>5. CASE \/ (\E ok \in BOOLEAN : Validate(ok)) \/ Plan
           \/ ChecksStale("validated", "planning") \/ ChecksStale("planned", "send")
           \/ Send \/ HomePlan
  <2>1. worker \notin {"homeClear", "taking"} /\ UNCHANGED <<at, homeReq, queued, pending>>
    BY <1>5 DEF Validate, Plan, ChecksStale, Send, HomePlan
  <2>2. QED
    BY <1>0, <2>1 DEF InFlightInv
<1>6. CASE (\E arrived \in BOOLEAN : Sent(arrived)) \/ HomeSent \/ WorkerFails
  <2>1. worker \notin {"homeClear", "taking"} /\ UNCHANGED <<at, homeReq, queued, pending>>
    BY <1>6 DEF Sent, HomeSent, WorkerFails
  <2>2. QED
    BY <1>0, <2>1 DEF InFlightInv
<1>7. QED
  BY <1>1, <1>2, <1>3, <1>4, <1>5, <1>6 DEF Working

\* Only the four causes come between a HOME that is asked for and its event.
LEMMA InFlightNext ==
  TypeOK /\ InFlightInv /\ HomeIsSpared /\ [Next]_vars => InFlightInv'
<1> SUFFICES ASSUME TypeOK, InFlightInv, HomeIsSpared, [Next]_vars
             PROVE  InFlightInv'
  OBVIOUS
<1> USE DEF flagVars, threadVars, boxVars, workVars
<1>1. ASSUME UNCHANGED <<at, homeReq, queued, pending, worker>> PROVE InFlightInv'
  BY <1>1 DEF InFlightInv, Asking, Coming
<1>2. CASE UNCHANGED vars
  BY <1>1, <1>2 DEF vars
<1>3. CASE ControllerAccepts \/ ControllerRejects \/ ControllerFinishes
  BY <1>1, <1>3 DEF ControllerAccepts, ControllerRejects, ControllerFinishes
<1>4. QED
  BY <1>2, <1>3, InFlightThreads, InFlightWorking DEF Next

\* The docstring of _arm_tick is wrong for four causes only: where no release, no lost
\* link and no earlier HOME sweeps the box or the queue while a HOME is asked for, and no
\* event from before brings the worker to its goal early, what blocks the tick is a HOME
\* in flight.
THEOREM HomeLostByFourOnly == Spec => ([]HomeIsSpared => []HomeInFlight)
<1>1. Init => InFlightInv
  BY DEF Init, InFlightInv, Asking
<1>2. InFlightInv => HomeInFlight
  BY DEF InFlightInv, HomeInFlight, Coming
<1>3. QED
  BY <1>1, <1>2, InFlightNext, TypeCorrect, PTL DEF Spec
=============================================================================
