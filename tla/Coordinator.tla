----------------------------- MODULE Coordinator -----------------------------
(***************************************************************************)
(* The arm pipeline of coordinator_node.py.  Callbacks and timers run on   *)
(* the threads of a MultiThreadedExecutor in a reentrant group: each       *)
(* thread runs one callback at a time, and two of the same callback may    *)
(* overlap.  One more thread, the worker, consumes the events and waits    *)
(* for services and for the arm controller.  No lock spans more than one   *)
(* access to the shared state, and so a step is one access.  Merged are    *)
(* only: a message's look at firing mode and _at_home with its latch; each *)
(* write of _at_home with the write beside it; a tick's reading of the     *)
(* stick with that of what was held before; a loop that drains the queue;  *)
(* and what the worker does between two waits, once it sends.              *)
(*                                                                         *)
(* A goal is known by where it came from ("stick", "test", "HOME"): its    *)
(* coordinates are left out.  A GOAL event makes the worker drain the      *)
(* queue, so that only whether one is queued matters.  State               *)
(* FAULT blocks nothing, any event leaves it: it is idle, and a RESET,     *)
(* which does nothing else, is left out.                                   *)
(***************************************************************************)
EXTENDS Naturals, Sequences, FiniteSets

CONSTANTS
  Inputs,    \* the inputs of the stick that can be released separately
  Threads,   \* threads of the executor
  MaxWire,   \* bound: goal requests on their way to the arm controller
  None

ASSUME CoordinatorAssumption ==
  /\ "pitch" \in Inputs
  /\ "firing_pitch" \notin Inputs
  /\ IsFiniteSet(Threads) /\ Threads # {}
  /\ MaxWire \in Nat \ {0}
  /\ None \notin {"HOME", "stick", "test"}

VARIABLES
  cmd,          \* the latched arm commands that are not 0
  heard,        \* joint states have been received
  watchdog,     \* _watchdog_triggered
  jsWatchdog,   \* _js_watchdog_triggered
  firing,       \* _firing_pending and _firing_active
  homeReq,      \* _home_requested
  atHome,       \* _at_home
  rearm,        \* _rearm_required
  stale,        \* _pipeline_stale
  at,           \* where each thread is in its callback
  held,         \* current_active of the arm tick a thread is in
  prev,         \* _prev_active_inputs
  queued,       \* a GOAL is in _event_queue
  pending,      \* _pending_goal
  worker,       \* where the worker is
  job,          \* the goal it processes
  wire,         \* requests to the arm controller: does the worker wait?
  reply,        \* the answer to the request it waits for
  running,      \* the arm controller runs an "owned" trajectory, or an "orphan"
  handle,       \* _current_arm_goal_handle is that of the running trajectory
  commanded,    \* _latest_arm_joint_target is set
  overshoot     \* stick goals sent since the link was declared lost

stickVars == <<cmd, heard>>
flagVars == <<watchdog, jsWatchdog, firing, homeReq, atHome, rearm, stale>>
tickVars == <<held, prev>>
threadVars == <<at, tickVars>>
boxVars == <<queued, pending>>
workVars == <<worker, job>>
ctrlVars == <<wire, reply, running, handle, commanded, overshoot>>
vars == <<stickVars, flagVars, threadVars, boxVars, workVars, ctrlVars>>

Goals == {"HOME", "stick", "test"}

(* What the thread does next: in _on_sbus, in the HOME request _on_sbus    *)
(* and _on_fire_mode share, in _watchdog_tick, in _arm_tick and in its     *)
(* release and its dispatch.                                               *)
Places ==
  {"idle", "sbus", "home", "fire", "request", "homeCancel", "homePut",
   "elapsed", "jointCancel", "lostCancel", "lostZero", "lostForget", "lostDrain",
   "look", "read", "fireCancel", "firing",
   "dropCancel", "dropMark", "dropForget", "dropDrain",
   "act", "post", "fresh", "put"}

HomePlaces == {"homeClear", "homeForget", "homeDrain", "homePlan", "homeSending"}

(* Of the requests on the wire the worker waits for one at most, and then  *)
(* it waits and has no answer yet.                                         *)
AwaitedOnce ==
  \A i \in DOMAIN wire : wire[i] =>
    /\ reply = "none" /\ worker \in {"sending", "homeSending"}
    /\ \A j \in DOMAIN wire : wire[j] => j = i

TypeOK ==
  /\ cmd \subseteq Inputs
  /\ heard \in BOOLEAN
  /\ watchdog \in BOOLEAN /\ jsWatchdog \in BOOLEAN
  /\ firing \in {"off", "pending", "active"}
  /\ homeReq \in BOOLEAN /\ atHome \in BOOLEAN
  /\ rearm \in BOOLEAN /\ stale \in BOOLEAN
  /\ at \in [Threads -> Places]
  /\ held \in [Threads -> SUBSET Inputs]
  /\ prev \subseteq Inputs \cup {"firing_pitch"}
  /\ queued \in BOOLEAN
  /\ pending \in Goals \cup {None} /\ job \in Goals \cup {None}
  /\ worker \in {"idle", "taking", "validate", "validated", "planning", "planned",
                 "send", "sending"} \cup HomePlaces
  /\ wire \in Seq(BOOLEAN) /\ Len(wire) <= MaxWire
  /\ reply \in {"none", "accepted", "over"}
  /\ running \in {"none", "owned", "orphan"}
  /\ handle \in BOOLEAN
  /\ commanded \in BOOLEAN
  /\ overshoot \in Nat
  /\ worker \in {"idle", "taking"} <=> job = None
  /\ worker \in HomePlaces <=> job = "HOME"
  /\ reply # "none" => worker \in {"sending", "homeSending"}
  /\ AwaitedOnce

Init ==
  /\ cmd = {} /\ heard = FALSE
  /\ watchdog = FALSE /\ jsWatchdog = FALSE
  /\ firing = "off" /\ homeReq = FALSE /\ atHome = FALSE
  /\ rearm = TRUE /\ stale = FALSE
  /\ at = [t \in Threads |-> "idle"] /\ held = [t \in Threads |-> {}] /\ prev = {}
  /\ queued = FALSE /\ pending = None /\ worker = "idle" /\ job = None
  /\ wire = <<>> /\ reply = "none" /\ running = "none" /\ handle = FALSE
  /\ commanded = FALSE /\ overshoot = 0

-----------------------------------------------------------------------------
(* Steps that several callbacks take.                                      *)

Moves(t, from, to) == at[t] = from /\ at' = [at EXCEPT ![t] = to]

(* The handle is taken and what it stands for is cancelled; a handle whose *)
(* trajectory is over cancels nothing.                                     *)
Cancels(t, from, to) ==
  /\ Moves(t, from, to)
  /\ handle' = FALSE
  /\ running' = IF handle THEN "none" ELSE running
  /\ UNCHANGED <<stickVars, flagVars, tickVars, boxVars, workVars, wire, reply,
                 commanded, overshoot>>

Posts(t, from, goal, to) ==
  /\ Moves(t, from, to)
  /\ pending' = goal
  /\ UNCHANGED <<stickVars, flagVars, tickVars, queued, workVars, ctrlVars>>

Puts(t, from, to) ==
  /\ Moves(t, from, to)
  /\ queued' = TRUE
  /\ UNCHANGED <<stickVars, flagVars, tickVars, pending, workVars, ctrlVars>>

Forgets(t, from, to) ==
  /\ Moves(t, from, to)
  /\ pending' = None
  /\ UNCHANGED <<stickVars, flagVars, tickVars, queued, workVars, ctrlVars>>

Drains(t, from, to) ==
  /\ Moves(t, from, to)
  /\ queued' = FALSE
  /\ UNCHANGED <<stickVars, flagVars, tickVars, pending, workVars, ctrlVars>>

Looks(t, from, to) ==
  /\ Moves(t, from, to)
  /\ UNCHANGED <<stickVars, flagVars, tickVars, boxVars, workVars, ctrlVars>>

-----------------------------------------------------------------------------
(* The subscriptions.                                                      *)

SbusArrives(t) ==
  /\ Moves(t, "idle", "sbus")
  /\ watchdog' = FALSE
  /\ overshoot' = 0
  /\ UNCHANGED <<stickVars, jsWatchdog, firing, homeReq, atHome, rearm, stale,
                 tickVars, boxVars, workVars, wire, reply, running, handle, commanded>>

Latched(mode, inputs) ==
  CASE firing # "off" -> inputs \cap {"pitch"}
    [] firing = "off" /\ mode = "ARM" -> inputs
    [] OTHER -> {}

SbusLatches(t, mode, inputs) ==
  /\ Moves(t, "sbus", IF firing = "off" /\ mode = "HOME" /\ ~atHome THEN "home" ELSE "idle")
  /\ cmd' = Latched(mode, inputs)
  /\ UNCHANGED <<heard, flagVars, tickVars, boxVars, workVars, ctrlVars>>

SbusHomes(t) ==
  /\ Moves(t, "home", "request")
  /\ atHome' = TRUE
  /\ pending' = "HOME"
  /\ UNCHANGED <<stickVars, watchdog, jsWatchdog, firing, homeReq, rearm, stale,
                 tickVars, queued, workVars, ctrlVars>>

(* /fire_mode = 1 homes the arm first; it does nothing in firing mode. *)
EntersFireMode(t) ==
  /\ Moves(t, "idle", "fire")
  /\ firing = "off"
  /\ firing' = "pending"
  /\ UNCHANGED <<stickVars, watchdog, jsWatchdog, homeReq, atHome, rearm, stale,
                 tickVars, boxVars, workVars, ctrlVars>>

(* The goal is in the box; the cancel and the event come after the request. *)
Requests(t) ==
  /\ Moves(t, "request", "homeCancel")
  /\ homeReq' = TRUE
  /\ UNCHANGED <<stickVars, watchdog, jsWatchdog, firing, atHome, rearm, stale,
                 tickVars, boxVars, workVars, ctrlVars>>

ExitsFireMode(t) ==
  /\ Moves(t, "idle", "idle")
  /\ firing # "off"
  /\ firing' = "off"
  /\ UNCHANGED <<stickVars, watchdog, jsWatchdog, homeReq, atHome, rearm, stale,
                 tickVars, boxVars, workVars, ctrlVars>>

HearsJoints(t) ==
  /\ Moves(t, "idle", "idle")
  /\ heard' = TRUE
  /\ jsWatchdog' = FALSE
  /\ UNCHANGED <<cmd, watchdog, firing, homeReq, atHome, rearm, stale,
                 tickVars, boxVars, workVars, ctrlVars>>

-----------------------------------------------------------------------------
(* _watchdog_tick, at 1 Hz.  It looks at the joint states first, and they  *)
(* block the ticks until they come again.                                  *)
WatchdogWakes(t) ==
  /\ ~watchdog
  /\ Looks(t, "idle", "elapsed")

WatchdogBlocks(t) ==
  /\ Moves(t, "idle", "jointCancel")
  /\ ~watchdog /\ heard /\ ~jsWatchdog
  /\ jsWatchdog' = TRUE
  /\ UNCHANGED <<stickVars, watchdog, firing, homeReq, atHome, rearm, stale,
                 tickVars, boxVars, workVars, ctrlVars>>

(* Nothing came for watchdog_timeout.  What follows cancels, zeroes and    *)
(* drains, but marks no goal stale and leaves _home_requested as it is.    *)
WatchdogFlags(t) ==
  /\ Moves(t, "elapsed", "lostCancel")
  /\ watchdog' = TRUE
  /\ UNCHANGED <<stickVars, jsWatchdog, firing, homeReq, atHome, rearm, stale,
                 tickVars, boxVars, workVars, ctrlVars>>

WatchdogZeroes(t) ==
  /\ Moves(t, "lostZero", "lostForget")
  /\ cmd' = {}
  /\ UNCHANGED <<heard, flagVars, tickVars, boxVars, workVars, ctrlVars>>

-----------------------------------------------------------------------------
(* _arm_tick: the blocking flags, then the stick and what was released.    *)

\* Mutant: the tick does not look at the flag of the lost link.
TickWakes_when_lost(t) ==
  /\ ~jsWatchdog
  /\ Looks(t, "idle", "look")

TickWakes(t) ==
  /\ ~watchdog /\ ~jsWatchdog
  /\ Looks(t, "idle", "look")

TickAsksHome(t) == Looks(t, "look", IF homeReq THEN "idle" ELSE "read")

TickReads(t) ==
  /\ firing # "active"
  /\ Moves(t, "read", IF prev \ cmd = {} THEN "act" ELSE "dropCancel")
  /\ held' = [held EXCEPT ![t] = cmd]
  /\ prev' = cmd
  /\ UNCHANGED <<stickVars, flagVars, boxVars, workVars, ctrlVars>>

(* Released: the pipeline is marked stale between the cancel and the drain. *)
MarksStale(t) ==
  /\ Moves(t, "dropMark", "dropForget")
  /\ stale' = TRUE
  /\ UNCHANGED <<stickVars, watchdog, jsWatchdog, firing, homeReq, atHome, rearm,
                 tickVars, boxVars, workVars, ctrlVars>>

(* Centred, re-arm required, or the accumulated goal is within the         *)
(* deadbands of the last one.                                              *)
TickHolds(t) ==
  /\ Moves(t, "act", "idle")
  /\ rearm' = (rearm /\ held[t] # {})
  /\ held' = [held EXCEPT ![t] = {}]
  /\ UNCHANGED <<stickVars, watchdog, jsWatchdog, firing, homeReq, atHome, stale,
                 prev, boxVars, workVars, ctrlVars>>

TickDispatches(t) ==
  /\ held[t] # {} /\ ~rearm
  /\ Moves(t, "act", "post")
  /\ held' = [held EXCEPT ![t] = {}]
  /\ UNCHANGED <<stickVars, flagVars, prev, boxVars, workVars, ctrlVars>>

(* The goal is in the box, its event comes last. *)
TickFreshens(t) ==
  /\ Moves(t, "fresh", "put")
  /\ stale' = FALSE
  /\ atHome' = FALSE
  /\ UNCHANGED <<stickVars, watchdog, jsWatchdog, firing, homeReq, rearm,
                 tickVars, boxVars, workVars, ctrlVars>>

(* In firing mode only pitch counts: released, it cancels the handle that  *)
(* is stored, which is never that of a firing trajectory; held, it asks    *)
(* for a collision check and waits for the answer.                         *)
TickReadsFiring(t) ==
  /\ firing = "active"
  /\ Moves(t, "read", CASE "pitch" \in cmd -> "firing"
                        [] "pitch" \notin cmd /\ "firing_pitch" \in prev -> "fireCancel"
                        [] OTHER -> "idle")
  /\ prev' = CASE "pitch" \in cmd -> {"firing_pitch"}
               [] "pitch" \notin cmd /\ "firing_pitch" \in prev -> {}
               [] OTHER -> prev
  /\ UNCHANGED <<stickVars, flagVars, held, boxVars, workVars, ctrlVars>>

(* Clear of collision the pan is committed, and every fifth one is sent.   *)
(* Firing mode is not looked at again after the wait.  (The bound on the   *)
(* wire leaves room for the worker's request.)                             *)
TickFires(t) ==
  /\ Moves(t, "firing", "idle")
  /\ Len(wire) + 1 < MaxWire
  /\ wire' = Append(wire, FALSE)
  /\ commanded' = TRUE
  /\ UNCHANGED <<stickVars, flagVars, tickVars, boxVars, workVars, reply, running,
                 handle, overshoot>>

-----------------------------------------------------------------------------
(* The arm controller answers the requests in the order they were sent.  A *)
(* trajectory it accepts preempts the one that runs; one whose sender no   *)
(* longer waits, or never did, has a handle nobody holds.                  *)
ControllerAccepts ==
  /\ wire # <<>>
  /\ wire' = Tail(wire)
  /\ running' = IF Head(wire) THEN "owned" ELSE "orphan"
  /\ handle' = FALSE
  /\ reply' = CASE Head(wire) -> "accepted"
                [] ~Head(wire) /\ reply = "accepted" -> "over"
                [] OTHER -> reply
  /\ UNCHANGED <<stickVars, flagVars, threadVars, boxVars, workVars, commanded, overshoot>>

ControllerRejects ==
  /\ wire # <<>>
  /\ wire' = Tail(wire)
  /\ reply' = IF Head(wire) THEN "over" ELSE reply
  /\ UNCHANGED <<stickVars, flagVars, threadVars, boxVars, workVars, running, handle,
                 commanded, overshoot>>

ControllerFinishes ==
  /\ running # "none"
  /\ running' = "none"
  /\ handle' = FALSE
  /\ reply' = IF reply = "accepted" THEN "over" ELSE reply
  /\ UNCHANGED <<stickVars, flagVars, threadVars, boxVars, workVars, wire, commanded,
                 overshoot>>

-----------------------------------------------------------------------------
(* The worker.                                                             *)

(* An event is taken, and the queue is drained of the others. *)
TakeEvent ==
  /\ worker = "idle" /\ queued
  /\ worker' = "taking"
  /\ queued' = FALSE
  /\ UNCHANGED <<stickVars, flagVars, threadVars, pending, job, ctrlVars>>

EnterHome == worker' = "homeClear" /\ job' = "HOME"

JobOver == worker' = "idle" /\ job' = None

\* Mutant: the goal that was taken stays in the box.
GrabGoal_keeps_pending ==
  /\ worker = "taking"
  /\ CASE pending = None -> JobOver
       [] pending = "HOME" \/ (pending # None /\ homeReq) -> EnterHome
       [] OTHER -> worker' = "validate" /\ job' = pending
  /\ UNCHANGED <<stickVars, flagVars, threadVars, boxVars, ctrlVars>>

\* Mutant: HOME is taken for done because the flag of the dedup is set.
GrabGoal_dedups_home ==
  /\ worker = "taking"
  /\ pending' = None
  /\ CASE pending = None \/ (pending = "HOME" /\ atHome) -> JobOver
       [] pending # None /\ ~atHome /\ (pending = "HOME" \/ homeReq) -> EnterHome
       [] OTHER -> worker' = "validate" /\ job' = pending
  /\ UNCHANGED <<stickVars, flagVars, threadVars, queued, ctrlVars>>

(* _pending_goal is taken.  A goal gives way to a HOME requested since. *)
GrabGoal ==
  /\ worker = "taking"
  /\ pending' = None
  /\ CASE pending = None -> JobOver
       [] pending = "HOME" \/ (pending # None /\ homeReq) -> EnterHome
       [] OTHER -> worker' = "validate" /\ job' = pending
  /\ UNCHANGED <<stickVars, flagVars, threadVars, queued, ctrlVars>>

(* _rollback: back to the last valid goal, and the sticks must be centred. *)
Rollback == rearm' = TRUE /\ JobOver

(* The IK is done and MoveIt has answered for the pose, or the wait ended  *)
(* (5 s, or a HOME request).  HOME goes before a failure.                  *)
Validate(ok) ==
  /\ worker = "validate"
  /\ CASE homeReq -> EnterHome /\ UNCHANGED rearm
       [] ~homeReq /\ ~ok -> Rollback
       [] OTHER -> worker' = "validated" /\ UNCHANGED <<job, rearm>>
  /\ UNCHANGED <<stickVars, watchdog, jsWatchdog, firing, homeReq, atHome, stale,
                 threadVars, boxVars, ctrlVars>>

(* The two-point trajectory: none without joint states. *)
Plan ==
  /\ worker = "planning"
  /\ CASE homeReq -> EnterHome /\ UNCHANGED rearm
       [] ~homeReq /\ ~heard -> Rollback
       [] OTHER -> worker' = "planned" /\ UNCHANGED <<job, rearm>>
  /\ UNCHANGED <<stickVars, watchdog, jsWatchdog, firing, homeReq, atHome, stale,
                 threadVars, boxVars, ctrlVars>>

(* What was released meanwhile is dropped, after the IK and after the plan. *)
ChecksStale(from, to) ==
  /\ worker = from
  /\ IF stale THEN JobOver ELSE worker' = to /\ UNCHANGED job
  /\ stale' = FALSE
  /\ UNCHANGED <<stickVars, watchdog, jsWatchdog, firing, homeReq, atHome, rearm,
                 threadVars, boxVars, ctrlVars>>

(* The trajectory is sent, unless it is too fast for a joint; the pipeline *)
(* goes on as if it had been.                                              *)
Send ==
  /\ worker = "send" /\ Len(wire) < MaxWire
  /\ worker' = "sending"
  /\ \/ /\ wire' = Append(wire, TRUE)
        /\ overshoot' = IF watchdog /\ job = "stick" THEN overshoot + 1 ELSE overshoot
     \/ UNCHANGED <<wire, overshoot>>
  /\ UNCHANGED <<stickVars, flagVars, threadVars, boxVars, job,
                 reply, running, handle, commanded>>

(* The worker stops waiting; its request may still be on its way. *)
Unawaited == [i \in DOMAIN wire |-> FALSE]

\* Mutant: the late cancel forgets the handle and cancels nothing.
KeepHandle_no_late_cancel(isHome) ==
  IF ~isHome /\ stale
    THEN handle' = FALSE /\ UNCHANGED running
    ELSE handle' = TRUE /\ UNCHANGED running

(* The handle is stored for whoever cancels next.  A release between the   *)
(* sending and here found no handle, and so the goal is cancelled late.    *)
KeepHandle(isHome) ==
  IF ~isHome /\ stale
    THEN handle' = FALSE /\ running' = "none"
    ELSE handle' = TRUE /\ UNCHANGED running

\* Mutant: the worker has given up, and the answer still counts as its own.
SendReturns_still_awaited(isHome) ==
  /\ UNCHANGED wire
  /\ reply' = "none"
  /\ IF reply = "accepted" THEN KeepHandle(isHome) ELSE UNCHANGED <<handle, running>>

(* Accepted, rejected, or no answer in time (5 s, or a HOME request).      *)
SendReturns(isHome) ==
  /\ wire' = Unawaited
  /\ reply' = "none"
  /\ IF reply = "accepted" THEN KeepHandle(isHome) ELSE UNCHANGED <<handle, running>>

(* Whatever became of the trajectory, the command stream now carries its   *)
(* goal; then the arm is compared with the goal before this one, if any.   *)
Sent(arrived) ==
  /\ worker = "sending"
  /\ SendReturns(FALSE)
  /\ commanded' = TRUE
  /\ commanded \/ arrived
  /\ JobOver
  /\ rearm' = (rearm \/ ~arrived)
  /\ UNCHANGED <<stickVars, watchdog, jsWatchdog, firing, homeReq, atHome, stale,
                 threadVars, boxVars, overshoot>>

(* _process_home begins: the request is consumed, what waits is forgotten. *)
HomeClears ==
  /\ worker = "homeClear"
  /\ worker' = "homeForget"
  /\ homeReq' = FALSE
  /\ UNCHANGED <<stickVars, watchdog, jsWatchdog, firing, atHome, rearm, stale,
                 threadVars, boxVars, job, ctrlVars>>

HomeForgets ==
  /\ worker = "homeForget"
  /\ worker' = "homeDrain"
  /\ pending' = None
  /\ UNCHANGED <<stickVars, flagVars, threadVars, queued, job, ctrlVars>>

HomeDrains ==
  /\ worker = "homeDrain"
  /\ worker' = "homePlan"
  /\ queued' = FALSE
  /\ UNCHANGED <<stickVars, flagVars, threadVars, pending, job, ctrlVars>>

\* Mutant: a new HOME interrupts the wait for the planner of this one.
HomePlan_interruptible ==
  /\ worker = "homePlan" /\ Len(wire) < MaxWire
  /\ IF homeReq
       THEN EnterHome /\ UNCHANGED wire
       ELSE /\ worker' = "homeSending"
            /\ wire' = Append(wire, TRUE)
            /\ UNCHANGED job
  /\ UNCHANGED <<stickVars, flagVars, threadVars, boxVars, reply, running, handle,
                 commanded, overshoot>>

(* Three attempts of the planner, or the straight line: HOME is sent.      *)
HomePlan ==
  /\ worker = "homePlan" /\ Len(wire) < MaxWire
  /\ worker' = "homeSending"
  /\ wire' = Append(wire, TRUE)
  /\ UNCHANGED <<stickVars, flagVars, threadVars, boxVars, job,
                 reply, running, handle, commanded, overshoot>>

(* Sent or not, the coordinator's state is home, and firing mode, if HOME  *)
(* was its entry and it was not left meanwhile, is active.                 *)
HomeSent ==
  /\ worker = "homeSending"
  /\ SendReturns(TRUE)
  /\ commanded' = TRUE
  /\ atHome' = TRUE
  /\ rearm' = FALSE
  /\ firing' = IF firing = "pending" THEN "active" ELSE firing
  /\ JobOver
  /\ UNCHANGED <<stickVars, watchdog, jsWatchdog, homeReq, stale, threadVars,
                 boxVars, overshoot>>

(* An exception out of a wait ends the job in FAULT: the worker is idle.   *)
WorkerFails ==
  /\ worker \in {"validate", "sending", "homePlan", "homeSending"}
  /\ JobOver
  /\ wire' = Unawaited
  /\ reply' = "none"
  /\ running' = IF reply = "accepted" THEN "orphan" ELSE running
  /\ UNCHANGED <<stickVars, flagVars, threadVars, boxVars, handle, commanded, overshoot>>

-----------------------------------------------------------------------------
(* A thread begins a callback, or goes through with the one it is in. *)
Starts(t) ==
  \/ SbusArrives(t)
  \/ EntersFireMode(t)
  \/ ExitsFireMode(t)
  \/ Posts(t, "idle", "test", "put")
  \/ HearsJoints(t)
  \/ WatchdogWakes(t)
  \/ WatchdogBlocks(t)
  \/ TickWakes(t)

Homing(t) ==
  \/ \E mode \in {"ARM", "DRIVE", "HOME"}, inputs \in SUBSET Inputs :
       SbusLatches(t, mode, inputs)
  \/ SbusHomes(t)
  \/ Posts(t, "fire", "HOME", "request")
  \/ Requests(t)
  \/ Cancels(t, "homeCancel", "homePut")
  \/ Puts(t, "homePut", "idle")

Watching(t) ==
  \/ Cancels(t, "jointCancel", "elapsed")
  \/ Looks(t, "elapsed", "idle")
  \/ WatchdogFlags(t)
  \/ Cancels(t, "lostCancel", "lostZero")
  \/ WatchdogZeroes(t)
  \/ Forgets(t, "lostForget", "lostDrain")
  \/ Drains(t, "lostDrain", "idle")

Ticking(t) ==
  \/ TickAsksHome(t)
  \/ TickReads(t)
  \/ Cancels(t, "dropCancel", "dropMark")
  \/ MarksStale(t)
  \/ Forgets(t, "dropForget", "dropDrain")
  \/ Drains(t, "dropDrain", "act")
  \/ TickHolds(t)
  \/ TickDispatches(t)
  \/ Posts(t, "post", "stick", "fresh")
  \/ TickFreshens(t)
  \/ Puts(t, "put", "idle")
  \/ TickReadsFiring(t)
  \/ Cancels(t, "fireCancel", "idle")
  \/ TickFires(t)
  \/ Looks(t, "firing", "idle")

Continues(t) == Homing(t) \/ Watching(t) \/ Ticking(t)

Working ==
  \/ TakeEvent
  \/ GrabGoal
  \/ \E ok \in BOOLEAN : Validate(ok)
  \/ ChecksStale("validated", "planning")
  \/ Plan
  \/ ChecksStale("planned", "send")
  \/ Send
  \/ \E arrived \in BOOLEAN : Sent(arrived)
  \/ HomeClears
  \/ HomeForgets
  \/ HomeDrains
  \/ HomePlan
  \/ HomeSent
  \/ WorkerFails

Next ==
  \/ \E t \in Threads : Starts(t) \/ Continues(t)
  \/ ControllerAccepts
  \/ ControllerRejects
  \/ ControllerFinishes
  \/ Working

Spec == Init /\ [][Next]_vars

(* Every wait of the worker has a timeout, and a request on the wire is    *)
(* answered.                                                               *)
Fairness ==
  /\ WF_vars(Working)
  /\ WF_vars(ControllerAccepts \/ ControllerRejects)

FairSpec == Spec /\ Fairness

-----------------------------------------------------------------------------
Mailbox == INSTANCE ArmMailbox WITH
  Goals <- Goals, Home <- "HOME", box <- pending, job <- job

(* The coordinator is the mailbox of ArmMailbox: whatever callbacks, ticks *)
(* and watchdogs interleave with the worker, one job at a time is in the   *)
(* pipeline, a goal enters it at most once, and only HOME replaces a job.  *)
IsMailbox == Mailbox!Spec

(* A trajectory the worker saw accepted can be cancelled by whoever comes  *)
(* next: its handle is stored, or is about to be (the late-cancel guard of *)
(* _execute_trajectory).                                                   *)
RunningCanBeCancelled ==
  running = "owned" => handle \/ reply = "accepted"

(* The lost link does not stop the goal the worker has already taken, nor  *)
(* the one in the box, which it may take before the watchdog empties it,   *)
(* nor a tick past its look at the flag.  The thread of the watchdog is in *)
(* no tick: at most one goal more is still sent than there are threads.    *)
LinkLossOvershoot == overshoot <= 1 + Cardinality(Threads)

(* The worker always comes back to its queue: whatever it waits for has a  *)
(* timeout (_wait_for_future), HOME included.                              *)
WorkerReturns == []<>(worker = "idle")

(* What can take a HOME that was asked for, from the goal in the box on:   *)
(* a release, the lost link or an earlier HOME empties the box or the      *)
(* queue, or the worker, with an event from before, grabs the goal before  *)
(* the request is set.                                                     *)
Sweeping == {"dropForget", "dropDrain", "lostForget", "lostDrain"}
Asking == {t \in Threads : at[t] = "request"}

HomeIsSpared ==
  /\ homeReq \/ Asking # {} =>
       /\ \A t \in Threads : at[t] \notin Sweeping
       /\ worker \notin {"homeForget", "homeDrain"}
  /\ worker = "taking" => Asking = {}

(* A HOME whose request is set and whose event is queued is begun, whatever *)
(* goals, fire mode changes and failures of the pipeline come between, if   *)
(* none of the four takes it from then on.                                  *)
HomeIsServed ==
  (homeReq /\ queued /\ pending # None /\ []HomeIsSpared) ~> ~homeReq

(* The docstring of _arm_tick says that it "does nothing while HOME is in  *)
(* flight": the request that blocks it belongs to a HOME that is being     *)
(* queued, is queued, or is about to be seen by the worker.                *)
HomeInFlight ==
  homeReq => \/ queued \/ worker # "idle"
             \/ \E t \in Threads : at[t] \in {"homeCancel", "homePut"}
=============================================================================
