----------------------------- MODULE ArmMailbox -----------------------------
(***************************************************************************)
(* What the coordinator promises of its goal pipeline, whatever threads,   *)
(* timers and watchdogs do around it: a mailbox of one goal, in which the  *)
(* latest goal wins, and one job at a time.  A goal taken from the box     *)
(* becomes the job at most once.  A running job ends, or gives way to      *)
(* HOME; HOME itself gives way to nothing.  Coordinator implements it.     *)
(***************************************************************************)
CONSTANTS Goals, Home, None

VARIABLES
  box,   \* the goal that waits, or None
  job    \* the goal in the pipeline, or None

vars == <<box, job>>

TypeOK == /\ box \in Goals \cup {None}
          /\ job \in Goals \cup {None}

Init == box = None /\ job = None

(* A callback or a timer leaves a goal; one that waits is replaced. *)
Post(g) == box' = g /\ UNCHANGED job

(* A release, a lost link or a HOME that begins empties the box. *)
Withdraw == box' = None /\ UNCHANGED job

(* The worker turns the waiting goal into its job, as it is or as HOME. *)
Take == /\ job = None
        /\ box # None
        /\ job' \in {box, Home}
        /\ box' = None

(* HOME takes over from the job that runs. *)
Preempt == /\ job \notin {None, Home}
           /\ job' = Home
           /\ UNCHANGED box

Finish == /\ job # None
          /\ job' = None
          /\ UNCHANGED box

Next == \/ \E g \in Goals : Post(g)
        \/ Withdraw
        \/ Take
        \/ Preempt
        \/ Finish

Spec == Init /\ [][Next]_vars
=============================================================================
