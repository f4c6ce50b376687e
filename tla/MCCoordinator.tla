----------------------------- MODULE MCCoordinator -----------------------------
(***************************************************************************)
(* Two threads of the executor, and the callbacks that take several steps  *)
(* divided between them: which thread may begin which is chosen in the     *)
(* first state.  The callbacks of a single step are free.                  *)
(***************************************************************************)
EXTENDS Coordinator, TLC

CONSTANTS t, u

VARIABLE duties

(* Ticks and messages beside the watchdog, with fire mode, with test       *)
(* goals, and with joint states that stop.                                 *)
Duties ==
  {t :> {"sbus", "look"} @@ u :> {"elapsed"},
   t :> {"sbus", "look", "fire"} @@ u :> {},
   t :> {"sbus", "look", "put"} @@ u :> {},
   t :> {"sbus", "look", "jointCancel"} @@ u :> {}}

MCInit == Init /\ duties \in Duties

(* Beside firing trajectories one request on the wire is enough: one more  *)
(* waits until the controller has answered it.                             *)
MCNext ==
  /\ Next
  /\ UNCHANGED duties
  /\ \A x \in Threads : at[x] = "idle" => at'[x] \in {"idle"} \cup duties[x]
  /\ "fire" \in duties[t] \/ Len(wire') <= 1

MCSpec == MCInit /\ [][MCNext]_<<vars, duties>> /\ Fairness
=============================================================================
