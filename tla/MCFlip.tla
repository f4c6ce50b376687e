-------------------------------- MODULE MCFlip --------------------------------
EXTENDS FlipperTick
CONSTANTS a, b
(* The front flipper alone, or both. *)
MCFlipCmds == {[front |-> 0, rear |-> 0], [front |-> 1, rear |-> 0], [front |-> 1, rear |-> -1]}
MCColliding == {[front |-> 2, rear |-> -1]}
=============================================================================
