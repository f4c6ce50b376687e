------------------------------ MODULE MCStations ------------------------------
(***************************************************************************)
(* Five parts of the robot and its tablet that share no state: a behaviour *)
(* follows one of them, chosen in its first state, and the others rest.    *)
(* In one more part nothing moves: a frame was received.  The flippers are *)
(* followed twice: both of them with one thread ("flip"), and the front    *)
(* one with two ("pair").                                                  *)
(***************************************************************************)
EXTENDS MCLink, MCFlip, Bringup, FireServer, FirePresence

CONSTANTS shoulder, wheel

VARIABLES
  part,
  ones    \* the bits of the received frame that are 1, in the order they came

-----------------------------------------------------------------------------
(* From one bit to all of them, next to each other. *)
RunsOfOnes == {n..k : n, k \in 0..175}

BringRests ==
  /\ stage = "over" /\ bus = "arm" /\ todo = {} /\ retries = 0
  /\ stopAsked = FALSE /\ reading = FALSE /\ known = FALSE /\ latched = FALSE
  /\ beats = {} /\ motors = {} /\ missing = {} /\ inMode = {} /\ online = {}
  /\ answering = AllMotors /\ silent = {} /\ powered = {} /\ ticking = {} /\ outlived = FALSE

Init ==
  /\ part \in {"frame", "link", "flip", "pair", "bring", "fire", "presence"}
  /\ ones \in IF part = "frame" THEN RunsOfOnes ELSE {{}}
  /\ LinkInit /\ FlipInit /\ FireInit /\ PresenceInit
  /\ IF part = "bring" THEN BringInit ELSE BringRests

Next ==
  \/ /\ part = "link" /\ LinkNext
     /\ UNCHANGED <<part, ones, flipVars, bringVars, fireVars, presenceVars>>
  \/ /\ part \in {"flip", "pair"} /\ FlipNext
     /\ part = "flip" => flipTick'[b] = FlipIdle
     /\ part = "pair" => flipCmd'.rear = 0
     /\ UNCHANGED <<part, ones, linkVars, bringVars, fireVars, presenceVars>>
  \/ /\ part = "bring" /\ BringNext
     /\ UNCHANGED <<part, ones, linkVars, flipVars, fireVars, presenceVars>>
  \/ /\ part = "fire" /\ FireNext
     /\ UNCHANGED <<part, ones, linkVars, flipVars, bringVars, presenceVars>>
  \/ /\ part = "presence" /\ PresenceNext
     /\ UNCHANGED <<part, ones, linkVars, flipVars, bringVars, fireVars>>

(* Timers fire, threads go on, a motor gets where it is sent, and now and  *)
(* then MoveIt answers in time.                                            *)
FlipFairness ==
  /\ \A t \in FlipThreads : WF_flipVars(FlipperTicking(t) /\ (part = "flip" => t = a))
  /\ SF_flipVars(\E t \in FlipThreads : CheckPasses(t))
  /\ \A s \in Sides : WF_flipVars(FlipperMoves(s))

(* Nothing that a part at rest could be obliged to do is enabled. *)
Spec == /\ Init /\ [][Next]_<<part, ones, linkVars, flipVars, bringVars, fireVars, presenceVars>>
        /\ FlipFairness /\ BringFairness /\ PresenceFairness

(* decode_sbus_frame loses and moves no bit: channel c of a frame is its   *)
(* bits 11(c-1) to 11c-1, although each is put together from parts of two  *)
(* or three bytes.  Every channel is a sum of shifted bytes, so every run  *)
(* of ones, from a single bit to the full frame, meets each bit alone,     *)
(* beside its neighbours and across each byte boundary.                    *)
Received == [n \in 0..175 |-> IF n \in ones THEN 1 ELSE 0]

FrameLayout ==
  part = "frame" =>
    LET bits == Received
        bytes == BytesOf(bits)
    IN \A c \in Channels : ChannelOf(bytes, c) = ElevenAt(bits, 11 * (c - 1))

(* The state of every part has its type, and its lock, its loop and its    *)
(* lists belong together (the named invariants of the five modules).       *)
StationsTypeOK == LinkTypeOK /\ FlipTypeOK /\ BringTypeOK /\ FireTypeOK /\ PresenceTypeOK
=============================================================================
