----------------------------- MODULE FirePresence -----------------------------
(***************************************************************************)
(* The presence of the tablet that keeps the robot in fire mode: the       *)
(* threads of HeartbeatClient.kt, started with FIRING and stopped with     *)
(* RESET, the time of the last PING in fire_server.py, and what its node   *)
(* publishes on /fire_mode.  A loop that was stopped notices it at its     *)
(* next sleep; the HUD may have started another by then, with one flag for *)
(* both of them.                                                           *)
(***************************************************************************)
EXTENDS Naturals, FiniteSets

CONSTANTS
  Loops,        \* threads of the heartbeat client
  PingTimeout   \* HEARTBEAT_TIMEOUT

ASSUME PresenceAssumption == IsFiniteSet(Loops) /\ PingTimeout \in Nat

VARIABLES
  running,   \* HeartbeatClient.running
  worker,    \* HeartbeatClient.worker, or the empty set
  loop,      \* where each thread is
  stopped,   \* threads that were interrupted
  pinged,    \* _ever_pinged
  pingAge,   \* time since _last_ping
  fireMode   \* the last value on /fire_mode

hbVars == <<running, worker, loop, stopped>>
presenceVars == <<hbVars, pinged, pingAge, fireMode>>

PresenceTypeOK ==
  /\ running \in BOOLEAN
  /\ worker \subseteq Loops /\ running = (worker # {})
  /\ loop \in [Loops -> {"off", "connect", "ping", "sleep"}]
  /\ stopped \subseteq {l \in Loops : loop[l] # "off"}
  /\ {l \in Loops : loop[l] # "off"} \ stopped \subseteq worker
  /\ pinged \in BOOLEAN /\ pingAge \in 0..(PingTimeout + 1)
  /\ fireMode \in {0, 1}

PresenceInit ==
  /\ running = FALSE /\ worker = {}
  /\ loop = [l \in Loops |-> "off"] /\ stopped = {}
  /\ pinged = FALSE /\ pingAge = PingTimeout + 1
  /\ fireMode = 0

(* FIRING; nothing happens if a loop is thought to run. *)
HeartbeatStart(l) ==
  /\ ~running /\ loop[l] = "off"
  /\ running' = TRUE /\ worker' = {l}
  /\ loop' = [loop EXCEPT ![l] = "connect"]
  /\ UNCHANGED <<stopped, pinged, pingAge, fireMode>>

(* RESET, or the end of the app. *)
HeartbeatStop ==
  /\ running
  /\ running' = FALSE /\ worker' = {}
  /\ stopped' = stopped \cup {l \in worker : loop[l] # "off"}
  /\ UNCHANGED <<loop, pinged, pingAge, fireMode>>

Goes(l, to) ==
  /\ loop' = [loop EXCEPT ![l] = to]
  /\ stopped' = IF to = "off" THEN stopped \ {l} ELSE stopped
  /\ UNCHANGED <<running, worker, fireMode>>

(* The link fails: a sleep, which ends an interrupted loop, and again. *)
Reconnects(l) == Goes(l, IF running /\ l \notin stopped THEN "connect" ELSE "off")

LoopConnects(l) ==
  /\ loop[l] = "connect"
  /\ \/ Goes(l, IF running THEN "ping" ELSE "off")
     \/ Reconnects(l)
  /\ UNCHANGED <<pinged, pingAge>>

(* The PING reaches the server, or is lost with the link. *)
LoopPings(l) ==
  /\ loop[l] = "ping"
  /\ \/ /\ running
        /\ Goes(l, "sleep")
        /\ pinged' = TRUE /\ pingAge' = 0
     \/ Reconnects(l) /\ UNCHANGED <<pinged, pingAge>>

LoopSleeps(l) ==
  /\ loop[l] = "sleep"
  /\ Goes(l, IF l \in stopped THEN "off" ELSE "ping")
  /\ UNCHANGED <<pinged, pingAge>>

TimePasses ==
  /\ pingAge <= PingTimeout
  /\ pingAge' = pingAge + 1
  /\ UNCHANGED <<hbVars, pinged, fireMode>>

\* Mutant: the tablet is taken to be there once it has been.
PublishFireMode_for_good ==
  /\ fireMode' = IF pinged THEN 1 ELSE 0
  /\ UNCHANGED <<hbVars, pinged, pingAge>>

(* is_app_open, published at 5 Hz. *)
PublishFireMode ==
  /\ fireMode' = IF pinged /\ pingAge <= PingTimeout THEN 1 ELSE 0
  /\ UNCHANGED <<hbVars, pinged, pingAge>>

PresenceNext ==
  \/ \E l \in Loops : \/ HeartbeatStart(l)
                      \/ LoopConnects(l)
                      \/ LoopPings(l)
                      \/ LoopSleeps(l)
  \/ HeartbeatStop
  \/ TimePasses
  \/ PublishFireMode

PresenceSpec == PresenceInit /\ [][PresenceNext]_presenceVars

PresenceFairness ==
  /\ \A l \in Loops : WF_presenceVars(LoopConnects(l) \/ LoopPings(l) \/ LoopSleeps(l))
  /\ WF_presenceVars(TimePasses)
  /\ WF_presenceVars(PublishFireMode)

-----------------------------------------------------------------------------
(* After the last RESET the robot leaves fire mode for good: whatever      *)
(* loops a quick RESET and FIRING left over, none keeps the presence alive *)
(* (docstring of HeartbeatClient.kt).                                      *)
FireModeEnds == <>[](~running) => <>[](fireMode = 0)
=============================================================================
