------------------------------ MODULE FireServer ------------------------------
(***************************************************************************)
(* The fire command: the window of ArmFireActivity.kt, the one thread of   *)
(* ArmFireClient.kt that does the exchanges one after another, and the     *)
(* thread per connection, the lock and the pin of fire_server.py.  The     *)
(* server acknowledges first and fires then; the client stops waiting      *)
(* after five seconds, and the window can be left while it waits.          *)
(* Connections are numbered in the order they were made.                   *)
(***************************************************************************)
EXTENDS Naturals, FiniteSets

CONSTANT MaxPresses   \* bound: how often FIRE is pressed

ASSUME FireAssumption == MaxPresses \in Nat

VARIABLES
  window,    \* passwordVerified, armed, isArming and lockedOut
  awaited,   \* the window shown waits for the last exchange
  pressed,   \* times FIRE was pressed
  queue,     \* exchanges submitted and not begun
  exchange,  \* where the client's thread is
  conn,      \* the connection it made last, or 0
  thread,    \* the server's thread of each connection
  reply,     \* what the server answered on it
  pin,       \* fire_pin
  server,    \* how far main is with the shutdown
  pulses     \* times the pin was raised

windowVars == <<window, awaited, pressed>>
clientVars == <<queue, exchange, conn>>
serverVars == <<thread, reply, pin, server, pulses>>
fireVars == <<windowVars, clientVars, serverVars>>

Connections == 1..MaxPresses

FireTypeOK ==
  /\ window \in {"locked", "ready", "armed", "firing", "failed"}
  /\ awaited \in BOOLEAN /\ (awaited <=> window = "firing")
  /\ pressed \in 0..MaxPresses /\ queue \in 0..MaxPresses
  /\ exchange \in {"none", "asked", "holding"}
  /\ conn \in 0..MaxPresses
  /\ thread \in [Connections -> {"none", "reading", "waiting", "firing", "ended"}]
  /\ reply \in [Connections -> {"none", "OK", "ERR"}]
  /\ pin \in {"low", "high"}
  /\ server \in {"up", "lowered", "closed", "exited"}
  /\ pulses \in Nat

FireInit ==
  /\ window = "locked" /\ awaited = FALSE /\ pressed = 0
  /\ queue = 0 /\ exchange = "none" /\ conn = 0
  /\ thread = [c \in Connections |-> "none"] /\ reply = [c \in Connections |-> "none"]
  /\ pin = "low" /\ server = "up" /\ pulses = 0

-----------------------------------------------------------------------------
VerifyPassword ==
  /\ window = "locked"
  /\ window' = "ready"
  /\ UNCHANGED <<awaited, pressed, clientVars, serverVars>>

SlideToArm ==
  /\ window = "ready"
  /\ window' = "armed"
  /\ UNCHANGED <<awaited, pressed, clientVars, serverVars>>

PressFire ==
  /\ window = "armed" /\ pressed < MaxPresses
  /\ window' = "firing" /\ awaited' = TRUE
  /\ pressed' = pressed + 1
  /\ queue' = queue + 1
  /\ UNCHANGED <<exchange, conn, serverVars>>

(* RESET, except while firing; or the window is left, and a new one opened *)
(* that knows nothing of an exchange under way.                            *)
LeaveWindow ==
  /\ window' = "locked" /\ awaited' = FALSE
  /\ UNCHANGED <<pressed, clientVars, serverVars>>

(* The result of an exchange is for the window that submitted the last one. *)
Result(ok) ==
  /\ exchange' = "none"
  /\ IF awaited /\ queue' = 0
       THEN awaited' = FALSE /\ window' = IF ok THEN "locked" ELSE "failed"
       ELSE UNCHANGED <<awaited, window>>
  /\ UNCHANGED pressed

ConnectFails ==
  /\ exchange = "none" /\ queue > 0
  /\ queue' = queue - 1
  /\ Result(FALSE)
  /\ UNCHANGED <<conn, serverVars>>

(* Connected, and the command is on its way. *)
Connect ==
  /\ exchange = "none" /\ queue > 0
  /\ server = "up"
  /\ queue' = queue - 1
  /\ exchange' = "asked"
  /\ conn' = conn + 1
  /\ thread' = [thread EXCEPT ![conn + 1] = "reading"]
  /\ UNCHANGED <<windowVars, reply, pin, server, pulses>>

SeesReply ==
  /\ exchange = "asked" /\ reply[conn] # "none"
  /\ UNCHANGED <<queue, conn, serverVars>>
  /\ IF reply[conn] = "OK"
       THEN exchange' = "holding" /\ UNCHANGED windowVars
       ELSE Result(FALSE)

\* Mutant: an exchange without an answer is tried again.
GivesUp_retries ==
  /\ exchange = "asked" /\ conn < MaxPresses
  /\ exchange' = "none" /\ queue' = queue + 1
  /\ UNCHANGED <<conn, windowVars, serverVars>>

(* No answer within READ_TIMEOUT, or the connection breaks. *)
GivesUp ==
  /\ exchange = "asked"
  /\ UNCHANGED <<queue, conn, serverVars>>
  /\ Result(FALSE)

HoldEnds ==
  /\ exchange = "holding"
  /\ UNCHANGED <<queue, conn, serverVars>>
  /\ Result(TRUE)

-----------------------------------------------------------------------------
(* The command is read and acknowledged; the client may be gone by then.   *)
ServerReads(c) ==
  /\ thread[c] = "reading"
  /\ thread' = [thread EXCEPT ![c] = "waiting"]
  /\ reply' = [reply EXCEPT ![c] = "OK"]
  /\ UNCHANGED <<windowVars, clientVars, pin, server, pulses>>

(* Nothing came within FIRE_RECV_TIMEOUT, or the connection broke. *)
ServerDrops(c) ==
  /\ thread[c] = "reading"
  /\ thread' = [thread EXCEPT ![c] = "ended"]
  /\ reply' = [reply EXCEPT ![c] = "ERR"]
  /\ UNCHANGED <<windowVars, clientVars, pin, server, pulses>>

PinIsOpen == server \in {"up", "lowered"}

\* Mutant: the pulse does not wait for the one of another connection.
PulseBegins_unlocked(c) ==
  /\ thread[c] = "waiting"
  /\ IF PinIsOpen
       THEN pin' = "high" /\ pulses' = pulses + 1 /\ thread' = [thread EXCEPT ![c] = "firing"]
       ELSE thread' = [thread EXCEPT ![c] = "ended"] /\ UNCHANGED <<pin, pulses>>
  /\ UNCHANGED <<windowVars, clientVars, reply, server>>

(* do_fire gets the lock.  A pin that is closed raises. *)
PulseBegins(c) ==
  /\ thread[c] = "waiting" /\ \A d \in Connections : thread[d] # "firing"
  /\ IF PinIsOpen
       THEN pin' = "high" /\ pulses' = pulses + 1 /\ thread' = [thread EXCEPT ![c] = "firing"]
       ELSE thread' = [thread EXCEPT ![c] = "ended"] /\ UNCHANGED <<pin, pulses>>
  /\ UNCHANGED <<windowVars, clientVars, reply, server>>

PulseEnds(c) ==
  /\ thread[c] = "firing"
  /\ pin' = "low"
  /\ thread' = [thread EXCEPT ![c] = "ended"]
  /\ UNCHANGED <<windowVars, clientVars, reply, server, pulses>>

(* The finally block of main.  Until the process exits the threads go on,  *)
(* and raise the pin again before it is closed.                            *)
ShutdownLowersPin ==
  /\ server = "up"
  /\ server' = "lowered" /\ pin' = "low"
  /\ UNCHANGED <<windowVars, clientVars, thread, reply, pulses>>

ShutdownClosesPin ==
  /\ server = "lowered"
  /\ server' = "closed" /\ pin' = "low"
  /\ UNCHANGED <<windowVars, clientVars, thread, reply, pulses>>

ServerExits ==
  /\ server = "closed"
  /\ server' = "exited"
  /\ thread' = [c \in Connections |-> IF thread[c] = "none" THEN "none" ELSE "ended"]
  /\ UNCHANGED <<windowVars, clientVars, reply, pin, pulses>>

FireNext ==
  \/ VerifyPassword \/ SlideToArm \/ PressFire \/ LeaveWindow
  \/ ConnectFails \/ Connect \/ SeesReply \/ GivesUp \/ HoldEnds
  \/ \E c \in Connections :
       ServerReads(c) \/ ServerDrops(c) \/ PulseBegins(c) \/ PulseEnds(c)
  \/ ShutdownLowersPin \/ ShutdownClosesPin \/ ServerExits

FireSpec == FireInit /\ [][FireNext]_fireVars

-----------------------------------------------------------------------------
(* One press, at most one pulse, whatever the client could hear of it: an  *)
(* exchange that failed for the client, or whose window was left, is not   *)
(* repeated, though the server may still carry it out.                     *)
Underway == {c \in Connections : thread[c] \in {"reading", "waiting"}}
OnePulsePerPress == pulses + Cardinality(Underway) + queue <= pressed

(* The pin is high only under the lock, for one connection at a time, and  *)
(* never once the server has closed it, even if a thread has raised it     *)
(* between the two steps of the shutdown.                                  *)
Firing == {c \in Connections : thread[c] = "firing"}
PinUnderLock ==
  /\ Cardinality(Firing) <= 1
  /\ pin = "high" => Firing # {} /\ PinIsOpen
=============================================================================
