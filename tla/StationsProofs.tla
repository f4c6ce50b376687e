---------------------------- MODULE StationsProofs ----------------------------
(***************************************************************************)
(* What holds of the fire command however often FIRE is pressed, of the    *)
(* presence of the tablet whatever loops keep it alive, and of the five    *)
(* parts in one behaviour: each of them takes the steps of its own         *)
(* specification, so what is proved of a part holds of the composition.    *)
(***************************************************************************)
EXTENDS MCStations, SbusLinkProofs, FlipperTickProofs, BringupProofs, FiniteSetTheorems, TLAPS

\* A connection and a queued exchange each come from a press of their own.
ConnectionsPressed == conn + queue <= pressed

\* The result of an exchange leaves the window in one of its states, and not waiting.
LEMMA ResultTyped ==
  ASSUME FireTypeOK, NEW ok \in BOOLEAN, Result(ok)
  PROVE  /\ window' \in {"locked", "ready", "armed", "firing", "failed"}
         /\ awaited' \in BOOLEAN /\ (awaited' <=> window' = "firing")
         /\ exchange' = "none" /\ pressed' = pressed
<1>1. CASE awaited /\ queue' = 0
  BY <1>1 DEF Result
<1>2. CASE ~(awaited /\ queue' = 0)
  BY <1>2 DEF Result, FireTypeOK
<1>3. QED
  BY <1>1, <1>2

\* Nothing is shown, sent or raised at the start.
LEMMA FireTypeInit == FireInit => FireTypeOK /\ ConnectionsPressed
<1>1. FireInit => awaited \in BOOLEAN /\ (awaited <=> window = "firing")
  BY DEF FireInit
<1>2. FireInit => FireTypeOK
  BY <1>1, FireAssumption DEF FireInit, FireTypeOK
<1>3. FireInit => ConnectionsPressed
  BY DEF FireInit, ConnectionsPressed
<1>4. QED
  BY <1>2, <1>3

\* The types survive every step of the window, the client and the server.
LEMMA FireTypeNext ==
  FireTypeOK /\ ConnectionsPressed /\ [FireNext]_fireVars => (FireTypeOK /\ ConnectionsPressed)'
<1> SUFFICES ASSUME FireTypeOK, ConnectionsPressed, [FireNext]_fireVars
             PROVE  FireTypeOK' /\ ConnectionsPressed'
  OBVIOUS
<1> USE DEF windowVars, clientVars, serverVars
<1>a. /\ pressed \in Nat /\ queue \in Nat /\ conn \in Nat /\ pulses \in Nat /\ MaxPresses \in Nat
      /\ pressed <= MaxPresses
  BY FireAssumption DEF FireTypeOK
<1>1. CASE UNCHANGED fireVars
  BY <1>1 DEF fireVars, FireTypeOK, ConnectionsPressed
<1>2. CASE VerifyPassword \/ SlideToArm
  BY <1>2 DEF VerifyPassword, SlideToArm, FireTypeOK, ConnectionsPressed
<1>2a. CASE LeaveWindow
  <2>1. awaited' \in BOOLEAN /\ (awaited' <=> window' = "firing")
    BY <1>2a DEF LeaveWindow
  <2>2. QED
    BY <1>2a, <2>1 DEF LeaveWindow, FireTypeOK, ConnectionsPressed
<1>3. CASE PressFire
  BY <1>3, <1>a DEF PressFire, FireTypeOK, ConnectionsPressed
<1>4. CASE ConnectFails
  <2>1. queue' \in 0..MaxPresses /\ ConnectionsPressed'
    BY <1>4, <1>a DEF ConnectFails, Result, ConnectionsPressed
  <2>2. QED
    BY <1>4, <2>1, ResultTyped DEF ConnectFails, FireTypeOK
<1>5. CASE Connect
  <2>1. conn' \in 0..MaxPresses /\ queue' \in 0..MaxPresses /\ ConnectionsPressed'
    BY <1>5, <1>a DEF Connect, ConnectionsPressed
  <2>2. QED
    BY <1>5, <2>1 DEF Connect, FireTypeOK
<1>6. CASE SeesReply
  <2>1. CASE reply[conn] = "OK"
    BY <1>6, <2>1 DEF SeesReply, FireTypeOK, ConnectionsPressed
  <2>2. CASE reply[conn] # "OK"
    BY <1>6, <2>2, ResultTyped DEF SeesReply, FireTypeOK, ConnectionsPressed
  <2>3. QED
    BY <2>1, <2>2
<1>7. CASE GivesUp
  BY <1>7, ResultTyped DEF GivesUp, FireTypeOK, ConnectionsPressed
<1>8. CASE HoldEnds
  BY <1>8, ResultTyped DEF HoldEnds, FireTypeOK, ConnectionsPressed
<1>9. ASSUME NEW c \in Connections, ServerReads(c) \/ ServerDrops(c) \/ PulseEnds(c)
      PROVE  FireTypeOK' /\ ConnectionsPressed'
  BY <1>9 DEF ServerReads, ServerDrops, PulseEnds, FireTypeOK, ConnectionsPressed
<1>10. ASSUME NEW c \in Connections, PulseBegins(c)
       PROVE  FireTypeOK' /\ ConnectionsPressed'
  <2>1. /\ thread' \in [Connections -> {"none", "reading", "waiting", "firing", "ended"}]
        /\ pin' \in {"low", "high"} /\ pulses' \in Nat
    BY <1>10, <1>a DEF PulseBegins, FireTypeOK
  <2>2. QED
    BY <1>10, <2>1 DEF PulseBegins, FireTypeOK, ConnectionsPressed
<1>11. CASE ShutdownLowersPin \/ ShutdownClosesPin
  BY <1>11 DEF ShutdownLowersPin, ShutdownClosesPin, FireTypeOK, ConnectionsPressed
<1>12. CASE ServerExits
  BY <1>12 DEF ServerExits, FireTypeOK, ConnectionsPressed
<1>13. QED
  BY <1>1, <1>2, <1>3, <1>4, <1>5, <1>6, <1>7, <1>8, <1>9, <1>10, <1>11, <1>12, <1>2a DEF FireNext

\* The window, the client's thread and the server's threads have their types, and the
\* window waits exactly while it shows that it fires.
THEOREM FireTypeCorrect == FireSpec => []FireTypeOK
<1>1. QED
  BY FireTypeInit, FireTypeNext, PTL DEF FireSpec

-----------------------------------------------------------------------------
(* One press, one pulse.                                                   *)

\* The requests the server has under way: how one connection changes their number.
LEMMA UnderwayMoves ==
  ASSUME FireTypeOK
  PROVE  /\ IsFiniteSet(Underway) /\ Cardinality(Underway) \in Nat
         /\ \A c : Cardinality(Underway \cup {c}) <= Cardinality(Underway) + 1
         /\ \A c \in Underway : /\ Cardinality(Underway \ {c}) = Cardinality(Underway) - 1
                                /\ Cardinality(Underway \ {c}) \in Nat
         /\ \A S \in SUBSET Underway : /\ Cardinality(S) <= Cardinality(Underway)
                                       /\ Cardinality(S) \in Nat
<1>1. IsFiniteSet(Connections)
  BY FS_Interval, FireAssumption DEF Connections
<1>2. IsFiniteSet(Underway)
  BY <1>1, FS_Subset DEF Underway
<1>3. Cardinality(Underway) \in Nat
  BY <1>2, FS_CardinalityType
<1>4. \A c : Cardinality(Underway \cup {c}) <= Cardinality(Underway) + 1
  BY <1>2, <1>3, FS_AddElement
<1>5. \A c \in Underway : /\ Cardinality(Underway \ {c}) = Cardinality(Underway) - 1
                          /\ IsFiniteSet(Underway \ {c})
  BY <1>2, FS_RemoveElement
<1>6. \A c \in Underway : Cardinality(Underway \ {c}) \in Nat
  BY <1>5, FS_CardinalityType
<1>7. \A S \in SUBSET Underway : /\ Cardinality(S) <= Cardinality(Underway)
                                 /\ Cardinality(S) \in Nat
  BY <1>2, FS_Subset, FS_CardinalityType
<1>8. QED
  BY <1>2, <1>3, <1>4, <1>5, <1>6, <1>7

\* A step that adds no pulse, no request and no exchange.
LEMMA NoMorePulses ==
  ASSUME FireTypeOK, OnePulsePerPress, Underway' \subseteq Underway,
         pulses' = pulses, queue' \in Nat, queue' <= queue, pressed' = pressed
  PROVE  OnePulsePerPress'
<1>1. /\ Cardinality(Underway) \in Nat /\ Cardinality(Underway') \in Nat
      /\ Cardinality(Underway') <= Cardinality(Underway)
  BY UnderwayMoves
<1>2. pulses \in Nat /\ queue \in Nat /\ pressed \in Nat
  BY FireAssumption DEF FireTypeOK
<1>3. QED
  BY <1>1, <1>2 DEF OnePulsePerPress

\* Each request that reaches the pin was one press of FIRE, and is counted once.
LEMMA OnePulseNext ==
  FireTypeOK /\ ConnectionsPressed /\ OnePulsePerPress /\ [FireNext]_fireVars => OnePulsePerPress'
<1> SUFFICES ASSUME FireTypeOK, ConnectionsPressed, OnePulsePerPress, [FireNext]_fireVars
             PROVE  OnePulsePerPress'
  OBVIOUS
<1> USE DEF windowVars, clientVars, serverVars
<1>a. /\ pressed \in Nat /\ queue \in Nat /\ pulses \in Nat
      /\ Cardinality(Underway) \in Nat
  BY FireAssumption, UnderwayMoves DEF FireTypeOK
<1>b. UNCHANGED thread => Underway' = Underway
  BY DEF Underway
<1>1. CASE UNCHANGED fireVars
  BY <1>1, <1>a, <1>b, NoMorePulses DEF fireVars
<1>2. CASE VerifyPassword \/ SlideToArm \/ LeaveWindow \/ SeesReply \/ GivesUp \/ HoldEnds
           \/ ShutdownLowersPin \/ ShutdownClosesPin
  BY <1>2, <1>a, <1>b, NoMorePulses DEF VerifyPassword, SlideToArm, LeaveWindow, SeesReply,
     GivesUp, HoldEnds, ShutdownLowersPin, ShutdownClosesPin, Result
<1>3. CASE PressFire
  <2>1. pressed' = pressed + 1 /\ queue' = queue + 1 /\ pulses' = pulses /\ Underway' = Underway
    BY <1>3, <1>b DEF PressFire
  <2>2. QED
    BY <1>a, <2>1 DEF OnePulsePerPress
<1>4. CASE ConnectFails
  BY <1>4, <1>a, <1>b, NoMorePulses DEF ConnectFails, Result
<1>5. CASE Connect
  <2>1. Underway' \subseteq Underway \cup {conn + 1}
    BY <1>5 DEF Connect, FireTypeOK, Underway
  <2>2. /\ Cardinality(Underway') \in Nat
        /\ Cardinality(Underway') <= Cardinality(Underway) + 1
    <3>1. /\ IsFiniteSet(Underway \cup {conn + 1})
          /\ Cardinality(Underway \cup {conn + 1}) <= Cardinality(Underway) + 1
      BY UnderwayMoves, FS_AddElement
    <3>2. /\ Cardinality(Underway') <= Cardinality(Underway \cup {conn + 1})
          /\ IsFiniteSet(Underway')
      BY <2>1, <3>1, FS_Subset
    <3>3. Cardinality(Underway') \in Nat /\ Cardinality(Underway \cup {conn + 1}) \in Nat
      BY <3>1, <3>2, FS_CardinalityType
    <3>4. QED
      BY <1>a, <3>1, <3>2, <3>3
  <2>3. queue' = queue - 1 /\ queue' \in Nat /\ pressed' = pressed /\ pulses' = pulses
    BY <1>5, <1>a DEF Connect
  <2>4. QED
    BY <1>a, <2>2, <2>3 DEF OnePulsePerPress
<1>6. ASSUME NEW c \in Connections, ServerReads(c) \/ ServerDrops(c) \/ PulseEnds(c)
      PROVE  OnePulsePerPress'
  <2>1. Underway' \subseteq Underway
    BY <1>6 DEF ServerReads, ServerDrops, PulseEnds, FireTypeOK, Underway
  <2>2. QED
    BY <1>6, <1>a, <2>1, NoMorePulses DEF ServerReads, ServerDrops, PulseEnds
<1>7. ASSUME NEW c \in Connections, PulseBegins(c) PROVE OnePulsePerPress'
  <2>1. c \in Underway /\ Underway' = Underway \ {c}
    BY <1>7 DEF PulseBegins, FireTypeOK, Underway
  <2>2. /\ Cardinality(Underway') = Cardinality(Underway) - 1
        /\ Cardinality(Underway') \in Nat
    BY <2>1, UnderwayMoves
  <2>3. /\ pulses' = pulses \/ pulses' = pulses + 1
        /\ queue' = queue /\ pressed' = pressed
    BY <1>7 DEF PulseBegins
  <2>4. QED
    BY <1>a, <2>2, <2>3 DEF OnePulsePerPress
<1>8. CASE ServerExits
  <2>1. Underway' \subseteq Underway
    BY <1>8 DEF ServerExits, FireTypeOK, Underway
  <2>2. QED
    BY <1>8, <1>a, <2>1, NoMorePulses DEF ServerExits
<1>9. QED
  BY <1>1, <1>2, <1>3, <1>4, <1>5, <1>6, <1>7, <1>8 DEF FireNext

\* The pin is raised at most once for each press of FIRE, whatever the network loses and
\* whenever the window is left.
THEOREM OnePressOnePulse == FireSpec => []OnePulsePerPress
<1>1. FireInit => OnePulsePerPress
  <2>1. FireInit => Underway = {}
    BY DEF FireInit, Underway
  <2>2. QED
    BY <2>1, FS_EmptySet DEF FireInit, OnePulsePerPress
<1>2. QED
  BY <1>1, FireTypeInit, FireTypeNext, OnePulseNext, PTL DEF FireSpec

-----------------------------------------------------------------------------
(* The lock.                                                               *)

\* The lock without cardinalities; a connection not yet made has no thread.
OneFires == \A c, d \in Connections : thread[c] = "firing" /\ thread[d] = "firing" => c = d
NotYetMade == \A c \in Connections : c > conn => thread[c] = "none"
PinHeld == pin = "high" => (\E c \in Connections : thread[c] = "firing") /\ PinIsOpen

\* A connection that was not made yet has no thread.
LEMMA NotYetMadeNext ==
  FireTypeOK /\ NotYetMade /\ [FireNext]_fireVars => NotYetMade'
<1> SUFFICES ASSUME FireTypeOK, NotYetMade, [FireNext]_fireVars PROVE NotYetMade'
  OBVIOUS
<1> USE DEF windowVars, clientVars, serverVars
<1>1. CASE UNCHANGED <<conn, thread>>
  BY <1>1 DEF NotYetMade
<1>2. CASE UNCHANGED fireVars \/ VerifyPassword \/ SlideToArm \/ PressFire \/ LeaveWindow
           \/ ConnectFails \/ SeesReply \/ GivesUp \/ HoldEnds
           \/ ShutdownLowersPin \/ ShutdownClosesPin
  BY <1>1, <1>2 DEF fireVars, VerifyPassword, SlideToArm, PressFire, LeaveWindow,
     ConnectFails, SeesReply, GivesUp, HoldEnds, ShutdownLowersPin, ShutdownClosesPin
<1>3. CASE Connect
  <2>1. \A c \in Connections : c > conn' => c > conn /\ c # conn + 1
    BY <1>3 DEF Connect, FireTypeOK, Connections
  <2>2. QED
    BY <1>3, <2>1 DEF Connect, FireTypeOK, NotYetMade
<1>4. ASSUME NEW c \in Connections,
             ServerReads(c) \/ ServerDrops(c) \/ PulseBegins(c) \/ PulseEnds(c)
      PROVE  NotYetMade'
  BY <1>4 DEF ServerReads, ServerDrops, PulseBegins, PulseEnds, FireTypeOK, NotYetMade
<1>5. CASE ServerExits
  BY <1>5 DEF ServerExits, FireTypeOK, NotYetMade
<1>6. QED
  BY <1>2, <1>3, <1>4, <1>5 DEF FireNext

\* Raising, lowering and closing the pin all respect the lock.
LEMMA PinNext ==
  FireTypeOK /\ NotYetMade /\ OneFires /\ PinHeld /\ [FireNext]_fireVars => OneFires' /\ PinHeld'
<1> SUFFICES ASSUME FireTypeOK, NotYetMade, OneFires, PinHeld, [FireNext]_fireVars
             PROVE  OneFires' /\ PinHeld'
  OBVIOUS
<1> USE DEF windowVars, clientVars, serverVars
<1>1. CASE UNCHANGED serverVars
  BY <1>1 DEF OneFires, PinHeld, PinIsOpen
<1>2. CASE UNCHANGED fireVars \/ VerifyPassword \/ SlideToArm \/ PressFire \/ LeaveWindow
           \/ ConnectFails \/ SeesReply \/ GivesUp \/ HoldEnds
  BY <1>1, <1>2 DEF fireVars, VerifyPassword, SlideToArm, PressFire, LeaveWindow,
     ConnectFails, SeesReply, GivesUp, HoldEnds
<1>3. CASE Connect
  <2>1. \A c \in Connections : thread'[c] = thread[c] \/ (c = conn + 1 /\ thread'[c] = "reading")
    BY <1>3 DEF Connect, FireTypeOK
  <2>2. \A c \in Connections : thread'[c] = "firing" => thread[c] = "firing"
    BY <2>1
  <2>3. \A c \in Connections : c = conn + 1 => thread[c] = "none"
    BY DEF NotYetMade, FireTypeOK, Connections
  <2>4. \A c \in Connections : thread[c] = "firing" => thread'[c] = "firing"
    BY <1>3, <2>1, <2>3 DEF Connect, FireTypeOK
  <2>5. QED
    BY <1>3, <2>2, <2>4 DEF Connect, OneFires, PinHeld, PinIsOpen
<1>4. ASSUME NEW c \in Connections, ServerReads(c) \/ ServerDrops(c)
      PROVE  OneFires' /\ PinHeld'
  <2>1. \A d \in Connections : thread'[d] = "firing" <=> thread[d] = "firing"
    BY <1>4 DEF ServerReads, ServerDrops, FireTypeOK
  <2>2. QED
    BY <1>4, <2>1 DEF ServerReads, ServerDrops, OneFires, PinHeld, PinIsOpen
<1>5. ASSUME NEW c \in Connections, PulseBegins(c) PROVE OneFires' /\ PinHeld'
  <2>1. \A d \in Connections : thread'[d] = "firing" => d = c
    BY <1>5 DEF PulseBegins, FireTypeOK
  <2>2. CASE PinIsOpen
    BY <1>5, <2>1, <2>2 DEF PulseBegins, FireTypeOK, OneFires, PinHeld, PinIsOpen
  <2>3. CASE ~PinIsOpen
    BY <1>5, <2>1, <2>3 DEF PulseBegins, OneFires, PinHeld
  <2>4. QED
    BY <2>2, <2>3
<1>6. ASSUME NEW c \in Connections, PulseEnds(c) PROVE OneFires' /\ PinHeld'
  BY <1>6 DEF PulseEnds, FireTypeOK, OneFires, PinHeld
<1>7. CASE ShutdownLowersPin \/ ShutdownClosesPin
  BY <1>7 DEF ShutdownLowersPin, ShutdownClosesPin, OneFires, PinHeld
<1>8. CASE ServerExits
  BY <1>8 DEF ServerExits, FireTypeOK, OneFires, PinHeld, PinIsOpen
<1>9. QED
  BY <1>2, <1>3, <1>4, <1>5, <1>6, <1>7, <1>8 DEF FireNext

\* The pin is high only for the one connection that holds the lock, and never once the
\* server has closed it.
THEOREM PinOnlyUnderLock == FireSpec => []PinUnderLock
<1>1. FireInit => NotYetMade /\ OneFires /\ PinHeld
  BY DEF FireInit, NotYetMade, OneFires, PinHeld
<1>2. OneFires /\ PinHeld => PinUnderLock
  <2> SUFFICES ASSUME OneFires, PinHeld PROVE PinUnderLock
    OBVIOUS
  <2>1. CASE Firing = {}
    BY <2>1, FS_EmptySet DEF PinHeld, PinUnderLock, Firing
  <2>2. CASE Firing # {}
    <3>1. PICK c : Firing = {c}
      BY <2>2 DEF OneFires, Firing
    <3>2. Cardinality(Firing) = 1
      BY <3>1, FS_Singleton
    <3>3. QED
      BY <2>2, <3>2 DEF PinHeld, PinUnderLock
  <2>3. QED
    BY <2>1, <2>2
<1>3. QED
  BY <1>1, <1>2, FireTypeCorrect, NotYetMadeNext, PinNext, PTL DEF FireSpec

-----------------------------------------------------------------------------
(* The presence of the tablet.                                             *)

\* At the start no loop runs.
LEMMA PresenceTypeInit == PresenceInit => PresenceTypeOK
<1> SUFFICES ASSUME PresenceInit PROVE PresenceTypeOK
  OBVIOUS
<1>1. /\ running = FALSE /\ worker = {} /\ pinged = FALSE /\ fireMode = 0
      /\ loop = [l \in Loops |-> "off"] /\ stopped = {} /\ pingAge = PingTimeout + 1
  BY DEF PresenceInit
<1>2. pingAge \in 0..(PingTimeout + 1)
  BY <1>1, PresenceAssumption
<1>3. {l \in Loops : loop[l] # "off"} = {}
  BY <1>1
<1>4. QED
  BY <1>1, <1>2, <1>3 DEF PresenceTypeOK

\* A loop that goes on or ends leaves only loops that run among the interrupted ones.
LEMMA GoesTyped ==
  ASSUME PresenceTypeOK, NEW l \in Loops, loop[l] # "off",
         NEW to \in {"off", "connect", "ping", "sleep"}, Goes(l, to)
  PROVE  /\ running' = running /\ worker' = worker /\ fireMode' = fireMode
         /\ loop' \in [Loops -> {"off", "connect", "ping", "sleep"}]
         /\ stopped' \subseteq {k \in Loops : loop'[k] # "off"}
         /\ {k \in Loops : loop'[k] # "off"} \ stopped' \subseteq worker'
<1>1. /\ running' = running /\ worker' = worker /\ fireMode' = fireMode
      /\ loop' = [loop EXCEPT ![l] = to]
      /\ stopped' = IF to = "off" THEN stopped \ {l} ELSE stopped
  BY DEF Goes
<1>2. loop' \in [Loops -> {"off", "connect", "ping", "sleep"}]
  BY <1>1 DEF PresenceTypeOK
<1>3. loop'[l] = to /\ \A k \in Loops \ {l} : loop'[k] = loop[k]
  BY <1>1 DEF PresenceTypeOK
<1>4. CASE to = "off"
  BY <1>1, <1>2, <1>3, <1>4 DEF PresenceTypeOK
<1>5. CASE to # "off"
  BY <1>1, <1>2, <1>3, <1>5 DEF PresenceTypeOK
<1>6. QED
  BY <1>4, <1>5

\* The types survive every step of the loops, the server and time.
LEMMA PresenceTypeNext == PresenceTypeOK /\ [PresenceNext]_presenceVars => PresenceTypeOK'
<1> SUFFICES ASSUME PresenceTypeOK, [PresenceNext]_presenceVars PROVE PresenceTypeOK'
  OBVIOUS
<1>a. PingTimeout \in Nat
  BY PresenceAssumption
<1>1. CASE UNCHANGED presenceVars
  BY <1>1 DEF presenceVars, hbVars, PresenceTypeOK
<1>2. ASSUME NEW l \in Loops, HeartbeatStart(l) PROVE PresenceTypeOK'
  <2>1. /\ running = FALSE /\ worker = {} /\ running' = TRUE /\ worker' = {l}
        /\ loop' = [loop EXCEPT ![l] = "connect"]
        /\ UNCHANGED <<stopped, pinged, pingAge, fireMode>>
    BY <1>2 DEF HeartbeatStart, PresenceTypeOK
  <2>2. /\ loop' \in [Loops -> {"off", "connect", "ping", "sleep"}]
        /\ loop'[l] = "connect" /\ \A k \in Loops \ {l} : loop'[k] = loop[k]
    BY <2>1 DEF PresenceTypeOK
  <2>3. /\ stopped' \subseteq {k \in Loops : loop'[k] # "off"}
        /\ {k \in Loops : loop'[k] # "off"} \ stopped' \subseteq worker'
    BY <2>1, <2>2 DEF PresenceTypeOK
  <2>4. QED
    BY <2>1, <2>2, <2>3 DEF PresenceTypeOK
<1>3. CASE HeartbeatStop
  <2>1. /\ running' = FALSE /\ worker' = {}
        /\ stopped' = stopped \cup {l \in worker : loop[l] # "off"}
        /\ UNCHANGED <<loop, pinged, pingAge, fireMode>>
    BY <1>3 DEF HeartbeatStop
  <2>2. QED
    BY <2>1 DEF PresenceTypeOK
<1>4. ASSUME NEW l \in Loops, LoopConnects(l) \/ LoopPings(l) \/ LoopSleeps(l)
      PROVE  PresenceTypeOK'
  <2>1. loop[l] # "off"
    BY <1>4 DEF LoopConnects, LoopPings, LoopSleeps
  <2>2. \E to \in {"off", "connect", "ping", "sleep"} : Goes(l, to)
    BY <1>4 DEF LoopConnects, LoopPings, LoopSleeps, Reconnects
  <2>3. (pinged' = pinged /\ pingAge' = pingAge) \/ (pinged' = TRUE /\ pingAge' = 0)
    BY <1>4 DEF LoopConnects, LoopPings, LoopSleeps
  <2>4. pinged' \in BOOLEAN /\ pingAge' \in 0..(PingTimeout + 1)
    <3>1. CASE pinged' = pinged /\ pingAge' = pingAge
      BY <3>1 DEF PresenceTypeOK
    <3>2. CASE pinged' = TRUE /\ pingAge' = 0
      BY <1>a, <3>2
    <3>3. QED
      BY <2>3, <3>1, <3>2
  <2>5. /\ running' = running /\ worker' = worker /\ fireMode' = fireMode
        /\ loop' \in [Loops -> {"off", "connect", "ping", "sleep"}]
        /\ stopped' \subseteq {k \in Loops : loop'[k] # "off"}
        /\ {k \in Loops : loop'[k] # "off"} \ stopped' \subseteq worker'
    BY <2>1, <2>2, GoesTyped
  <2>6. QED
    BY <2>4, <2>5 DEF PresenceTypeOK
<1>5. CASE TimePasses
  <2>1. pingAge' \in 0..(PingTimeout + 1) /\ UNCHANGED <<hbVars, pinged, fireMode>>
    BY <1>a, <1>5 DEF TimePasses, PresenceTypeOK
  <2>2. QED
    BY <2>1 DEF PresenceTypeOK, hbVars
<1>6. CASE PublishFireMode
  <2>1. fireMode' \in {0, 1} /\ UNCHANGED <<hbVars, pinged, pingAge>>
    BY <1>6 DEF PublishFireMode
  <2>2. QED
    BY <2>1 DEF PresenceTypeOK, hbVars
<1>7. QED
  BY <1>1, <1>2, <1>3, <1>4, <1>5, <1>6 DEF PresenceNext

\* However often FIRING and RESET follow each other, a loop that nobody interrupted is the
\* one HeartbeatClient knows of: after RESET every loop left over is on its way out.
THEOREM PresenceTypeCorrect == PresenceSpec => []PresenceTypeOK
BY PresenceTypeInit, PresenceTypeNext, PTL DEF PresenceSpec

-----------------------------------------------------------------------------
(* The five parts together.                                                *)

stationsVars == <<part, ones, linkVars, flipVars, bringVars, fireVars, presenceVars>>

\* A step of the composition is a step of one part, and the others rest.
LEMMA PartsStep ==
  ASSUME [Next]_stationsVars
  PROVE  /\ [LinkNext]_linkVars /\ [FlipNext]_flipVars /\ [BringNext]_bringVars
         /\ [FireNext]_fireVars /\ [PresenceNext]_presenceVars
         /\ ones' = ones
<1>1. CASE LinkNext /\ UNCHANGED <<ones, flipVars, bringVars, fireVars, presenceVars>>
  BY <1>1
<1>2. CASE FlipNext /\ UNCHANGED <<ones, linkVars, bringVars, fireVars, presenceVars>>
  BY <1>2
<1>3. CASE BringNext /\ UNCHANGED <<ones, linkVars, flipVars, fireVars, presenceVars>>
  BY <1>3
<1>4. CASE FireNext /\ UNCHANGED <<ones, linkVars, flipVars, bringVars, presenceVars>>
  BY <1>4
<1>5. CASE PresenceNext /\ UNCHANGED <<ones, linkVars, flipVars, bringVars, fireVars>>
  BY <1>5
<1>6. CASE UNCHANGED <<ones, linkVars, flipVars, bringVars, fireVars, presenceVars>>
  BY <1>6
<1>7. QED
  BY <1>1, <1>2, <1>3, <1>4, <1>5, <1>6 DEF Next, stationsVars

\* The parts start as their specifications say; while it rests, bring-up is long over.
LEMMA PartsStart ==
  ASSUME Init
  PROVE  /\ LinkInit /\ FlipInit /\ FireInit /\ PresenceInit
         /\ BringInit \/ BringRests
BY DEF Init

\* A behaviour of the composition is one of every part that its own theorems are about.
LEMMA PartsRun == Spec => LinkSpec /\ FlipSpec /\ FireSpec /\ PresenceSpec
BY PartsStart, PartsStep, PTL DEF Spec, stationsVars, LinkSpec, FlipSpec, FireSpec, PresenceSpec

\* A robot process that is over has its types too.
LEMMA RestsTyped == BringInit \/ BringRests => TypeInv
<1>1. BringRests => TypeInv
  <2> SUFFICES ASSUME BringRests PROVE TypeInv
    OBVIOUS
  <2>1. MaxRetries \in Nat /\ 0 < MaxRetries
    BY BringupAssumption
  <2>2. /\ stage = "over" /\ bus = "arm" /\ todo = {} /\ retries \in 0..MaxRetries
        /\ retries < MaxRetries
    BY <2>1 DEF BringRests
  <2>3. /\ stopAsked \in BOOLEAN /\ reading \in BOOLEAN /\ known \in BOOLEAN
        /\ latched \in BOOLEAN /\ outlived \in BOOLEAN
    BY DEF BringRests
  <2>4. /\ beats = {} /\ motors = {} /\ missing = {} /\ inMode = {} /\ online = {}
        /\ answering = AllMotors /\ silent = {} /\ powered = {} /\ ticking = {}
    BY DEF BringRests
  <2>5. BringTypeOK
    BY <2>2, <2>3, <2>4 DEF BringTypeOK
  <2>6. ListsFit
    BY <2>2, <2>4 DEF ListsFit, BringingUp
  <2>7. QED
    BY <2>5, <2>6 DEF TypeInv
<1>2. QED
  BY <1>1, TypeInvInit

\* Every part of the composition has its types in every state.
THEOREM StationsTypeCorrect == Spec => []StationsTypeOK
<1>1. Spec => []LinkTypeOK /\ []FlipTypeOK /\ []FireTypeOK /\ []PresenceTypeOK
  BY PartsRun, LinkTypeCorrect, FlipTypeCorrect, FireTypeCorrect, PresenceTypeCorrect, PTL
<1>2. Spec => []TypeInv
  BY PartsStart, PartsStep, RestsTyped, TypeInvNext, PTL DEF Spec, stationsVars
<1>3. TypeInv => BringTypeOK
  BY DEF TypeInv
<1>4. QED
  BY <1>1, <1>2, <1>3, PTL DEF StationsTypeOK

\* In every state the received frame is read channel by channel as it was sent.
THEOREM FramesDecoded == Spec => []FrameLayout
<1>1. Received \in Frames
  BY DEF Received, Frames
<1>2. FrameLayout
  BY <1>1, FrameDecoded DEF FrameLayout
<1>3. QED
  BY <1>2, PTL
=============================================================================
