----------------------------- MODULE BringupProofs -----------------------------
(***************************************************************************)
(* What holds of the life of the robot process for any motors on the two   *)
(* buses, whatever comes and goes while it starts, runs and ends.          *)
(***************************************************************************)
EXTENDS Bringup, TLAPS

Buses == {"arm", "drive"}
BringingUp == {"gate", "scan", "init", "verify", "settle", "policy"}

-----------------------------------------------------------------------------
(* The lists of motors.                                                    *)

\* A bus is scanned before any of its motors is in a list, and a motor that waits
\* for its initialisation is in none.
ListsFit ==
  /\ stage = "gate" => bus = "arm" /\ motors = {} /\ missing = {}
  /\ stage \in {"scan", "init", "verify"} /\ bus = "arm" => motors \cup missing \subseteq ArmBus
  /\ stage = "scan" => (motors \cup missing) \cap On(bus) = {}
  /\ stage = "init" => todo \subseteq On(bus) \ (motors \cup missing)
  /\ stage = "verify" => todo \subseteq motors
  /\ retries < MaxRetries
  /\ stage \in BringingUp => ticking = {}

TypeInv == BringTypeOK /\ ListsFit

\* The two buses share no motor.
LEMMA BusesApart ==
  /\ On("arm") = ArmBus /\ On("drive") = DriveBus /\ ArmBus \cap DriveBus = {}
  /\ AllMotors = ArmBus \cup DriveBus
BY BringupAssumption DEF On, AllMotors

\* A motor in the loop is one of those left in it.
LEMMA CurrentIn == todo # {} => Current \in todo
BY DEF Current

\* At the start every list is empty.
LEMMA TypeInvInit == BringInit => TypeInv
<1> SUFFICES ASSUME BringInit PROVE TypeInv
  OBVIOUS
<1>1. MaxRetries \in Nat /\ 0 < MaxRetries
  BY BringupAssumption
<1>2. BringTypeOK
  <2>1. AllMotors \ silent \subseteq answering /\ answering \subseteq AllMotors
    BY DEF BringInit
  <2>2. 0 \in 0..MaxRetries
    BY <1>1
  <2>3. QED
    BY <2>1, <2>2 DEF BringInit, BringTypeOK
<1>3. ListsFit
  BY <1>1 DEF BringInit, ListsFit
<1>4. QED
  BY <1>2, <1>3 DEF TypeInv

\* Whatever the mode read back, a motor goes from the loop to one list or stays.
LEMMA InitMotorKeeps == TypeInv /\ InitMotor => TypeInv'
<1> SUFFICES ASSUME TypeInv, InitMotor PROVE TypeInv'
  OBVIOUS
<1> USE DEF TypeInv
<1>1. /\ Current \in todo /\ Current \in AllMotors
      /\ Current \notin motors /\ Current \notin missing
      /\ retries \in Nat /\ retries < MaxRetries /\ MaxRetries \in Nat \ {0}
  BY CurrentIn, BringupAssumption DEF InitMotor, BringTypeOK, ListsFit
<1>2. PICK mode \in {"right", "wrong", "none"} : TryMotor(mode)
  BY DEF InitMotor
<1>3. /\ motors' \subseteq motors \cup {Current} /\ missing' \subseteq missing \cup {Current}
      /\ motors \subseteq motors' /\ missing \subseteq missing'
      /\ Current \notin motors' \/ Current \notin missing'
      /\ inMode' \subseteq inMode \cup (motors' \cap {Current})
      /\ todo' \subseteq todo
      /\ Current \in motors' \cup missing' => Current \notin todo'
      /\ retries' \in Nat /\ retries' < MaxRetries
  BY <1>1, <1>2 DEF TryMotor, Initialised
<1>4. BringTypeOK'
  <2>1. motors' \cap missing' = {} /\ inMode' \subseteq motors'
    BY <1>1, <1>3 DEF BringTypeOK
  <2>2. motors' \subseteq AllMotors /\ missing' \subseteq AllMotors /\ todo' \subseteq AllMotors
    BY <1>1, <1>3 DEF BringTypeOK
  <2>3. retries' \in 0..MaxRetries
    BY <1>1, <1>3
  <2>4. ticking' \subseteq motors'
    BY <1>3 DEF InitMotor, BringTypeOK
  <2>5. UNCHANGED <<stage, bus, stopAsked, reading, beats, known, online, latched,
                    answering, silent, powered, ticking, outlived>>
    BY DEF InitMotor, worldVars
  <2>6. QED
    BY <2>1, <2>2, <2>3, <2>4, <2>5 DEF BringTypeOK
<1>5. ListsFit'
  <2>1. bus = "arm" => AllMotors \cap On(bus) = ArmBus
    BY BusesApart
  <2>2. Current \in On(bus)
    BY <1>1 DEF InitMotor, ListsFit
  <2>3. UNCHANGED <<stage, bus, ticking>> /\ stage = "init"
    BY DEF InitMotor
  <2>4. bus = "arm" => (motors' \cup missing') \subseteq ArmBus
    BY <1>3, <2>2, <2>3, BusesApart DEF ListsFit
  <2>5. On(bus)' = On(bus)
    BY <2>3 DEF On
  <2>6. todo' \subseteq On(bus) \ (motors' \cup missing')
    BY <1>3, <2>3 DEF ListsFit
  <2>7. QED
    BY <1>3, <2>3, <2>4, <2>5, <2>6 DEF ListsFit
<1>6. QED
  BY <1>4, <1>5

\* Every other step keeps the lists as they are, or fills them from the scan.
LEMMA TypeInvNext == TypeInv /\ [BringNext]_bringVars => TypeInv'
<1> SUFFICES ASSUME TypeInv, [BringNext]_bringVars PROVE TypeInv'
  OBVIOUS
<1> USE DEF TypeInv, mainVars, foundVars, worldVars
<1>1. CASE UNCHANGED bringVars
  BY <1>1 DEF bringVars, BringTypeOK, ListsFit, On
<1>2. CASE Datagram \/ RequestShutdown
  BY <1>2 DEF Datagram, RequestShutdown, BringTypeOK, ListsFit, On
<1>3. ASSUME NEW m \in AllMotors, MotorComesOrGoes(m) PROVE TypeInv'
  <2>1. BringTypeOK'
    BY <1>3 DEF MotorComesOrGoes, BringTypeOK
  <2>2. ListsFit'
    BY <1>3 DEF MotorComesOrGoes, ListsFit, On
  <2>3. QED
    BY <2>1, <2>2
<1>4. ASSUME NEW m \in AllMotors, HeartbeatArrives(m) \/ HeartbeatTimesOut(m) PROVE TypeInv'
  BY <1>4 DEF HeartbeatArrives, HeartbeatTimesOut, BringTypeOK, ListsFit, On
<1>5. ASSUME NEW ms \in SUBSET AllMotors, TickBegins(ms) PROVE TypeInv'
  BY <1>5 DEF TickBegins, InUse, BringTypeOK, ListsFit, On, BringingUp
<1>6. ASSUME NEW m \in AllMotors, TickCommands(m) PROVE TypeInv'
  BY <1>6 DEF TickCommands, BringTypeOK, ListsFit, On, BringingUp
<1>7. CASE GateEnds
  BY <1>7, BusesApart DEF GateEnds, CreateNetwork, BringTypeOK, ListsFit, On, BringingUp
<1>8. CASE ScanEnds
  <2>1. BringTypeOK'
    BY <1>8, BusesApart, BringupAssumption DEF ScanEnds, BringTypeOK, ListsFit, On
  <2>2. ListsFit'
    BY <1>8, BusesApart, BringupAssumption DEF ScanEnds, BringTypeOK, ListsFit, On, BringingUp
  <2>3. QED
    BY <2>1, <2>2
<1>9. CASE InitMotor
  BY <1>9, InitMotorKeeps
<1>10. CASE MotorsBuilt
  BY <1>10 DEF MotorsBuilt, BringTypeOK, ListsFit, On, BringingUp
<1>11. CASE VerifyMode
  <2>1. Current \in motors
    BY <1>11, CurrentIn DEF VerifyMode, ListsFit
  <2>2. QED
    BY <1>11, <2>1 DEF VerifyMode, BringTypeOK, ListsFit, On, BringingUp
<1>12. CASE BusReady
  BY <1>12, BusesApart DEF BusReady, CreateNetwork, BringTypeOK, ListsFit, On, BringingUp
<1>13. CASE BringUpReturns \/ BringUpRaises \/ StartupPolicy \/ IdleLoopEnds \/ ExecutorStops
            \/ JoinEnds \/ DisarmAtEnd \/ GraceEnds \/ UniversalDisarm \/ Disconnect
  BY <1>13 DEF BringUpReturns, BringUpRaises, StartupPolicy, IdleLoopEnds, ExecutorStops,
     JoinEnds, DisarmAtEnd, GraceEnds, UniversalDisarm, Disconnect,
     BringTypeOK, ListsFit, On, BringingUp
<1>14. QED
  BY <1>1, <1>2, <1>3, <1>4, <1>5, <1>6, <1>7, <1>8, <1>9, <1>10, <1>11, <1>12, <1>13
  DEF BringNext, BringMain

\* The lists of motors keep their types, and a motor is never both usable and missing.
THEOREM BringTypeCorrect == BringSpec => []BringTypeOK
<1>1. TypeInv => BringTypeOK
  BY DEF TypeInv
<1>2. QED
  BY <1>1, TypeInvInit, TypeInvNext, PTL DEF BringSpec

-----------------------------------------------------------------------------
(* At rest before the first node.                                          *)

\* None of these motors that could be reached all the time is enabled.
Off(ms) == powered \cap Steady \cap ms = {}

\* Each bus is at rest from its reset on.
RestInv ==
  /\ stage \in {"scan", "init", "verify"} => Off(On(bus)) /\ (bus = "drive" => Off(ArmBus))
  /\ stage \in {"settle", "policy"} => Off(AllMotors)

\* A motor that went silent is never again one that was there throughout.
LEMMA SteadyShrinks == [BringNext]_bringVars => Steady' \subseteq Steady
<1> SUFFICES ASSUME [BringNext]_bringVars PROVE silent \subseteq silent'
  BY DEF Steady
<1> USE DEF worldVars
<1>1. CASE \E m \in AllMotors : MotorComesOrGoes(m)
  BY <1>1 DEF MotorComesOrGoes
<1>2. CASE UNCHANGED bringVars \/ Datagram \/ RequestShutdown
           \/ (\E m \in AllMotors : HeartbeatArrives(m) \/ HeartbeatTimesOut(m) \/ TickCommands(m))
           \/ (\E ms \in SUBSET AllMotors : TickBegins(ms))
  BY <1>2 DEF bringVars, Datagram, RequestShutdown, HeartbeatArrives, HeartbeatTimesOut,
     TickCommands, TickBegins
<1>3. CASE BringMain
  BY <1>3 DEF BringMain, GateEnds, ScanEnds, InitMotor, MotorsBuilt, VerifyMode, BusReady,
     BringUpReturns, BringUpRaises, StartupPolicy, IdleLoopEnds, ExecutorStops, JoinEnds,
     DisarmAtEnd, GraceEnds, UniversalDisarm, Disconnect
<1>4. QED
  BY <1>1, <1>2, <1>3 DEF BringNext

\* Only a callback and nothing in the bring-up enables a drive.
LEMMA RestNext == TypeInv /\ RestInv /\ [BringNext]_bringVars => RestInv'
<1> SUFFICES ASSUME TypeInv, RestInv, [BringNext]_bringVars PROVE RestInv'
  OBVIOUS
<1> USE DEF mainVars, foundVars, worldVars
<1>1. Steady' \subseteq Steady /\ Steady \subseteq answering
  BY SteadyShrinks DEF Steady, TypeInv, BringTypeOK
<1>2. ASSUME UNCHANGED <<stage, bus>>, powered' \subseteq powered PROVE RestInv'
  BY <1>1, <1>2 DEF RestInv, Off, On
<1>3. CASE UNCHANGED bringVars
  BY <1>2, <1>3 DEF bringVars
<1>4. CASE Datagram \/ RequestShutdown
           \/ (\E m \in AllMotors : MotorComesOrGoes(m) \/ HeartbeatArrives(m)
                                    \/ HeartbeatTimesOut(m))
           \/ (\E ms \in SUBSET AllMotors : TickBegins(ms)) \/ InitMotor \/ VerifyMode
  BY <1>2, <1>4 DEF Datagram, RequestShutdown, MotorComesOrGoes, HeartbeatArrives,
     HeartbeatTimesOut, TickBegins, InitMotor, VerifyMode
<1>5. ASSUME NEW m \in AllMotors, TickCommands(m) PROVE RestInv'
  BY <1>5 DEF TickCommands, RestInv, TypeInv, ListsFit, BringingUp
<1>6. CASE ScanEnds \/ MotorsBuilt
  BY <1>1, <1>6 DEF ScanEnds, MotorsBuilt, RestInv, Off, On
<1>7. CASE GateEnds
  <2>1. CASE reading /\ ~stopAsked
    BY <1>1, <1>7, <2>1 DEF GateEnds, CreateNetwork, RestInv, Off, On
  <2>2. CASE ~(reading /\ ~stopAsked)
    BY <1>7, <2>2 DEF GateEnds, RestInv
  <2>3. QED
    BY <2>1, <2>2
<1>8. CASE BusReady
  <2>1. CASE bus = "arm"
    BY <1>1, <1>8, <2>1, BusesApart DEF BusReady, CreateNetwork, RestInv, Off, On
  <2>2. CASE bus = "drive"
    BY <1>1, <1>8, <2>2, BusesApart DEF BusReady, RestInv, Off, On
  <2>3. QED
    BY <2>1, <2>2 DEF TypeInv, BringTypeOK
<1>9. CASE BringUpReturns
  BY <1>1, <1>9 DEF BringUpReturns, RestInv, Off, On, AllMotors
<1>10. CASE BringUpRaises \/ StartupPolicy \/ IdleLoopEnds \/ ExecutorStops \/ JoinEnds
            \/ DisarmAtEnd \/ GraceEnds \/ UniversalDisarm \/ Disconnect
  BY <1>10 DEF BringUpRaises, StartupPolicy, IdleLoopEnds, ExecutorStops, JoinEnds,
     DisarmAtEnd, GraceEnds, UniversalDisarm, Disconnect, RestInv
<1>11. QED
  BY <1>3, <1>4, <1>5, <1>6, <1>7, <1>8, <1>9, <1>10 DEF BringNext, BringMain

\* The start-up rules let the nodes run with every reachable drive at rest.
LEMMA SpinBegins ==
  TypeInv /\ RestInv /\ [BringNext]_bringVars /\ stage' = "spin" /\ stage # "spin"
    => powered' \cap Steady' = {}
<1> SUFFICES ASSUME TypeInv, RestInv, [BringNext]_bringVars, stage' = "spin", stage # "spin"
             PROVE  powered' \cap Steady' = {}
  OBVIOUS
<1> USE DEF mainVars, foundVars, worldVars
<1>1. StartupPolicy
  <2>1. ~(UNCHANGED stage)
    OBVIOUS
  <2>2. CASE BringMain
    BY <2>1, <2>2 DEF BringMain, GateEnds, CreateNetwork, ScanEnds, InitMotor, MotorsBuilt,
       VerifyMode, BusReady, BringUpReturns, BringUpRaises, IdleLoopEnds, ExecutorStops,
       JoinEnds, DisarmAtEnd, GraceEnds, UniversalDisarm, Disconnect
  <2>3. CASE ~BringMain
    BY <2>1, <2>3 DEF BringNext, bringVars, Datagram, RequestShutdown, MotorComesOrGoes,
       HeartbeatArrives, HeartbeatTimesOut, TickBegins, TickCommands
  <2>4. QED
    BY <2>2, <2>3
<1>2. Steady' \subseteq Steady /\ Steady \subseteq AllMotors
  BY SteadyShrinks DEF Steady
<1>3. powered' \subseteq powered
  BY <1>1 DEF StartupPolicy
<1>4. Off(AllMotors)
  BY <1>1 DEF StartupPolicy, RestInv
<1>5. QED
  BY <1>2, <1>3, <1>4 DEF Off

\* A drive left enabled by a process before is off when the first node runs.
THEOREM DrivesStartAtRest == BringSpec => RestBeforeNodes
<1>1. BringInit => RestInv
  BY DEF BringInit, RestInv
<1>2. TypeInv /\ RestInv /\ [BringNext]_bringVars
        => [stage' = "spin" /\ stage # "spin" => powered' \cap Steady' = {}]_bringVars
  BY SpinBegins
<1>3. QED
  BY <1>1, <1>2, TypeInvInit, TypeInvNext, RestNext, PTL DEF BringSpec, RestBeforeNodes

-----------------------------------------------------------------------------
(* The modes of the drive motors.                                          *)

\* The drive motors that must have their mode and were there throughout.
Asked == DriveBus \cap FailureExit \cap Steady

\* Such a motor waits for its initialisation, has its mode, or is missing.
ModeInv ==
  /\ stage = "init" /\ bus = "drive" => Asked \subseteq todo \cup inMode \cup missing
  /\ stage = "verify" /\ bus = "drive" => Asked \subseteq inMode \cup missing
  /\ stage \in {"settle", "policy"} => Asked \subseteq inMode \cup missing
  /\ stage = "spin" => Asked \subseteq inMode

\* The loop takes a motor that answers off its list only with its mode or as missing.
LEMMA ModeNext == TypeInv /\ ModeInv /\ [BringNext]_bringVars => ModeInv'
<1> SUFFICES ASSUME TypeInv, ModeInv, [BringNext]_bringVars PROVE ModeInv'
  OBVIOUS
<1> USE DEF mainVars, foundVars, worldVars
<1>1. Asked' \subseteq Asked /\ Asked \subseteq answering /\ Asked \subseteq DriveBus \ silent
  BY SteadyShrinks DEF Asked, Steady, TypeInv, BringTypeOK
<1>2. ASSUME UNCHANGED <<stage, bus, todo, inMode, missing>> PROVE ModeInv'
  BY <1>1, <1>2 DEF ModeInv
<1>3. CASE UNCHANGED bringVars
  BY <1>2, <1>3 DEF bringVars
<1>4. CASE Datagram \/ RequestShutdown
           \/ (\E m \in AllMotors : MotorComesOrGoes(m) \/ HeartbeatArrives(m)
                                    \/ HeartbeatTimesOut(m) \/ TickCommands(m))
           \/ (\E ms \in SUBSET AllMotors : TickBegins(ms))
  BY <1>2, <1>4 DEF Datagram, RequestShutdown, MotorComesOrGoes, HeartbeatArrives,
     HeartbeatTimesOut, TickCommands, TickBegins
<1>5. CASE ScanEnds
  BY <1>1, <1>5 DEF ScanEnds, ModeInv, On
<1>6. CASE InitMotor
  <2>1. PICK mode \in {"right", "wrong", "none"} :
          (mode # "none") = (Current \in answering) /\ TryMotor(mode)
    BY <1>6 DEF InitMotor
  <2>2. retries + 1 < MaxRetries \/ retries + 1 = MaxRetries
    BY BringupAssumption DEF TypeInv, BringTypeOK, ListsFit
  <2>3. inMode \subseteq inMode' /\ missing \subseteq missing' /\ todo \subseteq todo' \cup {Current}
    BY <2>1 DEF TryMotor, Initialised
  <2>4. Current \in Asked => Current \in todo' \cup inMode' \cup missing'
    <3>1. CASE mode = "right"
      BY <2>1, <3>1 DEF TryMotor, Initialised
    <3>2. CASE mode = "wrong" /\ Current \in Asked
      <4>1. Current \in FailureExit /\ Current \in todo
        BY <1>6, <3>2, CurrentIn DEF Asked, InitMotor
      <4>2. QED
        BY <2>1, <2>2, <3>2, <4>1 DEF TryMotor
    <3>3. QED
      BY <1>1, <2>1, <3>1, <3>2
  <2>5. UNCHANGED <<stage, bus>> /\ stage = "init"
    BY <1>6 DEF InitMotor
  <2>6. bus = "drive" => Asked' \subseteq todo' \cup inMode' \cup missing'
    BY <1>1, <2>3, <2>4, <2>5 DEF ModeInv
  <2>7. QED
    BY <2>5, <2>6 DEF ModeInv
<1>7. CASE MotorsBuilt \/ VerifyMode \/ BringUpReturns
  BY <1>1, <1>7 DEF MotorsBuilt, VerifyMode, BringUpReturns, ModeInv
<1>8. CASE BusReady
  BY <1>1, <1>8 DEF BusReady, CreateNetwork, ModeInv, TypeInv, BringTypeOK
<1>9. CASE StartupPolicy
  <2>1. stage = "policy" /\ UNCHANGED <<inMode, missing>>
        /\ (stage' = "halt" \/ (stage' = "spin" /\ missing \cap DriveBus = {}))
    BY <1>9 DEF StartupPolicy
  <2>2. Asked \subseteq inMode \cup missing
    BY <2>1 DEF ModeInv
  <2>3. QED
    BY <1>1, <2>1, <2>2 DEF ModeInv
<1>10. CASE GateEnds \/ BringUpRaises \/ IdleLoopEnds \/ ExecutorStops \/ JoinEnds
            \/ DisarmAtEnd \/ GraceEnds \/ UniversalDisarm \/ Disconnect
  BY <1>10 DEF GateEnds, CreateNetwork, BringUpRaises, IdleLoopEnds, ExecutorStops, JoinEnds,
     DisarmAtEnd, GraceEnds, UniversalDisarm, Disconnect, ModeInv
<1>11. QED
  BY <1>3, <1>4, <1>5, <1>6, <1>7, <1>8, <1>9, <1>10 DEF BringNext, BringMain

\* With FAILURE_EXIT no drive motor that was there is driven in a mode it does not have.
THEOREM ModesAreRight == BringSpec => []OnlySilenceIsMissed
<1>1. BringInit => ModeInv
  BY DEF BringInit, ModeInv
<1>2. ModeInv => OnlySilenceIsMissed
  BY DEF ModeInv, Asked, OnlySilenceIsMissed
<1>3. QED
  BY <1>1, <1>2, TypeInvInit, TypeInvNext, ModeNext, PTL DEF BringSpec

-----------------------------------------------------------------------------
(* At rest after the last node.                                            *)

\* The networks that are connected, stage by stage.
OnlineInv ==
  /\ known => stage \notin {"gate", "scan", "init", "verify", "settle"}
  /\ outlived => stage \in {"close", "leave", "over"}
  /\ stage \in {"scan", "init", "verify"} => bus \in online /\ (bus = "drive" => "arm" \in online)
  /\ stage \in {"settle", "policy", "spin"} => online = Buses

\* A bus is closed with its motors off, and with no callback left nothing can
\* enable one again: the close of each bus comes after every callback.
ClosedInv ==
  known /\ ~outlived =>
    /\ \A b \in Buses \ online : Off(motors \cap On(b))
    /\ stage \in {"close", "leave", "over"} =>
         /\ ticking = {}
         /\ bus = "drive" => Off(motors \cap ArmBus)
         /\ stage = "leave" => Off(motors \cap On(bus))
         /\ stage = "over" => Off(motors)

\* Both buses are connected before the nodes run, and closed only by the shutdown.
LEMMA OnlineNext == TypeInv /\ OnlineInv /\ [BringNext]_bringVars => OnlineInv'
<1> SUFFICES ASSUME TypeInv, OnlineInv, [BringNext]_bringVars PROVE OnlineInv'
  OBVIOUS
<1> USE DEF mainVars, foundVars, worldVars, OnlineInv
<1>1. CASE UNCHANGED bringVars \/ Datagram \/ RequestShutdown
           \/ (\E m \in AllMotors : MotorComesOrGoes(m) \/ HeartbeatArrives(m)
                                    \/ HeartbeatTimesOut(m) \/ TickCommands(m))
           \/ (\E ms \in SUBSET AllMotors : TickBegins(ms))
  <2>1. UNCHANGED <<stage, bus, known, online, outlived>>
    BY <1>1 DEF bringVars, Datagram, RequestShutdown, MotorComesOrGoes, HeartbeatArrives,
       HeartbeatTimesOut, TickCommands, TickBegins
  <2>2. QED
    BY <2>1
<1>2. CASE GateEnds \/ ScanEnds \/ InitMotor \/ MotorsBuilt \/ VerifyMode \/ BringUpReturns
           \/ BringUpRaises \/ StartupPolicy
  BY <1>2 DEF GateEnds, CreateNetwork, ScanEnds, InitMotor, MotorsBuilt, VerifyMode,
     BringUpReturns, BringUpRaises, StartupPolicy, TypeInv, ListsFit
<1>3. CASE BusReady
  BY <1>3 DEF BusReady, CreateNetwork, Buses, TypeInv, BringTypeOK
<1>4. CASE IdleLoopEnds \/ ExecutorStops \/ JoinEnds \/ DisarmAtEnd \/ GraceEnds
           \/ UniversalDisarm \/ Disconnect
  BY <1>4 DEF IdleLoopEnds, ExecutorStops, JoinEnds, DisarmAtEnd, GraceEnds,
     UniversalDisarm, Disconnect
<1>5. QED
  BY <1>1, <1>2, <1>3, <1>4 DEF BringNext, BringMain

\* Only a callback enables a drive, and only on a bus that is connected.
LEMMA ClosedNext ==
  TypeInv /\ OnlineInv /\ ClosedInv /\ [BringNext]_bringVars => ClosedInv'
<1> SUFFICES ASSUME TypeInv, OnlineInv, ClosedInv, [BringNext]_bringVars PROVE ClosedInv'
  OBVIOUS
<1> USE DEF mainVars, foundVars, worldVars
<1>1. Steady' \subseteq Steady /\ Steady \subseteq answering
  BY SteadyShrinks DEF Steady, TypeInv, BringTypeOK
<1>2. ASSUME UNCHANGED <<motors, known, online, outlived>>, powered' \subseteq powered,
             UNCHANGED <<stage, bus>> \/ stage' \notin {"close", "leave", "over"},
             ticking' = ticking \/ stage' \notin {"close", "leave", "over"}
      PROVE  ClosedInv'
  BY <1>1, <1>2 DEF ClosedInv, Off, On
<1>3. CASE UNCHANGED bringVars \/ Datagram \/ RequestShutdown
           \/ (\E m \in AllMotors : MotorComesOrGoes(m) \/ HeartbeatArrives(m)
                                    \/ HeartbeatTimesOut(m))
  BY <1>2, <1>3 DEF bringVars, Datagram, RequestShutdown, MotorComesOrGoes,
     HeartbeatArrives, HeartbeatTimesOut
<1>4. CASE (\E ms \in SUBSET AllMotors : TickBegins(ms)) \/ IdleLoopEnds \/ ExecutorStops
           \/ JoinEnds \/ DisarmAtEnd
  BY <1>2, <1>4 DEF TickBegins, IdleLoopEnds, ExecutorStops, JoinEnds, DisarmAtEnd
<1>5. ASSUME NEW m \in AllMotors, TickCommands(m) PROVE ClosedInv'
  <2>1. UNCHANGED <<stage, bus, motors, known, online, outlived>> /\ m \in ticking
    BY <1>5 DEF TickCommands
  <2>2. known /\ ~outlived => stage \notin {"close", "leave", "over"}
    BY <2>1 DEF ClosedInv
  <2>3. \A b \in Buses \ online : powered' \cap On(b) \subseteq powered
    <3>1. SUFFICES ASSUME NEW b \in Buses \ online, m \in Reached({m}), m \in On(b) PROVE FALSE
      BY <1>5 DEF TickCommands
    <3>2. PICK c \in online : m \in On(c)
      BY <3>1 DEF Reached
    <3>3. b \in {"arm", "drive"} /\ c \in {"arm", "drive"} /\ b # c
      BY <3>2 DEF TypeInv, BringTypeOK, Buses
    <3>4. QED
      BY <3>1, <3>2, <3>3, BusesApart
  <2>4. QED
    BY <1>1, <2>1, <2>2, <2>3 DEF ClosedInv, Off, On
<1>6. CASE GateEnds \/ ScanEnds \/ InitMotor \/ MotorsBuilt \/ VerifyMode \/ BusReady
           \/ BringUpRaises
  <2>1. ~known /\ known' = known
    BY <1>6 DEF GateEnds, ScanEnds, InitMotor, MotorsBuilt, VerifyMode, BusReady,
       BringUpRaises, OnlineInv
  <2>2. QED
    BY <2>1 DEF ClosedInv
<1>7. CASE BringUpReturns
  BY <1>7 DEF BringUpReturns, OnlineInv, ClosedInv
<1>8. CASE StartupPolicy
  <2>1. /\ stage' \notin {"close", "leave", "over"}
        /\ UNCHANGED <<motors, known, outlived, silent>>
        /\ powered' \subseteq powered
        /\ online = Buses
        /\ online' = online \/ powered' = powered \ Reached(AllMotors)
    BY <1>8 DEF StartupPolicy, OnlineInv
  <2>2. CASE online' = online
    BY <2>1, <2>2 DEF ClosedInv
  <2>3. CASE powered' = powered \ Reached(AllMotors)
    <3>1. motors \cap answering \subseteq Reached(AllMotors)
      BY <2>1, BusesApart DEF Reached, Buses, TypeInv, BringTypeOK
    <3>2. powered' \cap Steady' \cap motors' = {}
      BY <1>1, <2>1, <2>3, <3>1
    <3>3. QED
      BY <2>1, <3>2 DEF ClosedInv, Off
  <2>4. QED
    BY <2>1, <2>2, <2>3
<1>9. CASE GraceEnds
  BY <1>1, <1>9 DEF GraceEnds, ClosedInv, OnlineInv, Off, On, Steady
<1>10. CASE UniversalDisarm
  <2>1. /\ stage = "close" /\ stage' = "leave" /\ powered' = powered \ Reached(On(bus))
        /\ UNCHANGED <<bus, motors, known, online, ticking, outlived>>
    BY <1>10 DEF UniversalDisarm
  <2>2. bus \in Buses
    BY DEF TypeInv, BringTypeOK, Buses
  <2>3. bus \in online => motors \cap answering \cap On(bus) \subseteq Reached(On(bus))
    BY DEF Reached
  <2>4. known /\ ~outlived => powered' \cap Steady' \cap (motors' \cap On(bus)) = {}
    BY <1>1, <2>1, <2>2, <2>3 DEF ClosedInv, Off
  <2>5. QED
    BY <1>1, <2>1, <2>4 DEF ClosedInv, Off, On
<1>11. CASE Disconnect
  <2>1. /\ stage = "leave" /\ UNCHANGED <<motors, known, ticking, outlived, powered, silent>>
        /\ online \ {bus} \subseteq online'
        /\ bus = "arm" => stage' = "close" /\ bus' = "drive"
        /\ bus # "arm" => stage' = "over" /\ bus' = bus
    BY <1>11 DEF Disconnect
  <2>2. bus \in {"arm", "drive"} /\ motors \subseteq ArmBus \cup DriveBus
    BY BusesApart DEF TypeInv, BringTypeOK
  <2>3. Steady' = Steady
    BY <2>1 DEF Steady
  <2>4. SUFFICES ASSUME known, ~outlived
                 PROVE  /\ \A b \in Buses \ online' : Off(motors \cap On(b))
                        /\ bus' = "drive" => Off(motors \cap ArmBus)
                        /\ stage' = "over" => Off(motors)
    BY <2>1, <2>3 DEF ClosedInv, Off, On
  <2>5. /\ Off(motors \cap On(bus))
        /\ bus = "drive" => Off(motors \cap ArmBus)
        /\ \A b \in Buses \ online : Off(motors \cap On(b))
    BY <2>1, <2>4 DEF ClosedInv
  <2>6. bus = "drive" => Off(motors)
    BY <2>2, <2>5, BusesApart DEF Off
  <2>7. QED
    BY <2>1, <2>2, <2>5, <2>6, BusesApart
<1>12. QED
  BY <1>3, <1>4, <1>5, <1>6, <1>7, <1>8, <1>9, <1>10, <1>11 DEF BringNext, BringMain

\* When the process is over no drive in use that could be reached is enabled, unless a
\* callback ran even while the buses were closed or the bring-up was aborted.
THEOREM DrivesEndAtRest == BringSpec => []EndsAtRest
<1>1. BringInit => OnlineInv /\ ClosedInv
  BY DEF BringInit, OnlineInv, ClosedInv
<1>2. ClosedInv => EndsAtRest
  BY DEF ClosedInv, Off, EndsAtRest
<1>3. QED
  BY <1>1, <1>2, TypeInvInit, TypeInvNext, OnlineNext, ClosedNext, PTL DEF BringSpec
=============================================================================
