------------------------------- MODULE SbusLink -------------------------------
(***************************************************************************)
(* From the radio to the wheels: sbus_publisher.py, and the two nodes that *)
(* turn its messages into the drive demand on /sbus/joint_states:          *)
(* sbus_joint_state_publisher.py, and the intake and the watchdog of       *)
(* coordinator_node.py.                                                    *)
(*                                                                         *)
(* Time passes in units.  Within one the 200 Hz poll and every timer that  *)
(* is due have run, and messages are handled or lost (best effort); an age *)
(* counts units and stops at the largest one that is ever compared.  The   *)
(* callbacks of the coordinator run on several threads: two messages may   *)
(* be handled in either order.                                             *)
(***************************************************************************)
EXTENDS SbusFrame, Sequences

CONSTANTS
  Sticks,          \* channel values the transmitter may send
  FrameTimeout,    \* frame_timeout of the publisher (100 ms)
  SafePeriod,      \* _SAFE_STATE_MIN_PERIOD_NS (50 ms)
  JointTimeout,    \* watchdog_timeout of the joint-state publisher (0.5 s)
  LinkTimeout,     \* watchdog_timeout of the coordinator (2 s)
  WatchdogPeriod,  \* period of its watchdog timer (1 s)
  MaxIntake,       \* bound: messages its threads handle at a time
  Overlap          \* may a message be handled during a watchdog tick?

ASSUME SbusLinkAssumption ==
  /\ \A ch \in Sticks : ChannelsLookSane(ch)
  /\ SafePeriod \in 0..FrameTimeout
  /\ FrameTimeout \in 0..JointTimeout
  /\ JointTimeout \in 0..LinkTimeout
  /\ LinkTimeout \in Nat /\ WatchdogPeriod \in Nat \ {0}
  /\ MaxIntake \in Nat \ {0}
  /\ Overlap \in BOOLEAN

VARIABLES
  port,         \* _ser: "open", "closed", or being reopened
  polled,       \* the port was read in this unit
  frameAge,     \* time since _last_good_frame_ns
  safeActive,   \* _safe_state_active
  safeAge,      \* time since _last_safe_publish_ns
  light, axis,  \* what the interpreter keeps
  sent,         \* the last message on /sbus/control
  joint,        \* what the joint-state publisher latched of it
  jointAge,     \* time since its _last_sbus_time
  intake,       \* messages the coordinator's threads are handling
  demand,       \* what the coordinator latched: _sjs_drive_left, ...
  linkAge,      \* time since its _last_sbus_time
  linkWatchdog, \* _watchdog_triggered
  watchdogAge,  \* time since its watchdog timer last fired
  zeroing       \* the watchdog tick has found the link lost

publisherVars == <<port, polled, frameAge, safeActive, safeAge, light, axis>>
jointVars == <<joint, jointAge>>
intakeVars == <<intake, demand, linkAge, linkWatchdog>>
watchdogVars == <<watchdogAge, zeroing>>
linkVars == <<publisherVars, sent, jointVars, intakeVars, watchdogVars>>

SafeMessage == Still("ARM", "DISARMED", light, axis)
DemandOf(m) == <<m.drive_left, m.drive_right, m.claw_cmd>>
NoDemand == <<0, 0, 0>>
StopBound == LinkTimeout + WatchdogPeriod

Messages == {Interpret(ch) : ch \in Sticks}
            \cup {Still("ARM", "DISARMED", l, a) : l, a \in {0, 1}}
Demands == {DemandOf(m) : m \in Messages}

LinkTypeOK ==
  /\ port \in {"open", "closed", "reopening"}
  /\ polled \in BOOLEAN
  /\ frameAge \in 0..(StopBound + 1)
  /\ safeActive \in BOOLEAN
  /\ safeAge \in 0..SafePeriod
  /\ light \in {0, 1} /\ axis \in {0, 1}
  /\ sent \in Messages
  /\ joint \in Demands
  /\ jointAge \in 0..(JointTimeout + 1)
  /\ intake \in Seq(Demands) /\ Len(intake) <= MaxIntake
  /\ demand \in Demands
  /\ linkAge \in 0..LinkTimeout
  /\ linkWatchdog \in BOOLEAN
  /\ watchdogAge \in 0..WatchdogPeriod
  /\ zeroing \in BOOLEAN
  /\ zeroing => ~linkWatchdog

LinkInit ==
  /\ port = "open" /\ polled = FALSE
  /\ frameAge = StopBound + 1
  /\ safeActive = FALSE /\ safeAge = SafePeriod
  /\ light = 0 /\ axis = 0
  /\ sent = Still("ARM", "DISARMED", 0, 0)
  /\ joint = NoDemand /\ jointAge = JointTimeout + 1
  /\ intake = <<>> /\ demand = NoDemand
  /\ linkAge = 0 /\ linkWatchdog = FALSE
  /\ watchdogAge = 0 /\ zeroing = FALSE

-----------------------------------------------------------------------------
(* A message is delivered to each node, or lost to it.  The joint-state    *)
(* publisher has one thread.  The coordinator notes the time and clears    *)
(* its watchdog at once, and latches the message in a later step.          *)
Deliver(m) ==
  /\ \/ joint' = DemandOf(m) /\ jointAge' = 0
     \/ UNCHANGED jointVars
  /\ \/ /\ Len(intake) < MaxIntake
        /\ Overlap \/ ~zeroing
        /\ intake' = Append(intake, DemandOf(m))
        /\ linkAge' = 0
        /\ linkWatchdog' = FALSE
     \/ UNCHANGED <<intake, linkAge, linkWatchdog>>
  /\ UNCHANGED <<demand, watchdogVars>>

Quiet == UNCHANGED <<sent, jointVars, intakeVars, watchdogVars>>

\* Mutant: the rate limit still counts from the safe state before the last good frame.
PublishSafeState_keeps_time ==
  /\ safeActive' = TRUE
  /\ IF safeAge >= SafePeriod
       THEN safeAge' = 0 /\ sent' = SafeMessage /\ Deliver(SafeMessage)
       ELSE UNCHANGED safeAge /\ Quiet

(* The first one goes out at once, the next ones at a limited rate. *)
PublishSafeState ==
  /\ safeActive' = TRUE
  /\ IF ~safeActive \/ safeAge >= SafePeriod
       THEN safeAge' = 0 /\ sent' = SafeMessage /\ Deliver(SafeMessage)
       ELSE UNCHANGED safeAge /\ Quiet

(* No frame, or one that is misaligned or garbage. *)
ReadNothing ==
  /\ port = "open"
  /\ polled' = TRUE
  /\ IF frameAge > FrameTimeout
       THEN PublishSafeState
       ELSE UNCHANGED <<safeActive, safeAge>> /\ Quiet
  /\ UNCHANGED <<port, frameAge, light, axis>>

(* The receiver says itself that the radio is gone. *)
ReadFailsafe ==
  /\ port = "open"
  /\ polled' = TRUE
  /\ PublishSafeState
  /\ UNCHANGED <<port, frameAge, light, axis>>

ReadGoodFrame(ch) ==
  LET m == Interpret(ch)
  IN /\ port = "open"
     /\ polled' = TRUE
     /\ frameAge' = 0
     /\ safeActive' = FALSE
     /\ light' = m.light_state /\ axis' = m.camera_axis
     /\ sent' = m
     /\ Deliver(m)
     /\ UNCHANGED <<port, safeAge>>

(* The read raises: the port is closed, and after a while opened anew.  No *)
(* timeout is looked at.  A closed port raises at the next poll.           *)
ReadFails ==
  /\ port # "reopening"
  /\ port' = "reopening"
  /\ UNCHANGED <<polled, frameAge, safeActive, safeAge, light, axis>>
  /\ Quiet

Reopened ==
  /\ port = "reopening"
  /\ port' \in {"open", "closed"}
  /\ UNCHANGED <<polled, frameAge, safeActive, safeAge, light, axis>>
  /\ Quiet

-----------------------------------------------------------------------------
(* The end of the coordinator's _on_sbus, on any of its threads. *)
OnSbusLatches(i) ==
  /\ demand' = intake[i]
  /\ intake' = SubSeq(intake, 1, i - 1) \o SubSeq(intake, i + 1, Len(intake))
  /\ UNCHANGED <<publisherVars, sent, jointVars, linkAge, linkWatchdog, watchdogVars>>

\* Mutant: the timer acts again although the link is known to be lost.
WatchdogLooks_again ==
  /\ watchdogAge = WatchdogPeriod
  /\ watchdogAge' = 0
  /\ Overlap \/ intake = <<>>
  /\ zeroing' = (linkAge >= LinkTimeout)
  /\ UNCHANGED <<publisherVars, sent, jointVars, intakeVars>>

(* _watchdog_tick looks at the time ... *)
WatchdogLooks ==
  /\ watchdogAge = WatchdogPeriod
  /\ watchdogAge' = 0
  /\ Overlap \/ intake = <<>>
  /\ zeroing' = (~linkWatchdog /\ linkAge >= LinkTimeout)
  /\ UNCHANGED <<publisherVars, sent, jointVars, intakeVars>>

\* Mutant: the drive and the claw are not among what is zeroed.
WatchdogZeroes_arm_only ==
  /\ zeroing
  /\ zeroing' = FALSE
  /\ linkWatchdog' = TRUE
  /\ UNCHANGED <<publisherVars, sent, jointVars, intake, demand, linkAge, watchdogAge>>

(* ... and acts on what it saw. *)
WatchdogZeroes ==
  /\ zeroing
  /\ zeroing' = FALSE
  /\ linkWatchdog' = TRUE
  /\ demand' = NoDemand
  /\ UNCHANGED <<publisherVars, sent, jointVars, intake, linkAge, watchdogAge>>

Older(age, most) == IF age < most THEN age + 1 ELSE most

(* A unit is over when all it had time for is done. *)
UnitPasses ==
  /\ polled \/ port # "open"
  /\ intake = <<>> /\ ~zeroing
  /\ watchdogAge < WatchdogPeriod
  /\ polled' = FALSE
  /\ frameAge' = Older(frameAge, StopBound + 1)
  /\ safeAge' = Older(safeAge, SafePeriod)
  /\ jointAge' = Older(jointAge, JointTimeout + 1)
  /\ linkAge' = Older(linkAge, LinkTimeout)
  /\ watchdogAge' = watchdogAge + 1
  /\ UNCHANGED <<port, safeActive, light, axis, sent, joint, intake, demand,
                 linkWatchdog, zeroing>>

LinkNext ==
  \/ ReadNothing
  \/ ReadFailsafe
  \/ \E ch \in Sticks : ReadGoodFrame(ch)
  \/ ReadFails
  \/ Reopened
  \/ \E i \in DOMAIN intake : OnSbusLatches(i)
  \/ WatchdogLooks
  \/ WatchdogZeroes
  \/ UnitPasses

LinkSpec == LinkInit /\ [][LinkNext]_linkVars

-----------------------------------------------------------------------------
(* When the publisher has noticed that the link is lost, the last thing it *)
(* said is the safe state: a link that comes and goes faster than the rate *)
(* limit never leaves a live command standing (_publish_safe_state).       *)
SafeStateIsOut == safeActive => sent = SafeMessage

(* What the joint-state publisher puts on the wheels' topic (_publish). *)
JointDemand == IF jointAge > JointTimeout THEN NoDemand ELSE joint

(* The end of the chain: whatever is lost, reordered, or fails between the *)
(* radio and the wheels (the serial port included, for which no safe state *)
(* is published), no demand outlives the watchdogs of the two nodes.       *)
LostLinkStopsWheels ==
  /\ frameAge > JointTimeout => JointDemand = NoDemand
  /\ frameAge > StopBound => demand = NoDemand
=============================================================================
