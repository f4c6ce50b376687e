-------------------------- MODULE HeartbeatMonitor --------------------------
(***************************************************************************)
(* motor_heartbeat_node.py.  Two threads change its state: the CAN thread, *)
(* when a heartbeat arrives (_on_heartbeat_change), and the executor, in   *)
(* the liveness poll and the diagnostics timer.  `_lock' guards the maps,  *)
(* but _publish_bus_active computes its list under the lock and publishes  *)
(* it after releasing the lock, so the two threads may publish out of      *)
(* order.  Times are abstracted to what the code compares them with.       *)
(***************************************************************************)
EXTENDS CanBus, Sequences

VARIABLES
  beat,            \* last_heartbeat_time: "fresh", or older than 2.5 s
  alive,           \* _arm_alive and _drive_alive
  lostSince,       \* _hb_lost_since: absent, recent, or HB_FAULT_TIMEOUT ago
  armFaulted,      \* _arm_faulted
  busLatched,      \* _arm_bus_latched of this node
  driveTriggered,  \* _drive_fault_triggered
  pollStep,        \* what the executor still has to do in this callback
  pollList,        \* the active list it has computed
  canStep,         \* the same of the CAN thread
  canList,
  activeQ,         \* /arm_active messages under way
  armFaultQ,       \* /arm_fault_stop messages under way
  driveFaultQ      \* /drive_fault_stop messages under way

maps == <<beat, alive, lostSince>>
latches == <<armFaulted, busLatched, driveTriggered>>
polling == <<pollStep, pollList>>
canThread == <<canStep, canList>>
topics == <<activeQ, armFaultQ, driveFaultQ>>
monitor == <<maps, latches, polling, canThread, topics>>

ALL == "__ALL__"

MonitorTypeOK ==
  /\ beat \in [Motors -> {"fresh", "stale"}]
  /\ alive \in [Motors -> BOOLEAN]
  /\ lostSince \in [Motors -> {"None", "Recent", "Long"}]
  /\ armFaulted \subseteq ArmMotors
  /\ busLatched \in BOOLEAN /\ driveTriggered \in BOOLEAN
  /\ pollStep \in {"idle", "list", "publish", "check"}
  /\ canStep \in {"idle", "list", "publish"}
  /\ pollList \subseteq ArmMotors /\ canList \subseteq ArmMotors
  /\ activeQ \in Seq(SUBSET ArmMotors)
  /\ armFaultQ \in Seq(ArmMotors \cup {ALL})
  /\ driveFaultQ \in BOOLEAN

MonitorInit ==
  /\ beat = [m \in Motors |-> "fresh"]
  /\ alive = [m \in Motors |-> TRUE]
  /\ lostSince = [m \in Motors |-> "None"]
  /\ armFaulted = {} /\ busLatched = FALSE /\ driveTriggered = FALSE
  /\ pollStep = "idle" /\ pollList = {}
  /\ canStep = "idle" /\ canList = {}
  /\ activeQ = <<ArmMotors>>                \* _publish_bus_active("arm")
  /\ armFaultQ = <<>> /\ driveFaultQ = FALSE

AliveArm == {m \in ArmMotors : alive[m]}

-----------------------------------------------------------------------------
(* The CAN thread: a heartbeat of m.                                       *)

\* heartbeat_interrupt stamps the time, then calls on_hb_received.  Only a
\* change of an arm motor is published on a topic a controller reads.
Heartbeat(m) ==
  /\ link[m] = "up" /\ canStep = "idle"
  /\ beat' = [beat EXCEPT ![m] = "fresh"]
  /\ alive' = [alive EXCEPT ![m] = TRUE]
  /\ lostSince' = [lostSince EXCEPT ![m] = "None"]
  /\ canStep' = IF m \in ArmMotors /\ ~alive[m] THEN "list" ELSE "idle"
  /\ UNCHANGED <<bus, latches, polling, canList, topics>>

CanComputesList ==
  /\ canStep = "list"
  /\ canList' = AliveArm /\ canStep' = "publish"
  /\ UNCHANGED <<bus, maps, latches, polling, topics>>

CanPublishes ==
  /\ canStep = "publish"
  /\ activeQ' = Append(activeQ, canList)
  /\ canStep' = "idle" /\ canList' = {}
  /\ UNCHANGED <<bus, maps, latches, polling, armFaultQ, driveFaultQ>>

\* HB_LIVENESS_TIMEOUT_S without a beat; HB_FAULT_TIMEOUT after the loss.
BeatGoesStale(m) ==
  /\ link[m] = "down" /\ beat[m] = "fresh"
  /\ beat' = [beat EXCEPT ![m] = "stale"]
  /\ UNCHANGED <<bus, alive, lostSince, latches, polling, canThread, topics>>

LossGrowsLong(m) ==
  /\ lostSince[m] = "Recent"
  /\ lostSince' = [lostSince EXCEPT ![m] = "Long"]
  /\ UNCHANGED <<bus, beat, alive, latches, polling, canThread, topics>>

-----------------------------------------------------------------------------
(* The executor: _poll_heartbeat_liveness, then _check_heartbeat_faults.   *)

PollUpdates ==
  /\ executor = "free" /\ executor' = "monitor"
  /\ alive' = [m \in Motors |-> beat[m] = "fresh"]
  /\ lostSince' = [m \in Motors |->
       CASE beat[m] = "fresh" -> "None"
         [] beat[m] = "stale" /\ lostSince[m] = "None" -> "Recent"
         [] OTHER -> lostSince[m]]
  /\ pollStep' = IF \E m \in ArmMotors : alive[m] # (beat[m] = "fresh") THEN "list" ELSE "check"
  /\ UNCHANGED <<drives, wires, beat, latches, pollList, canThread, topics>>

PollComputesList ==
  /\ pollStep = "list"
  /\ pollList' = AliveArm /\ pollStep' = "publish"
  /\ UNCHANGED <<bus, maps, latches, canThread, topics>>

PollPublishes ==
  /\ pollStep = "publish"
  /\ activeQ' = Append(activeQ, pollList)
  /\ pollStep' = "check" /\ pollList' = {}
  /\ UNCHANGED <<bus, maps, latches, canThread, armFaultQ, driveFaultQ>>

\* _trigger_drive_fault, _trigger_arm_bus_fault and _trigger_arm_fault, in the
\* combination one callback meets them: each publishes, then disarms.
Trigger(driveFault, busFault, armFaults) ==
  LET drive == driveFault /\ ~driveTriggered
      whole == busFault /\ ~busLatched
      single == IF busLatched THEN {} ELSE armFaults \ armFaulted
      hit == CASE drive -> Motors
               [] ~drive /\ whole -> ArmMotors
               [] OTHER -> single
  IN /\ driveTriggered' = (driveTriggered \/ drive)
     /\ driveFaultQ' = (driveFaultQ \/ drive)
     /\ busLatched' = (busLatched \/ whole)
     /\ armFaulted' = armFaulted \cup single
     /\ \E order \in [1..Cardinality(single) -> single] :
          /\ \A m \in single : \E i \in DOMAIN order : order[i] = m
          /\ armFaultQ' = armFaultQ \o order \o (IF whole THEN <<ALL>> ELSE <<>>)
     /\ DisarmDrives(hit)

CheckHeartbeatFaults ==
  /\ pollStep = "check"
  /\ Trigger(\E m \in DriveMotors : lostSince[m] = "Long",
             \E m \in ArmMotors : lostSince[m] = "Long", {})
  /\ pollStep' = "idle" /\ executor' = "free"
  /\ UNCHANGED <<wires, maps, pollList, canThread, activeQ>>

\* _publish_all_diagnostics: faults first, then the same check.  The telemetry
\* of a motor that is off the bus may or may not have shown its fault.
PublishDiagnostics ==
  /\ executor = "free" /\ executor' = "monitor"
  /\ \E shown \in SUBSET {m \in Motors : cia[m] = "FAULT"} :
       /\ \A m \in Motors : cia[m] = "FAULT" /\ link[m] = "up" => m \in shown
       /\ Trigger(shown \cap DriveMotors # {}, FALSE, shown \cap ArmMotors)
  /\ pollStep' = "check"
  /\ UNCHANGED <<wires, maps, pollList, canThread, activeQ>>

MonitorNext ==
  \/ \E m \in Motors : Heartbeat(m) \/ BeatGoesStale(m) \/ LossGrowsLong(m)
  \/ CanComputesList \/ CanPublishes
  \/ PollUpdates \/ PollComputesList \/ PollPublishes
  \/ CheckHeartbeatFaults \/ PublishDiagnostics
=============================================================================
