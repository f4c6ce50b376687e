------------------------------- MODULE MCDrive -------------------------------
EXTENDS DriveController
CONSTANTS w, f

VARIABLE scenario

(* Either nothing is lost on the bus, or there is one outage; flippers are *)
(* then not commanded and do not fail on their own.                        *)
FlippersRest ==
  \A m \in Flippers :
    motorState[m] = 0 /\ lastRun[m] = 0 /\ cia[m] = "SWITCH_ON_DISABLED" /\ statusword[m] = cia[m]

MCInit == Init /\ scenario \in {"steady", "outage"} /\ (scenario = "outage" => FlippersRest)

MCNext ==
  /\ Next /\ UNCHANGED scenario
  /\ scenario = "steady" => outages' = 0
  /\ scenario = "outage" => \A m \in Flippers : motorState'[m] = 0 /\ cia'[m] # "FAULT"

MCSpec == MCInit /\ [][MCNext]_<<vars, scenario>> /\ Fairness
=============================================================================
