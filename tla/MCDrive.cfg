CONSTANTS
 w = w
 f = f
 Wheels = {w}
 Flippers = {f}
 Speeds = {0, 5}
 Positions = {0, 10}
 EPS_CNT = 5
 EPS_VEL_CAN = 1
 MaxOutages = 1
 MaxFaults = 1
SPECIFICATION MCSpec
INVARIANTS TypeOK BeliefMatchesDrive StoppedBusIsOff
PROPERTIES KeepsContract CommandsReachDrives FaultLeadsToAllOff LatchedNeverEnables EnabledWhenDeclared IdleMotorsDisarm
