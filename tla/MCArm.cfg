CONSTANTS
 j = j
 g = g
 h = h
 d = d
 Joints = {j}
 Grippers = {}
 DriveMotors = {d}
 Positions = {0, 10}
 Torques = {0, 5}
 EPS_CNT = 5
 EPS_TORQUE_CAN = 1
 MaxLosses = 1
 MaxFaults = 1
SPECIFICATION Spec
INVARIANTS TypeOK BeliefMatchesDrive StoppedArmIsOff
PROPERTIES KeepsContract LatchedArmStaysOff LoopbackNeverCommanded RestoredInTurn
