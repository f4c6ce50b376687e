CONSTANTS
 j = j
 g = g
 h = h
 d = d
 Joints = {}
 Grippers = {g}
 DriveMotors = {}
 Positions = {0, 10}
 Torques = {0, 5}
 EPS_CNT = 5
 EPS_TORQUE_CAN = 1
 MaxLosses = 0
 MaxFaults = 0
SPECIFICATION FairSpec
PROPERTY IdleGripperDisarms
