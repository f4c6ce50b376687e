CONSTANTS
 j = j
 g = g
 h = h
 d = d
 Joints = {}
 Grippers = {g, h}
 DriveMotors = {d}
 Positions = {0, 10}
 Torques = {0, 5}
 EPS_CNT = 5
 EPS_TORQUE_CAN = 1
 MaxLosses = 1
 MaxFaults = 0
SPECIFICATION FairSpec
PROPERTIES LostMotorLatchesBus DriveFaultStopsArm
