CONSTANTS
 w = w
 f = f
 Wheels = {w}
 Flippers = {}
 Speeds = {0, 5}
 Positions = {0, 10}
 EPS_CNT = 5
 EPS_VEL_CAN = 1
 MaxOutages = 1
 MaxFaults = 0
SPECIFICATION MCSpec
PROPERTY ReleasedWheelStops
