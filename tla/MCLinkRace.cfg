CONSTANTS
 Sticks <- MCSticks
 FrameTimeout = 1
 SafePeriod = 1
 JointTimeout = 2
 LinkTimeout = 3
 WatchdogPeriod = 2
 MaxIntake = 2
 Overlap = TRUE
SPECIFICATION LinkSpec
INVARIANT LostLinkStopsWheels
