CONSTANTS
 a = a
 b = b
 shoulder = shoulder
 wheel = wheel
 Sticks <- MCSticks
 FrameTimeout = 1
 SafePeriod = 1
 JointTimeout = 2
 LinkTimeout = 3
 WatchdogPeriod = 2
 MaxIntake = 2
 Overlap = FALSE
 FlipThreads = {a, b}
 FlipCmds <- MCFlipCmds
 FrontMax = 3
 RearMax = 1
 AheadLimit = 2
 SendInterval = 2
 Colliding <- MCColliding
 ArmBus = {shoulder}
 DriveBus = {wheel}
 FailureExit = {shoulder, wheel}
 MaxRetries = 2
 MaxPresses = 2
 Loops = {a, b}
 PingTimeout = 2
CHECK_DEADLOCK FALSE
SPECIFICATION Spec
INVARIANTS StationsTypeOK FrameLayout SafeStateIsOut LostLinkStopsWheels ReleasedFlipperHolds EndsAtRest OnlySilenceIsMissed OnePulsePerPress PinUnderLock
PROPERTIES HeldFlipperArrives TargetsClearInTurn RestBeforeNodes StopLeadsToOver FireModeEnds
