CONSTANTS
 a = a
 b = b
 FlipThreads = {a, b}
 FlipCmds <- MCFlipCmds
 FrontMax = 3
 RearMax = 1
 AheadLimit = 2
 SendInterval = 2
 Colliding <- MCColliding
SPECIFICATION FlipSpec
INVARIANT FlipperTargetsClear
