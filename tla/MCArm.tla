-------------------------------- MODULE MCArm --------------------------------
EXTENDS ArmController
CONSTANTS j, g, h, d
=============================================================================
