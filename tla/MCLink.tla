-------------------------------- MODULE MCLink --------------------------------
EXTENDS SbusLink
(* All channels at the centre, except the modes, the throttle, the scroll  *)
(* wheel and the light.                                                    *)
Transmitted(mode, operation, throttle, scroll, lights) ==
  [c \in Channels |-> CASE c = 1 -> mode [] c = 2 -> operation [] c = 3 -> throttle
                        [] c = 8 -> 1712 [] c = 13 -> lights [] c = 15 -> scroll
                        [] OTHER -> 992]
MCSticks == {Transmitted(1712, 992, 1712, 992, 272), Transmitted(992, 992, 992, 1712, 1712)}
=============================================================================
