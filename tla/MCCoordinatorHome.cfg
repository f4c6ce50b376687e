CONSTANTS
 t = t
 u = u
 None = None
 Inputs = {"pitch"}
 Threads = {t, u}
 MaxWire = 1
SPECIFICATION MCSpec
INVARIANT HomeInFlight
