CONSTANTS
 t = t
 u = u
 None = None
 Inputs = {"pitch"}
 Threads = {t, u}
 MaxWire = 2
SPECIFICATION MCSpec
INVARIANTS TypeOK RunningCanBeCancelled LinkLossOvershoot
PROPERTIES IsMailbox WorkerReturns HomeIsServed
