\* P's callback makes a locked call (CallbackLocks); the button's GPIO ISR
\* fires up to twice while the tick handler is restarting P.
CONSTANTS
    P = P
    D = D
    Nil = Nil
    Period = 2
    DebounceTicks = 2
    MaxTick = 4
    MaxEdges = 2
    MaxNest = 2
    CallbackLocks = TRUE
SPECIFICATION Spec
INVARIANT ArmedTimersListed
