SPECIFICATION Spec
CONSTANTS
    w1 = w1
    w2 = w2
    f1 = f1
    f2 = f2
    Pool = {w1, w2}
    Caller = caller
    UseCaller = TRUE
    Fibers = {f1, f2}
    Cbs = {f1}
    AnyThread = any
    NoFiber = none
    WakeParkedOnly = FALSE
    MaxSchedules = 2
INVARIANTS
    OneThreadPerFiber
