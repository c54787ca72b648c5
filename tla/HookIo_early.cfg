\* One fiber whose timer expires before it has registered.
SPECIFICATION Spec
CONSTANTS
    Fibers = {f1}
    NoFiber = NoFiber
    Fds = {70}
    MaxSockets = 1
    MaxCalls = 3
    MaxRounds = 1
    MaxLate = 1
INVARIANT TimeoutResumes
CHECK_DEADLOCK FALSE
