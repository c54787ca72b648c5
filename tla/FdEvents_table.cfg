SPECIFICATION Spec
CONSTANTS
    f1 = f1
    f2 = f2
    f3 = f3
    h1 = h1
    h2 = h2
    Fds = {40, 100}
    InitialSize = 32
    Waiters = {f1, f2}
    Removers = {f3}
    Threads = {h1, h2}
    MaxContexts = 2
    NoFiber = none
    NoInterest = unwatched
INVARIANTS
    RegisteredIsInTable
