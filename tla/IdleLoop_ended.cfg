\* One pool thread and the calling thread.
SPECIFICATION Spec
CONSTANTS
    Pool = {t1}
    Caller = main
    UseCaller = TRUE
    Jobs = {j1, j2}
    NoJob = NoJob
    AnyThread = AnyThread
    MaxWaits = 1
INVARIANT StopDrains
CHECK_DEADLOCK FALSE
