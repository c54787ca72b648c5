\* One pool thread and the calling thread share two jobs; and one recurring
\* timer with two threads.
SPECIFICATION LoopsSpec
CONSTANTS
    Pool = {t1}
    Caller = main
    UseCaller = TRUE
    Jobs = {j1, j2}
    NoJob = NoJob
    AnyThread = AnyThread
    MaxWaits = 1
    client1 = client1
    h1 = h1
    h2 = h2
    none = none
    never = never
INVARIANTS
    TypeOK
    OnlyLateWaitsAreLeft
PROPERTIES
    EntryIsTaken
    StopEnds
    DueTimersLeave
CHECK_DEADLOCK FALSE
