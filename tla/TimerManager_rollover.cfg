SPECIFICATION Spec
CONSTANTS
    c1 = c1
    h1 = h1
    h2 = h2
    Timers = {1, 2}
    Recurring = {1}
    Clients = {c1}
    Threads = {h1, h2}
    Delays = {1, 2}
    StartTime = 1
    MaxTime = 3
    MaxWait = 4
    Hour = 6
    Word = 128
    IntRange = 32
    NoTimer = none
    Never = never
PROPERTIES
    NeverEarly
