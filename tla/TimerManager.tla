---------------------------- MODULE TimerManager ----------------------------
(***************************************************************************)
(* The timers of sylar/timer.cc and the part of IOManager::idle() that     *)
(* serves them: client threads add, cancel, refresh and reset timers while *)
(* the scheduler's threads sleep until the earliest one, collect what has  *)
(* expired and queue the callbacks.                                        *)
(*                                                                         *)
(* A timer is identified by its address, a number, because the set of      *)
(* timers is ordered by expiry time and then by address.                   *)
(***************************************************************************)
EXTENDS Integers

CONSTANTS
    Timers,     \* the Timer objects, numbers in the order of their addresses
    Recurring,  \* those of them that clients create as recurring
    Clients,    \* threads that call the interface of TimerManager and Timer
    Threads,    \* the scheduler's threads
    Delays,     \* the values of ms clients use
    StartTime,  \* GetElapsedMS() when the manager is constructed
    MaxTime,    \* bound: the clock stops here
    MaxWait,    \* MAX_TIMEOUT of IOManager::idle()
    Hour,       \* 60 * 60 * 1000 of detectClockRollover()
    Word,       \* 2^64, the modulus of uint64_t
    IntRange,   \* 2^32, the number of values of int
    NoTimer,    \* no Timer
    Never       \* the end of a wait without a timeout

ASSUME TimerAssumption ==
    Timers \subseteq Int /\ Recurring \subseteq Timers /\ NoTimer \notin Timers
ASSUME ClockAssumption == StartTime \in Nat /\ MaxTime \in Nat /\ StartTime <= MaxTime
ASSUME WidthAssumption == Word \in Nat \ {0} /\ IntRange \in Nat \ {0}
ASSUME DelayAssumption == Delays \subseteq 0..(Word - 1) /\ MaxWait \in Nat /\ Hour \in Nat
ASSUME NeverAssumption == Never \notin Int

\* A local variable of a thread that is out of scope has its initial value.
VARIABLES
    now,              \* CLOCK_MONOTONIC_RAW in milliseconds
    timer,            \* m_next, m_ms and whether m_cb is set
    m_timers,         \* the set of pending timers
    m_tickled,
    m_previouseTime,
    known,            \* the timers addTimer() has returned
    client, held,     \* where a client thread is and the timer it is inserting
    pc,               \* where a scheduler thread is in run() and idle()
    now_ms,           \* the time a thread has read in listExpiredCb()
    cbs,              \* the callbacks a thread has collected
    deadline,         \* when a thread's epoll_wait() times out
    drains,           \* whether a thread's epoll_wait() returned the pipe
    edge,             \* the pipe holds a byte epoll has not reported yet
    queued,           \* how often each timer's callback is in the task list
    fate              \* history: what has become of each timer

vars == <<now, timer, m_timers, m_tickled, m_previouseTime, known, client, held,
          pc, now_ms, cbs, deadline, drains, edge, queued, fate>>

threadVars == <<pc, now_ms, cbs, deadline, drains>>
clientVars == <<known, client, held>>

Init ==
    /\ now = StartTime
    /\ timer = [t \in Timers |-> [next |-> 0, ms |-> 0, cb |-> FALSE]]
    /\ m_timers = {}
    /\ m_tickled = FALSE
    /\ m_previouseTime = StartTime
    /\ known = {}
    /\ client = [c \in Clients |-> "free"]
    /\ held = [c \in Clients |-> NoTimer]
    /\ pc = [th \in Threads |-> "run"]
    /\ now_ms = [th \in Threads |-> StartTime]
    /\ cbs = [th \in Threads |-> {}]
    /\ deadline = [th \in Threads |-> StartTime]
    /\ drains = [th \in Threads |-> FALSE]
    /\ edge = FALSE
    /\ queued = [t \in Timers |-> 0]
    /\ fate = [t \in Timers |-> "pending"]

-----------------------------------------------------------------------------
\* Comparator: by time, then by address.
Before(tm, t, u) ==
    \/ tm[t].next < tm[u].next
    \/ tm[t].next = tm[u].next /\ t < u

Expiry(ms) == (now + ms) % Word

\* The threads hasIdleThreads() counts.
IdleThreads == {th \in Threads : pc[th] # "run"}

\* IOManager::tickle(): a byte for the pipe if anybody may be waiting.
tickle == edge' = (edge \/ IdleThreads # {})

\* TimerManager::addTimer(val, lock): insert t into the set `others`, and when
\* it comes first and no earlier insertion is being announced, go on to
\* announce it after the unlock.
AddTimer(c, t, tm, others) ==
    LET at_front == ~m_tickled /\ \A u \in others \ {t} : Before(tm, t, u)
    IN  /\ m_timers' = others \cup {t}
        /\ m_tickled' = (m_tickled \/ at_front)
        /\ IF at_front
             THEN /\ client' = [client EXCEPT ![c] = "tickle"]
                  /\ held' = [held EXCEPT ![c] = t]
                  /\ UNCHANGED known
             ELSE /\ client' = [client EXCEPT ![c] = "free"]
                  /\ held' = [held EXCEPT ![c] = NoTimer]
                  /\ known' = known \cup {t}

\* addTimer(ms, cb, recurring) constructs the Timer, which reads the clock,
\* before it locks.
NewTimer(c) ==
    /\ client[c] = "free"
    /\ \E t \in Timers \ known, ms \in Delays :
         /\ \A d \in Clients : held[d] # t
         /\ timer' = [timer EXCEPT ![t] = [next |-> Expiry(ms), ms |-> ms, cb |-> TRUE]]
         /\ held' = [held EXCEPT ![c] = t]
    /\ client' = [client EXCEPT ![c] = "insert"]
    /\ UNCHANGED <<now, m_timers, m_tickled, m_previouseTime, known, threadVars,
                   edge, queued, fate>>

Insert(c) ==
    /\ client[c] = "insert"
    /\ AddTimer(c, held[c], timer, m_timers)
    /\ UNCHANGED <<now, timer, m_previouseTime, threadVars, edge, queued, fate>>

\* onTimerInsertedAtFront(), outside the lock.
TickleFront(c) ==
    /\ client[c] = "tickle"
    /\ tickle
    /\ client' = [client EXCEPT ![c] = "free"]
    /\ held' = [held EXCEPT ![c] = NoTimer]
    /\ known' = known \cup {held[c]}
    /\ UNCHANGED <<now, timer, m_timers, m_tickled, m_previouseTime, threadVars,
                   queued, fate>>

\* Timer::cancel() of a timer that still has its callback.
Cancel(c, t) ==
    /\ client[c] = "free"
    /\ t \in known
    /\ timer[t].cb
    /\ timer' = [timer EXCEPT ![t].cb = FALSE]
    /\ m_timers' = m_timers \ {t}
    /\ fate' = [fate EXCEPT ![t] = "cancelled"]
    /\ UNCHANGED <<now, m_tickled, m_previouseTime, clientVars, threadVars,
                   edge, queued>>

\* Timer::refresh(): put back with a new time, announced to nobody.
Refresh(c, t) ==
    /\ client[c] = "free"
    /\ t \in known
    /\ timer[t].cb
    /\ t \in m_timers
    /\ timer' = [timer EXCEPT ![t].next = Expiry(timer[t].ms)]
    /\ UNCHANGED <<now, m_timers, m_tickled, m_previouseTime, clientVars, threadVars,
                   edge, queued, fate>>

\* Mutant of Reset: m_ms keeps the old delay.
ResetKeepsDelay(c, t, ms, from_now) ==
    /\ client[c] = "free"
    /\ t \in known
    /\ ms # timer[t].ms \/ from_now
    /\ timer[t].cb
    /\ t \in m_timers
    /\ LET start == IF from_now THEN now ELSE timer[t].next - timer[t].ms
           tm    == [timer EXCEPT ![t].next = (start + ms) % Word]
       IN  /\ timer' = tm
           /\ AddTimer(c, t, tm, m_timers \ {t})
    /\ UNCHANGED <<now, m_previouseTime, threadVars, edge, queued, fate>>

\* Timer::reset(): a new delay, counted from now or from the old start.
Reset(c, t, ms, from_now) ==
    /\ client[c] = "free"
    /\ t \in known
    /\ ms # timer[t].ms \/ from_now
    /\ timer[t].cb
    /\ t \in m_timers
    /\ LET start == IF from_now THEN now ELSE timer[t].next - timer[t].ms
           tm    == [timer EXCEPT ![t].ms = ms, ![t].next = (start + ms) % Word]
       IN  /\ timer' = tm
           /\ AddTimer(c, t, tm, m_timers \ {t})
    /\ UNCHANGED <<now, m_previouseTime, threadVars, edge, queued, fate>>

-----------------------------------------------------------------------------
\* A timer that does not recur has run for good.
Ran(t) == fate' = [fate EXCEPT ![t] = IF t \in Recurring THEN @ ELSE "ran"]

\* Mutant of RunCallback: the entry is not checked for.
RunCallbackBlindly(th) ==
    /\ pc[th] = "run"
    /\ \E t \in Timers : queued' = [queued EXCEPT ![t] = @ - 1] /\ Ran(t)
    /\ UNCHANGED <<now, timer, m_timers, m_tickled, m_previouseTime, clientVars,
                   threadVars, edge>>

\* run() resumes a queued callback.
RunCallback(th) ==
    /\ pc[th] = "run"
    /\ \E t \in Timers :
         /\ queued[t] > 0
         /\ queued' = [queued EXCEPT ![t] = @ - 1]
         /\ Ran(t)
    /\ UNCHANGED <<now, timer, m_timers, m_tickled, m_previouseTime, clientVars,
                   threadVars, edge>>

\* With nothing to run, run() resumes the idle fiber.
EnterIdle(th) ==
    /\ pc[th] = "run"
    /\ \A t \in Timers : queued[t] = 0
    /\ pc' = [pc EXCEPT ![th] = "next"]
    /\ UNCHANGED <<now, timer, m_timers, m_tickled, m_previouseTime, clientVars,
                   now_ms, cbs, deadline, drains, edge, queued, fate>>

\* The conversion (int)next_timeout.
ToInt(n) == LET r == n % IntRange
            IN  IF r < IntRange \div 2 THEN r ELSE r - IntRange

\* getNextTimer(): the time to the earliest timer.
Earliest(t) == t \in m_timers /\ \A u \in m_timers \ {t} : Before(timer, t, u)

nextTimeout(t) == IF timer[t].next <= now THEN 0 ELSE timer[t].next - now

\* epoll_wait() with the smaller of ms and MAX_TIMEOUT; a negative timeout
\* blocks without limit.
WaitFor(th, ms) ==
    deadline' = [deadline EXCEPT ![th] =
        IF ms < 0 THEN Never ELSE now + (IF MaxWait < ms THEN MaxWait ELSE ms)]

\* Mutant of GetNextTimer: m_tickled is never reset.
GetNextTimerOnceTickled(th) ==
    /\ pc[th] = "next"
    /\ \/ m_timers = {} /\ WaitFor(th, MaxWait)
       \/ \E t \in Timers : Earliest(t) /\ WaitFor(th, ToInt(nextTimeout(t)))
    /\ pc' = [pc EXCEPT ![th] = "wait"]
    /\ UNCHANGED <<now, timer, m_timers, m_tickled, m_previouseTime, clientVars,
                   now_ms, cbs, drains, edge, queued, fate>>

\* idle() asks for the next timeout, which resets m_tickled, and blocks in
\* epoll_wait().
GetNextTimer(th) ==
    /\ pc[th] = "next"
    /\ m_tickled' = FALSE
    /\ \/ m_timers = {} /\ WaitFor(th, MaxWait)
       \/ \E t \in Timers : Earliest(t) /\ WaitFor(th, ToInt(nextTimeout(t)))
    /\ pc' = [pc EXCEPT ![th] = "wait"]
    /\ UNCHANGED <<now, timer, m_timers, m_previouseTime, clientVars, now_ms, cbs,
                   drains, edge, queued, fate>>

Wake(th, byPipe) ==
    /\ pc[th] = "wait"
    /\ pc' = [pc EXCEPT ![th] = "list"]
    /\ drains' = [drains EXCEPT ![th] = byPipe]
    /\ deadline' = [deadline EXCEPT ![th] = StartTime]
    /\ UNCHANGED <<now, timer, m_timers, m_tickled, m_previouseTime, clientVars,
                   now_ms, cbs, queued, fate>>

\* epoll_wait() returns: the timeout has passed, the pipe has become readable
\* (one waiting thread sees it), or some other descriptor is ready.
WakeTimeout(th) ==
    /\ deadline[th] # Never
    /\ deadline[th] <= now
    /\ Wake(th, FALSE)
    /\ UNCHANGED edge

WakeTickle(th) == edge /\ edge' = FALSE /\ Wake(th, TRUE)

WakeOther(th) == Wake(th, FALSE) /\ UNCHANGED edge

\* listExpiredCb() reads the clock, then looks whether there is any timer,
\* then takes the write lock.
ReadClock(th) ==
    /\ pc[th] = "list"
    /\ now_ms' = [now_ms EXCEPT ![th] = now]
    /\ pc' = [pc EXCEPT ![th] = "check"]
    /\ UNCHANGED <<now, timer, m_timers, m_tickled, m_previouseTime, clientVars,
                   cbs, deadline, drains, edge, queued, fate>>

CheckEmpty(th) ==
    /\ pc[th] = "check"
    /\ pc' = [pc EXCEPT ![th] = IF m_timers = {} THEN "schedule" ELSE "collect"]
    /\ UNCHANGED <<now, timer, m_timers, m_tickled, m_previouseTime, clientVars,
                   now_ms, cbs, deadline, drains, edge, queued, fate>>

\* Mutant of rollover: any step back counts.
rolloverByAnything(th) == now_ms[th] < m_previouseTime

\* detectClockRollover(): the subtraction is one of uint64_t.
rollover(th) ==
    /\ now_ms[th] < m_previouseTime
    /\ now_ms[th] < (m_previouseTime - Hour) % Word

\* Mutant of Expired: lower_bound() without the loop over equal times.
ExpiredStrictly(th) ==
    IF rollover(th) THEN m_timers
                    ELSE {t \in m_timers : timer[t].next < now_ms[th]}

Expired(th) ==
    IF rollover(th) THEN m_timers
                    ELSE {t \in m_timers : timer[t].next <= now_ms[th]}

\* Mutants of Collect: a callback is kept, or an expired timer is not erased.
CollectKeepsCallback(th) ==
    /\ pc[th] = "collect"
    /\ m_previouseTime' = IF m_timers = {} THEN m_previouseTime ELSE now_ms[th]
    /\ m_timers' = {t \in m_timers : t \in Expired(th) => t \in Recurring}
    /\ timer' = [t \in Timers |->
                  IF t \in Expired(th) \cap Recurring
                    THEN [timer[t] EXCEPT !.next = (now_ms[th] + timer[t].ms) % Word]
                    ELSE timer[t]]
    /\ fate' = [t \in Timers |->
                 IF t \in Expired(th) \ Recurring THEN "handed" ELSE fate[t]]
    /\ cbs' = [cbs EXCEPT ![th] = Expired(th)]
    /\ pc' = [pc EXCEPT ![th] = "schedule"]
    /\ UNCHANGED <<now, m_tickled, clientVars, now_ms, deadline, drains, edge,
                   queued>>

CollectKeepsTimer(th) ==
    /\ pc[th] = "collect"
    /\ m_previouseTime' = IF m_timers = {} THEN m_previouseTime ELSE now_ms[th]
    /\ timer' = [t \in Timers |->
                  IF t \in Expired(th) \cap Recurring
                    THEN [timer[t] EXCEPT !.next = (now_ms[th] + timer[t].ms) % Word]
                    ELSE timer[t]]
    /\ fate' = [t \in Timers |->
                 IF t \in Expired(th) \ Recurring THEN "handed" ELSE fate[t]]
    /\ cbs' = [cbs EXCEPT ![th] = Expired(th)]
    /\ pc' = [pc EXCEPT ![th] = "schedule"]
    /\ UNCHANGED <<now, m_timers, m_tickled, clientVars, now_ms, deadline, drains,
                   edge, queued>>

\* The locked part of listExpiredCb(): expired timers leave the set with their
\* callbacks; recurring ones come back with a new time.
Collect(th) ==
    /\ pc[th] = "collect"
    /\ m_previouseTime' = IF m_timers = {} THEN m_previouseTime ELSE now_ms[th]
    /\ m_timers' = {t \in m_timers : t \in Expired(th) => t \in Recurring}
    /\ timer' = [t \in Timers |->
                  IF t \notin Expired(th) THEN timer[t]
                  ELSE IF t \in Recurring
                    THEN [timer[t] EXCEPT !.next = (now_ms[th] + timer[t].ms) % Word]
                    ELSE [timer[t] EXCEPT !.cb = FALSE]]
    /\ fate' = [t \in Timers |->
                 IF t \in Expired(th) \ Recurring THEN "handed" ELSE fate[t]]
    /\ cbs' = [cbs EXCEPT ![th] = Expired(th)]
    /\ pc' = [pc EXCEPT ![th] = "schedule"]
    /\ UNCHANGED <<now, m_tickled, clientVars, now_ms, deadline, drains, edge,
                   queued>>

\* schedule(cb) for each collected callback, which tickles when the task list
\* was empty.
ScheduleCallback(th) ==
    /\ pc[th] = "schedule"
    /\ \E t \in cbs[th] :
         /\ cbs' = [cbs EXCEPT ![th] = @ \ {t}]
         /\ queued' = [queued EXCEPT ![t] = @ + 1]
    /\ IF \A t \in Timers : queued[t] = 0 THEN tickle ELSE UNCHANGED edge
    /\ UNCHANGED <<now, timer, m_timers, m_tickled, m_previouseTime, clientVars,
                   pc, now_ms, deadline, drains, fate>>

\* The pipe is read empty if epoll_wait() reported it, and idle() yields.
LeaveIdle(th) ==
    /\ pc[th] = "schedule"
    /\ cbs[th] = {}
    /\ edge' = (edge /\ ~drains[th])
    /\ drains' = [drains EXCEPT ![th] = FALSE]
    /\ now_ms' = [now_ms EXCEPT ![th] = StartTime]
    /\ pc' = [pc EXCEPT ![th] = "run"]
    /\ UNCHANGED <<now, timer, m_timers, m_tickled, m_previouseTime, clientVars,
                   cbs, deadline, queued, fate>>

-----------------------------------------------------------------------------
Tick ==
    /\ now < MaxTime
    /\ now' = now + 1
    /\ UNCHANGED <<timer, m_timers, m_tickled, m_previouseTime, clientVars,
                   threadVars, edge, queued, fate>>

Client(c) ==
    \/ NewTimer(c) \/ Insert(c) \/ TickleFront(c)
    \/ \E t \in Timers :
         \/ Cancel(c, t) \/ Refresh(c, t)
         \/ \E ms \in Delays, from_now \in BOOLEAN : Reset(c, t, ms, from_now)

Serve(th) ==
    \/ RunCallback(th) \/ EnterIdle(th) \/ GetNextTimer(th)
    \/ WakeTimeout(th) \/ WakeTickle(th)
    \/ ReadClock(th) \/ CheckEmpty(th) \/ Collect(th)
    \/ ScheduleCallback(th) \/ LeaveIdle(th)

Next ==
    \/ Tick
    \/ \E c \in Clients : Client(c)
    \/ \E th \in Threads : Serve(th) \/ WakeOther(th)

\* The operating system runs every thread that can go on; a client that has
\* inserted a timer goes on to announce it.
Fairness ==
    /\ \A th \in Threads : WF_vars(Serve(th))
    /\ \A c \in Clients : WF_vars(TickleFront(c))

Spec == Init /\ [][Next]_vars
FairSpec == Spec /\ Fairness

-----------------------------------------------------------------------------
TypeOK ==
    /\ now \in StartTime..MaxTime
    /\ timer \in [Timers -> [next: 0..(Word - 1), ms: Delays \cup {0}, cb: BOOLEAN]]
    /\ m_timers \subseteq Timers
    /\ m_tickled \in BOOLEAN
    /\ m_previouseTime \in Nat
    /\ known \subseteq Timers
    /\ client \in [Clients -> {"free", "insert", "tickle"}]
    /\ held \in [Clients -> Timers \cup {NoTimer}]
    /\ \A c \in Clients : client[c] = "free" <=> held[c] = NoTimer
    /\ pc \in [Threads -> {"run", "next", "wait", "list", "check", "collect", "schedule"}]
    /\ now_ms \in [Threads -> Nat]
    /\ cbs \in [Threads -> SUBSET Timers]
    /\ deadline \in [Threads -> Nat \cup {Never}]
    /\ drains \in [Threads -> BOOLEAN]
    /\ edge \in BOOLEAN
    /\ queued \in [Timers -> Nat]
    /\ fate \in [Timers -> {"pending", "cancelled", "handed", "ran"}]

\* A timer is in the set exactly while it has its callback, from the moment it
\* is inserted: cancel(), which erases what it finds without looking whether
\* it found anything (timer.cc:53), never erases end().
CallbackIffListed ==
    \A t \in Timers :
        (\A c \in Clients : ~(client[c] = "insert" /\ held[c] = t))
          => (timer[t].cb <=> t \in m_timers)

\* A callback leaves the set for a thread's collection only while its timer is
\* pending: never after a cancel() that returned true, recurring or not, and of
\* a timer that does not recur never twice.  cancel() returns true only while
\* nobody has been handed the callback, and a timer that does not recur runs
\* only what was handed out and has not run: expiry and cancellation exclude
\* each other even when they race for the lock.
FireOrCancel ==
    [][\A t \in Timers :
          /\ (\E th \in Threads : t \in cbs'[th] \ cbs[th]) => fate[t] = "pending"
          /\ timer[t].cb /\ ~timer'[t].cb => fate[t] = "pending"
          /\ queued'[t] < queued[t] /\ t \notin Recurring => fate[t] = "handed"]_vars

\* Where a timer can be: one that addTimer() is inserting is nowhere else, and
\* the set holds only timers that have been handed to addTimer().
HeldTimers ==
    /\ \A c \in Clients : client[c] = "insert" =>
         /\ held[c] \in Timers \ (known \cup m_timers)
         /\ timer[held[c]].cb
         /\ \A d \in Clients : held[d] = held[c] => d = c
    /\ \A t \in m_timers : t \in known \/ \E c \in Clients : held[c] = t

\* Where the callback of a timer can be: with the timer while it is pending;
\* when it does not recur, in one thread's collection or in the list once it is
\* handed out, and in one of them only.
CallbackSomewhere ==
    /\ \A t \in Timers :
         /\ (t \notin known /\ \A c \in Clients : held[c] # t) =>
              /\ fate[t] = "pending"
              /\ queued[t] = 0 /\ \A th \in Threads : t \notin cbs[th]
         /\ timer[t].cb => fate[t] = "pending"
    /\ \A t \in Timers \ Recurring :
         /\ queued[t] # 0 => fate[t] = "handed"
         /\ \A th \in Threads : t \in cbs[th] => fate[t] = "handed"
         /\ queued[t] <= 1
         /\ queued[t] = 1 => \A th \in Threads : t \notin cbs[th]
         /\ \A th1, th2 \in Threads : t \in cbs[th1] /\ t \in cbs[th2] => th1 = th2

\* A timer's expiry is its delay after a moment that has passed.
StartedInPast ==
    /\ \A th \in Threads : now_ms[th] <= now
    /\ \A t \in Timers : \E start \in 0..now : timer[t].next = (start + timer[t].ms) % Word

\* No timer is further away than its own delay, so refresh() can only postpone
\* one, which is why it need not wake anybody.
NextWithinDelay ==
    \A t \in m_timers : timer[t].next <= now + timer[t].ms

\* When every thread sleeps, one of them wakes up by the time of the earliest
\* timer, or a byte that will wake one is in the pipe or about to be written:
\* m_tickled, reset without the write lock, suppresses no tickle that is needed.
NobodyOversleeps ==
    (\A th \in Threads : pc[th] = "wait") /\ m_timers # {} =>
        \/ edge
        \/ \E c \in Clients : client[c] = "tickle"
        \/ \E th \in Threads : deadline[th] # Never /\
              \A t \in m_timers : deadline[th] <= now \/ deadline[th] <= timer[t].next

\* No callback is collected before its time.
NeverEarly ==
    [][\A th \in Threads : \A t \in cbs'[th] \ cbs[th] : timer[t].next <= now]_vars

\* A timer whose time has come does not stay in the set (timer.cc:211-238);
\* one that recurs without a period is due again at once.
Due(t) ==
    /\ t \in m_timers /\ timer[t].next <= now
    /\ t \in Recurring => timer[t].ms > 0

DueTimersLeave == \A t \in Timers : Due(t) ~> ~Due(t)

\* However far away the earliest timer is, epoll_wait() is given a limit
\* (iomanager.cc:469).
WaitIsLimited ==
    \A th \in Threads : pc[th] = "wait" => deadline[th] # Never
=============================================================================
