------------------------------ MODULE IdleLoop ------------------------------
(***************************************************************************)
(* How an IOManager sleeps and how it stops: Scheduler::run() over         *)
(* IOManager::idle(), tickle() and stopping(timeout) of                    *)
(* sylar/iomanager.cc.  The models Scheduler, TimerManager and FdEvents    *)
(* look at the task list, the timers and the registrations one at a time;  *)
(* here a job travels between the three while other threads ask, with one  *)
(* read after the other, whether any of them still holds work.             *)
(*                                                                         *)
(* A job is a fiber or a function.  While it runs it may schedule others,  *)
(* wait for a timer or for an event of a descriptor, or return.  The clock *)
(* is left out: a timer is due at some moment after it was added, and a    *)
(* sleep ends at some moment after it began (MAX_TIMEOUT).                 *)
(***************************************************************************)
EXTENDS Integers, FiniteSets

CONSTANTS
    Pool,       \* the threads that start() creates
    Caller,     \* the thread that schedules the first jobs and calls stop()
    UseCaller,  \* constructor argument use_caller
    Jobs,
    NoJob,
    AnyThread,  \* the thread number -1
    MaxWaits    \* bound: how often one job waits for a timer or an event

Workers == IF UseCaller THEN Pool \cup {Caller} ELSE Pool

ASSUME PoolAssumption == Caller \notin Pool /\ Workers # {}
ASSUME FlagAssumption == UseCaller \in BOOLEAN
ASSUME NobodyAssumption == NoJob \notin Jobs /\ AnyThread \notin Pool \cup {Caller}

VARIABLES
    place,       \* where a job is
    bound,       \* the thread its entry in m_tasks names
    due,         \* jobs whose timer has expired
    ready,       \* jobs whose event epoll will report
    waits,       \* how often a job has waited
    late,        \* history: jobs that began to wait on a thread that had ended
    m_pendingEventCount,
    m_activeThreadCount,
    m_idleThreadCount,
    m_stopping,
    tickled,     \* epoll has a byte of the pipe to report
    pc,          \* where a thread is in run() and idle()
    job,         \* the job a thread runs
    cbs,         \* the callbacks a thread took from listExpiredCb()
    batch,       \* the events epoll_wait() gave it
    owesTickle,  \* actors between the insertion of an entry and tickle()
    idleTerm,    \* threads whose idle fiber has returned
    tickles,     \* the calls of tickle() stop() has still to make
    client       \* where the calling thread is in stop()

vars == <<place, bound, due, ready, waits, late, m_pendingEventCount,
          m_activeThreadCount, m_idleThreadCount, m_stopping, tickled, pc, job,
          cbs, batch, owesTickle, idleTerm, tickles, client>>
workVars == <<place, bound, due, ready, waits, late, m_pendingEventCount>>
countVars == <<m_activeThreadCount, m_idleThreadCount, m_stopping>>
threadVars == <<job, cbs, batch, idleTerm, tickles, client>>

\* Entries of the list hold a function or a fiber.
m_tasks == {j \in Jobs : place[j] \in {"function", "fiber"}}
m_timers == {j \in Jobs : place[j] = "timer"}

Init ==
    /\ place = [j \in Jobs |-> "new"]
    /\ bound = [j \in Jobs |-> AnyThread]
    /\ due = {}
    /\ ready = {}
    /\ waits = [j \in Jobs |-> 0]
    /\ late = {}
    /\ m_pendingEventCount = 0
    /\ m_activeThreadCount = 0
    /\ m_idleThreadCount = 0
    /\ m_stopping = FALSE
    /\ tickled = FALSE
    /\ pc = [t \in Workers |-> IF t = Caller THEN "off" ELSE "fetch"]
    /\ job = [t \in Workers |-> NoJob]
    /\ cbs = [t \in Workers |-> {}]
    /\ batch = [t \in Workers |-> {}]
    /\ owesTickle = {}
    /\ idleTerm = {}
    /\ tickles = Cardinality(Workers)
    /\ client = "client"

-----------------------------------------------------------------------------
Goto(t, l) == pc' = [pc EXCEPT ![t] = l]

\* Between the insertion of an entry and the tickle() an actor does nothing else.
Free(a) == a \notin owesTickle

\* tickle(): a byte is written only if m_idleThreadCount is not zero.  The
\* pipe is watched edge-triggered, so that several bytes are one report.
Write == tickled' = (tickled \/ m_idleThreadCount > 0)

Tickle(a) ==
    /\ a \in owesTickle
    /\ Write
    /\ owesTickle' = owesTickle \ {a}
    /\ UNCHANGED <<workVars, countVars, threadVars, pc>>

\* schedule(): the entry of job j goes to the list under m_mutex; the actor
\* has to tickle if the list was empty.
Put(a, j, kind, th) ==
    /\ place' = [place EXCEPT ![j] = kind]
    /\ bound' = [bound EXCEPT ![j] = th]
    /\ owesTickle' = IF m_tasks = {} THEN owesTickle \cup {a} ELSE owesTickle

\* The calling thread, which may name a thread while none can have ended, or
\* the job a thread runs schedules a new job.
ScheduleNew(a, threads) ==
    /\ Free(a)
    /\ \E j \in Jobs, th \in threads :
         place[j] = "new" /\ Put(a, j, "function", th)
    /\ UNCHANGED <<due, ready, waits, late, m_pendingEventCount, countVars,
                   threadVars, pc, tickled>>

ClientSchedules ==
    client = "client" /\ ScheduleNew(Caller, Workers \cup {AnyThread})
JobSchedules(t) == pc[t] = "run" /\ ScheduleNew(t, {AnyThread})

\* run() passes over the entries of other threads and over fibers that still run.
Mine(t, j) == bound[j] \in {AnyThread, t}
StillRuns(j) == place[j] = "fiber" /\ \E t \in Workers : job[t] = j
Takes(t, j) == Mine(t, j) /\ ~StillRuns(j)

\* The scan of the list in run(): the thread tickles when it has skipped an
\* entry of another thread or leaves entries behind.
Fetch(t) ==
    /\ pc[t] = "fetch" /\ Free(t)
    /\ \E j \in {k \in m_tasks : Takes(t, k)}, rest \in BOOLEAN :
        /\ place' = [place EXCEPT ![j] = "run"]
        /\ job' = [job EXCEPT ![t] = j]
        /\ rest => m_tasks # {j}
        /\ ~rest => \A k \in m_tasks \ {j} : Mine(t, k) /\ StillRuns(k)
        /\ owesTickle' = IF rest THEN owesTickle \cup {t} ELSE owesTickle
    /\ m_activeThreadCount' = m_activeThreadCount + 1
    /\ Goto(t, "run")
    /\ UNCHANGED <<bound, due, ready, waits, late, m_pendingEventCount, m_idleThreadCount,
                   m_stopping, tickled, cbs, batch, idleTerm, tickles, client>>

FetchNothing(t) ==
    /\ pc[t] = "fetch" /\ Free(t)
    /\ \A j \in m_tasks : ~Takes(t, j)
    /\ owesTickle' = IF \E j \in m_tasks : ~Mine(t, j)
                       THEN owesTickle \cup {t} ELSE owesTickle
    /\ Goto(t, "empty")
    /\ UNCHANGED <<workVars, countVars, threadVars, tickled>>

-----------------------------------------------------------------------------
(* What a job does.                                                        *)

Waits(t) ==
    /\ waits[job[t]] < MaxWaits
    /\ waits' = [waits EXCEPT ![job[t]] = @ + 1]
    /\ late' = IF t \in idleTerm THEN late \cup {job[t]} ELSE late

\* addTimer(): onTimerInsertedAtFront() tickles when the timer is the first
\* and no tickle is under way (TimerManager says when); then the job yields.
WaitForTimer(t) ==
    /\ pc[t] = "run" /\ Free(t)
    /\ Waits(t)
    /\ place' = [place EXCEPT ![job[t]] = "timer"]
    /\ \E front \in BOOLEAN :
         owesTickle' = IF front THEN owesTickle \cup {t} ELSE owesTickle
    /\ Goto(t, "yield")
    /\ UNCHANGED <<bound, due, ready, m_pendingEventCount, countVars,
                   threadVars, tickled>>

\* addEvent() for the running fiber, which then yields.
WaitForEvent(t) ==
    /\ pc[t] = "run" /\ Free(t)
    /\ Waits(t)
    /\ place' = [place EXCEPT ![job[t]] = "event"]
    /\ m_pendingEventCount' = m_pendingEventCount + 1
    /\ Goto(t, "yield")
    /\ UNCHANGED <<bound, due, ready, countVars, threadVars, tickled, owesTickle>>

Finish(t) ==
    /\ pc[t] = "run" /\ Free(t)
    /\ place' = [place EXCEPT ![job[t]] = "done"]
    /\ Goto(t, "yield")
    /\ UNCHANGED <<bound, due, ready, waits, late, m_pendingEventCount, countVars,
                   threadVars, tickled, owesTickle>>

\* resume() returns to run().
Return(t) ==
    /\ pc[t] = "yield" /\ Free(t)
    /\ job' = [job EXCEPT ![t] = NoJob]
    /\ m_activeThreadCount' = m_activeThreadCount - 1
    /\ Goto(t, "fetch")
    /\ UNCHANGED <<workVars, m_idleThreadCount, m_stopping, tickled, cbs, batch,
                   owesTickle, idleTerm, tickles, client>>

-----------------------------------------------------------------------------
(* idle()                                                                  *)

\* run() leaves its loop when the idle fiber has returned.
Exit(t) ==
    /\ pc[t] = "empty" /\ Free(t) /\ t \in idleTerm
    /\ Goto(t, "exit")
    /\ UNCHANGED <<workVars, countVars, threadVars, tickled, owesTickle>>

EnterIdle(t) ==
    /\ pc[t] = "empty" /\ Free(t) /\ t \notin idleTerm
    /\ m_idleThreadCount' = m_idleThreadCount + 1
    /\ Goto(t, "timers")
    /\ UNCHANGED <<workVars, m_activeThreadCount, m_stopping, threadVars,
                   tickled, owesTickle>>

\* Mutant: stopping(timeout) forgets the timers.
ReadTimersForgets(t) ==
    /\ pc[t] = "timers"
    /\ Goto(t, "pending")
    /\ UNCHANGED <<workVars, countVars, threadVars, tickled, owesTickle>>

\* stopping(timeout) reads the timers, the count of events and, under
\* m_mutex, the state of the scheduler; each read may be the last.
ReadTimers(t) ==
    /\ pc[t] = "timers"
    /\ Goto(t, IF m_timers = {} THEN "pending" ELSE "sleep")
    /\ UNCHANGED <<workVars, countVars, threadVars, tickled, owesTickle>>

ReadPending(t) ==
    /\ pc[t] = "pending"
    /\ Goto(t, IF m_pendingEventCount = 0 THEN "stopping" ELSE "sleep")
    /\ UNCHANGED <<workVars, countVars, threadVars, tickled, owesTickle>>

NoTasks == m_tasks = {} /\ m_activeThreadCount = 0

ReadScheduler(t) ==
    /\ pc[t] = "stopping"
    /\ IF m_stopping /\ NoTasks
         THEN idleTerm' = idleTerm \cup {t} /\ Goto(t, "left")
         ELSE UNCHANGED idleTerm /\ Goto(t, "sleep")
    /\ UNCHANGED <<workVars, countVars, tickled, job, cbs, batch, owesTickle,
                   tickles, client>>

\* epoll_wait() returns the byte of the pipe and the ready events, which
\* leave its ready list, or nothing when its time is over.
Wake(t) ==
    /\ pc[t] = "sleep"
    /\ tickled \/ ready # {}
    /\ tickled' = FALSE
    /\ batch' = [batch EXCEPT ![t] = ready]
    /\ ready' = {}
    /\ Goto(t, "expired")
    /\ UNCHANGED <<place, bound, due, waits, late, m_pendingEventCount, countVars, job,
                   cbs, owesTickle, idleTerm, tickles, client>>

\* Mutant: epoll_wait() without MAX_TIMEOUT when there is no timer.
SleepUntilTimer(t) ==
    /\ pc[t] = "sleep"
    /\ ~tickled /\ ready = {} /\ m_timers # {}
    /\ Goto(t, "expired")
    /\ UNCHANGED <<workVars, countVars, threadVars, tickled, owesTickle>>

SleepTimesOut(t) ==
    /\ pc[t] = "sleep"
    /\ ~tickled /\ ready = {}
    /\ Goto(t, "expired")
    /\ UNCHANGED <<workVars, countVars, threadVars, tickled, owesTickle>>

\* listExpiredCb() takes the due timers out of the set ...
ListExpired(t) ==
    /\ pc[t] = "expired"
    /\ cbs' = [cbs EXCEPT ![t] = due]
    /\ place' = [j \in Jobs |-> IF j \in due THEN "cbs" ELSE place[j]]
    /\ due' = {}
    /\ Goto(t, "handle")
    /\ UNCHANGED <<bound, ready, waits, late, m_pendingEventCount, countVars, tickled,
                   job, batch, owesTickle, idleTerm, tickles, client>>

\* ... and the thread schedules their callbacks one by one,
ScheduleCallback(t) ==
    /\ pc[t] = "handle" /\ Free(t)
    /\ \E j \in cbs[t] :
        /\ Put(t, j, "function", AnyThread)
        /\ cbs' = [cbs EXCEPT ![t] = @ \ {j}]
    /\ UNCHANGED <<due, ready, waits, late, m_pendingEventCount, countVars, tickled,
                   pc, job, batch, idleTerm, tickles, client>>

\* then triggers the events, each of which it uncounts after it has
\* scheduled the fiber.
TriggerEvent(t) ==
    /\ pc[t] = "handle" /\ Free(t) /\ cbs[t] = {}
    /\ \E j \in batch[t] :
        /\ Put(t, j, "fiber", AnyThread)
        /\ batch' = [batch EXCEPT ![t] = @ \ {j}]
    /\ Goto(t, "uncount")
    /\ UNCHANGED <<due, ready, waits, late, m_pendingEventCount, countVars, tickled,
                   job, cbs, idleTerm, tickles, client>>

\* Mutant: an event that was triggered stays counted.
UncountForgets(t) ==
    /\ pc[t] = "uncount" /\ Free(t)
    /\ Goto(t, "handle")
    /\ UNCHANGED <<workVars, countVars, threadVars, tickled, owesTickle>>

Uncount(t) ==
    /\ pc[t] = "uncount" /\ Free(t)
    /\ m_pendingEventCount' = m_pendingEventCount - 1
    /\ Goto(t, "handle")
    /\ UNCHANGED <<place, bound, due, ready, waits, late, countVars, threadVars,
                   tickled, owesTickle>>

YieldIdle(t) ==
    /\ pc[t] = "handle" /\ Free(t) /\ cbs[t] = {} /\ batch[t] = {}
    /\ Goto(t, "left")
    /\ UNCHANGED <<workVars, countVars, threadVars, tickled, owesTickle>>

\* Mutant: the thread stays counted as idle.
LeaveIdleCounted(t) ==
    /\ pc[t] = "left"
    /\ Goto(t, "fetch")
    /\ UNCHANGED <<workVars, countVars, threadVars, tickled, owesTickle>>

\* The idle fiber has yielded or returned.
LeaveIdle(t) ==
    /\ pc[t] = "left"
    /\ m_idleThreadCount' = m_idleThreadCount - 1
    /\ Goto(t, "fetch")
    /\ UNCHANGED <<workVars, m_activeThreadCount, m_stopping, threadVars,
                   tickled, owesTickle>>

-----------------------------------------------------------------------------
(* The calling thread: stop() marks the scheduler, tickles once per thread *)
(* and once for itself if it takes part, runs the root fiber and joins.    *)
StopBegins ==
    /\ client = "client" /\ Free(Caller)
    /\ m_stopping' = TRUE
    /\ client' = "tickle"
    /\ UNCHANGED <<workVars, m_activeThreadCount, m_idleThreadCount, tickled, pc,
                   job, cbs, batch, owesTickle, idleTerm, tickles>>

StopTickles ==
    /\ client = "tickle" /\ tickles > 0
    /\ Write
    /\ tickles' = tickles - 1
    /\ UNCHANGED <<workVars, countVars, pc, job, cbs, batch, owesTickle, idleTerm,
                   client>>

StopJoins ==
    /\ client = "tickle" /\ tickles = 0
    /\ client' = "join"
    /\ pc' = [t \in Workers |-> IF t = Caller THEN "fetch" ELSE pc[t]]
    /\ UNCHANGED <<workVars, countVars, tickled, job, cbs, batch, owesTickle,
                   idleTerm, tickles>>

StopReturns ==
    /\ client = "join"
    /\ \A t \in Workers : pc[t] = "exit"
    /\ client' = "done"
    /\ UNCHANGED <<workVars, countVars, tickled, pc, job, cbs, batch, owesTickle,
                   idleTerm, tickles>>

\* The outside world: a timer's time comes, a descriptor becomes ready.
TimerExpires(j) ==
    /\ place[j] = "timer" /\ j \notin due
    /\ due' = due \cup {j}
    /\ UNCHANGED <<place, bound, ready, waits, late, m_pendingEventCount, countVars,
                   threadVars, pc, tickled, owesTickle>>

EventHappens(j) ==
    /\ place[j] = "event" /\ j \notin ready
    /\ \A t \in Workers : j \notin batch[t]
    /\ ready' = ready \cup {j}
    /\ UNCHANGED <<place, bound, due, waits, late, m_pendingEventCount, countVars,
                   threadVars, pc, tickled, owesTickle>>

Idle(t) ==
    \/ EnterIdle(t) \/ Exit(t)
    \/ ReadTimers(t) \/ ReadPending(t) \/ ReadScheduler(t)
    \/ Wake(t) \/ SleepTimesOut(t)
    \/ ListExpired(t) \/ ScheduleCallback(t) \/ TriggerEvent(t) \/ Uncount(t)
    \/ YieldIdle(t) \/ LeaveIdle(t)

Run(t) ==
    \/ Fetch(t) \/ FetchNothing(t)
    \/ WaitForTimer(t) \/ WaitForEvent(t) \/ Finish(t) \/ Return(t)

Stop == StopBegins \/ StopTickles \/ StopJoins \/ StopReturns

Next ==
    \/ \E t \in Workers : Run(t) \/ Idle(t) \/ JobSchedules(t)
    \/ \E a \in Workers \cup {Caller} : Tickle(a)
    \/ ClientSchedules \/ Stop
    \/ \E j \in Jobs : TimerExpires(j) \/ EventHappens(j)

Spec == Init /\ [][Next]_vars

\* The operating system runs every thread, time passes and, what no program
\* can know, every event somebody waits for happens.
Fairness ==
    /\ \A t \in Workers : WF_vars(Run(t) \/ Idle(t) \/ Tickle(t))
    /\ WF_vars(Tickle(Caller))
    /\ WF_vars(StopTickles \/ StopJoins \/ StopReturns)
    /\ \A j \in Jobs : WF_vars(TimerExpires(j)) /\ WF_vars(EventHappens(j))

FairSpec == Spec /\ Fairness

-----------------------------------------------------------------------------
\* Where a thread runs its idle fiber, between the two counts of idle threads.
InIdle == {"timers", "pending", "stopping", "sleep", "expired", "handle", "uncount", "left"}

\* Every variable has its type; the three counts, each a word of its own in
\* the code, are those of what they count (an event is uncounted only after its
\* fiber has been scheduled); and a thread that is outside run()'s two calls of
\* resume() holds neither a job nor callbacks nor events.
TypeOK ==
    /\ place \in [Jobs -> {"new", "function", "fiber", "run", "timer", "cbs",
                           "event", "done"}]
    /\ bound \in [Jobs -> Workers \cup {AnyThread}]
    /\ due \subseteq m_timers
    /\ ready \subseteq {j \in Jobs : place[j] = "event"}
    /\ waits \in [Jobs -> 0..MaxWaits]
    /\ late \subseteq Jobs
    /\ m_pendingEventCount = Cardinality({j \in Jobs : place[j] = "event"})
                               + Cardinality({t \in Workers : pc[t] = "uncount"})
    /\ m_activeThreadCount = Cardinality({t \in Workers : pc[t] \in {"run", "yield"}})
    /\ m_idleThreadCount = Cardinality({t \in Workers : pc[t] \in InIdle})
    /\ m_stopping \in BOOLEAN /\ tickled \in BOOLEAN
    /\ pc \in [Workers -> InIdle \cup {"off", "fetch", "run", "yield", "empty", "exit"}]
    /\ job \in [Workers -> Jobs \cup {NoJob}]
    /\ \A t \in Workers :
        /\ pc[t] \in {"run", "yield"} <=> job[t] # NoJob
        /\ cbs[t] # {} => pc[t] = "handle"
        /\ batch[t] # {} => pc[t] \in {"expired", "handle", "uncount"}
    /\ owesTickle \subseteq Workers \cup {Caller}
    /\ idleTerm \subseteq Workers
    /\ tickles \in 0..Cardinality(Workers)
    /\ client \in {"client", "tickle", "join", "done"}

Over(j) == place[j] \in {"new", "done"}

Stopped == \A t \in Workers : pc[t] = "exit"

\* The destructor's promise (iomanager.cc:153) that every job is completed
\* before it ends.  A thread whose idle fiber has returned still takes
\* entries of the list; if such a job begins to wait after another thread has
\* read the timers and before it reads the list, that thread ends as well.
StopDrains == Stopped => \A j \in Jobs : Over(j)

\* What holds: although stopping() reads timers, events and list one after
\* the other, although a callback is in none of them between listExpiredCb()
\* and schedule(), and although some threads end too early, the last thread
\* leaves nothing behind that was not begun on a thread that had ended.
OnlyLateWaitsAreLeft == Stopped => \A j \in Jobs : Over(j) \/ j \in late

\* A tickle that is skipped because no thread counts itself idle yet, or a
\* byte only one of several sleepers gets, delays an entry of the list and
\* never strands it; an entry for the calling thread waits for stop().
EntryIsTaken ==
    \A j \in Jobs : j \in m_tasks ~>
        j \notin m_tasks \/ (bound[j] = Caller /\ client = "client")

\* Once every event somebody waits for has happened, stop() returns.
StopEnds == client = "join" ~> client = "done"
=============================================================================
