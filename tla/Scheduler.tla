----------------------------- MODULE Scheduler -----------------------------
(***************************************************************************)
(* The coroutine scheduler of sylar/scheduler.cc together with the fibers  *)
(* of sylar/fiber.cc it switches to: an N-to-M scheduler in which every    *)
(* worker thread runs Scheduler::run(), takes one entry of the task list   *)
(* under m_mutex, resumes its fiber, and falls back to an idle fiber when  *)
(* it finds nothing to run.                                                *)
(*                                                                         *)
(* A fiber stands for one Fiber object, or for the std::function an entry  *)
(* carries until run() wraps it into a Fiber.  What a fiber computes is    *)
(* left out; what it may do to the scheduler (schedule a task, yield,      *)
(* return) is chosen freely at each step.                                  *)
(***************************************************************************)
EXTENDS Integers, Sequences, SequencesExt, FiniteSets

CONSTANTS
    Pool,           \* the threads that start() creates
    Caller,         \* the thread that constructs and stops the scheduler
    UseCaller,      \* constructor argument use_caller
    Fibers,         \* everything that can be scheduled
    Cbs,            \* the members of Fibers first scheduled as a function
    AnyThread,      \* the thread number -1 of an entry bound to no thread
    NoFiber,        \* an empty ScheduleTask
    WakeParkedOnly, \* TRUE: callers schedule a fiber only once it has left
                    \* its stack; FALSE: also while it is still running, as
                    \* the hook layer and tests/test_scheduler.cc do
    MaxSchedules    \* bound: how often one fiber is scheduled

Workers == IF UseCaller THEN Pool \cup {Caller} ELSE Pool

\* The constructor asserts threads > 0.
ASSUME PoolAssumption == IsFiniteSet(Pool) /\ Caller \notin Pool /\ Workers # {}
ASSUME FlagAssumption == UseCaller \in BOOLEAN /\ WakeParkedOnly \in BOOLEAN
ASSUME FiberAssumption == Cbs \subseteq Fibers /\ NoFiber \notin Fibers
ASSUME ThreadAssumption == AnyThread \notin Pool \cup {Caller}
ASSUME BoundAssumption == MaxSchedules \in Nat

VARIABLES
    m_tasks,             \* the list of ScheduleTask
    m_activeThreadCount,
    m_idleThreadCount,
    m_stopping,
    m_state,             \* Fiber::m_state; "NONE" while only a function
    task,                \* the fiber of the entry a thread has taken
    idleTerm,            \* whether a thread's idle fiber has returned
    pc,                  \* where a worker thread is in run()
    started,             \* whether start() has filled m_threads
    client,              \* where the calling thread is in stop()
    scheduled, resumed   \* history: schedule() and resume() calls per fiber

vars == <<m_tasks, m_activeThreadCount, m_idleThreadCount, m_stopping, m_state,
          task, idleTerm, pc, started, client, scheduled, resumed>>

Entry == [fiber: Fibers, thread: Workers \cup {AnyThread}]

Locations == {"off", "fetch", "resume", "run", "switch", "retire",
              "empty", "idle", "idled", "exit", "abort"}

Init ==
    /\ m_tasks = <<>>
    /\ m_activeThreadCount = 0
    /\ m_idleThreadCount = 0
    /\ m_stopping = FALSE
    /\ m_state = [f \in Fibers |-> IF f \in Cbs THEN "NONE" ELSE "READY"]
    /\ task = [t \in Workers |-> NoFiber]
    /\ idleTerm = [t \in Workers |-> FALSE]
    /\ pc = [t \in Workers |-> "off"]
    /\ started = FALSE
    /\ client = "client"
    /\ scheduled = [f \in Fibers |-> 0]
    /\ resumed = [f \in Fibers |-> 0]

-----------------------------------------------------------------------------
Goto(t, l) == pc' = [pc EXCEPT ![t] = l]

\* The thread's stack pointer is on the stack of fiber f.
On(t, f) == pc[t] \in {"run", "switch"} /\ task[t] = f

\* f has been taken from the list and its resume() has not begun.
Handed(f) == \E t \in Workers : pc[t] = "resume" /\ task[t] = f

Queued(f) == \E i \in 1..Len(m_tasks) : m_tasks[i].fiber = f

\* Threads between ++m_activeThreadCount and --m_activeThreadCount, where a
\* failed assertion leaves a thread for good.
Busy == {t \in Workers : pc[t] \in {"resume", "run", "switch", "retire", "abort"}}

\* Threads between ++m_idleThreadCount and --m_idleThreadCount.
Idling == {t \in Workers : pc[t] \in {"idle", "idled"}}

\* The thread numbers a caller can know.
KnownThreads == {t \in Workers : t = Caller \/ started}

\* What the callers of schedule() take care of: nobody schedules a finished
\* fiber or one whose wake-up is still outstanding.
MaySchedule(f) ==
    /\ m_state[f] # "TERM"
    /\ ~Queued(f)
    /\ ~Handed(f)
    /\ WakeParkedOnly => \A t \in Workers : ~On(t, f)

\* schedule(fc, thread): the list grows at its end under m_mutex.  tickle()
\* of the base class only logs.
Schedule(f, th) ==
    /\ MaySchedule(f)
    /\ scheduled[f] < MaxSchedules
    /\ m_tasks' = Append(m_tasks, [fiber |-> f, thread |-> th])
    /\ scheduled' = [scheduled EXCEPT ![f] = @ + 1]
    /\ UNCHANGED <<m_activeThreadCount, m_idleThreadCount, m_stopping, m_state,
                   task, idleTerm, pc, started, client, resumed>>

\* The calling thread schedules until it calls stop(); a fiber may schedule
\* whenever it runs.
ClientSchedule ==
    /\ client = "client"
    /\ \E f \in Fibers, th \in KnownThreads \cup {AnyThread} : Schedule(f, th)

FiberSchedule(t) ==
    /\ pc[t] = "run"
    /\ \E f \in Fibers, th \in KnownThreads \cup {AnyThread} : Schedule(f, th)

\* start(): refused once stopping; otherwise every pool thread enters run().
Start ==
    /\ client = "client"
    /\ ~m_stopping
    /\ ~started
    /\ started' = TRUE
    /\ pc' = [t \in Workers |-> IF t \in Pool THEN "fetch" ELSE pc[t]]
    /\ UNCHANGED <<m_tasks, m_activeThreadCount, m_idleThreadCount, m_stopping,
                   m_state, task, idleTerm, client, scheduled, resumed>>

-----------------------------------------------------------------------------
\* Mutants of stopping: one condition forgotten.
stoppingForgetsTasks == m_stopping /\ m_activeThreadCount = 0
stoppingForgetsActive == m_stopping /\ m_tasks = <<>>

stopping == m_stopping /\ m_tasks = <<>> /\ m_activeThreadCount = 0

\* stop(): raises the flag without the lock and, with use_caller, switches to
\* m_rootFiber, which runs run() on the calling thread.
Stop ==
    /\ client = "client"
    /\ ~stopping
    /\ m_stopping' = TRUE
    /\ IF UseCaller THEN Goto(Caller, "fetch") /\ client' = "root"
                    ELSE client' = "join" /\ UNCHANGED pc
    /\ UNCHANGED <<m_tasks, m_activeThreadCount, m_idleThreadCount, m_state,
                   task, idleTerm, started, scheduled, resumed>>

\* m_rootFiber has ended and stop() goes on to join the pool.
RootDone ==
    /\ client = "root"
    /\ pc[Caller] = "exit"
    /\ client' = "join"
    /\ UNCHANGED <<m_tasks, m_activeThreadCount, m_idleThreadCount, m_stopping,
                   m_state, task, idleTerm, pc, started, scheduled, resumed>>

\* join() of every thread start() created, then stop() returns.
Join ==
    /\ client = "join"
    /\ started => \A t \in Pool : pc[t] = "exit"
    /\ client' = "done"
    /\ UNCHANGED <<m_tasks, m_activeThreadCount, m_idleThreadCount, m_stopping,
                   m_state, task, idleTerm, pc, started, scheduled, resumed>>

-----------------------------------------------------------------------------
\* Mutant of Eligible: the thread an entry is bound to is not looked at.
EligibleForAll(t, e) == m_state[e.fiber] # "RUNNING"

\* An entry thread t may take: its own or anybody's, and not a fiber that is
\* marked RUNNING.
Eligible(t, e) ==
    /\ e.thread \in {AnyThread, t}
    /\ m_state[e.fiber] # "RUNNING"

\* Mutants of FetchTask: the entry is not erased, is not copied, or the scan
\* looks at the head of the list only.
FetchKeepsEntry(t) ==
    /\ pc[t] = "fetch"
    /\ \E i \in 1..Len(m_tasks) :
         /\ Eligible(t, m_tasks[i])
         /\ task' = [task EXCEPT ![t] = m_tasks[i].fiber]
    /\ m_activeThreadCount' = m_activeThreadCount + 1
    /\ Goto(t, "resume")
    /\ UNCHANGED <<m_tasks, m_idleThreadCount, m_stopping, m_state, idleTerm,
                   started, client, scheduled, resumed>>

FetchForgetsFiber(t) ==
    /\ pc[t] = "fetch"
    /\ \E i \in 1..Len(m_tasks) :
         /\ Eligible(t, m_tasks[i])
         /\ m_tasks' = RemoveAt(m_tasks, i)
    /\ m_activeThreadCount' = m_activeThreadCount + 1
    /\ Goto(t, "resume")
    /\ UNCHANGED <<m_idleThreadCount, m_stopping, m_state, task, idleTerm,
                   started, client, scheduled, resumed>>

FetchHeadOnly(t) ==
    /\ pc[t] = "fetch"
    /\ m_tasks # <<>>
    /\ Eligible(t, Head(m_tasks))
    /\ m_tasks' = Tail(m_tasks)
    /\ task' = [task EXCEPT ![t] = Head(m_tasks).fiber]
    /\ m_activeThreadCount' = m_activeThreadCount + 1
    /\ Goto(t, "resume")
    /\ UNCHANGED <<m_idleThreadCount, m_stopping, m_state, idleTerm, started,
                   client, scheduled, resumed>>

\* The scan of run() under m_mutex stops at the first entry it may take,
\* erases it and counts the thread as active.
FetchTask(t) ==
    /\ pc[t] = "fetch"
    /\ \E i \in 1..Len(m_tasks) :
         /\ Eligible(t, m_tasks[i])
         /\ \A j \in 1..(i-1) : ~Eligible(t, m_tasks[j])
         /\ m_tasks' = RemoveAt(m_tasks, i)
         /\ task' = [task EXCEPT ![t] = m_tasks[i].fiber]
    /\ m_activeThreadCount' = m_activeThreadCount + 1
    /\ Goto(t, "resume")
    /\ UNCHANGED <<m_idleThreadCount, m_stopping, m_state, idleTerm, started,
                   client, scheduled, resumed>>

\* The scan reaches the end of the list.
FetchNone(t) ==
    /\ pc[t] = "fetch"
    /\ \A i \in 1..Len(m_tasks) : ~Eligible(t, m_tasks[i])
    /\ Goto(t, "empty")
    /\ UNCHANGED <<m_tasks, m_activeThreadCount, m_idleThreadCount, m_stopping,
                   m_state, task, idleTerm, started, client, scheduled, resumed>>

\* Fiber::resume(), after the function of an entry has been wrapped into a
\* fresh fiber.  A fiber that is running or has ended fails the assertion.
Resume(t) ==
    /\ pc[t] = "resume"
    /\ IF m_state[task[t]] \in {"TERM", "RUNNING"}
         THEN /\ Goto(t, "abort")
              /\ UNCHANGED <<m_state, resumed>>
         ELSE /\ m_state' = [m_state EXCEPT ![task[t]] = "RUNNING"]
              /\ resumed' = [resumed EXCEPT ![task[t]] = @ + 1]
              /\ Goto(t, "run")
    /\ UNCHANGED <<m_tasks, m_activeThreadCount, m_idleThreadCount, m_stopping,
                   task, idleTerm, started, client, scheduled>>

\* Fiber::yield() up to swapcontext: the fiber is marked READY while the
\* thread is still on its stack.
Yield(t) ==
    /\ pc[t] = "run"
    /\ m_state' = [m_state EXCEPT ![task[t]] = "READY"]
    /\ Goto(t, "switch")
    /\ UNCHANGED <<m_tasks, m_activeThreadCount, m_idleThreadCount, m_stopping,
                   task, idleTerm, started, client, scheduled, resumed>>

\* The body returns and Fiber::MainFunc marks the fiber TERM before the last
\* yield().  Whoever has asked to be woken up yields first.
Finish(t) ==
    /\ pc[t] = "run"
    /\ ~Queued(task[t])
    /\ m_state' = [m_state EXCEPT ![task[t]] = "TERM"]
    /\ Goto(t, "switch")
    /\ UNCHANGED <<m_tasks, m_activeThreadCount, m_idleThreadCount, m_stopping,
                   task, idleTerm, started, client, scheduled, resumed>>

\* swapcontext() saves the fiber's context; the thread is back in run().
SwapOut(t) ==
    /\ pc[t] = "switch"
    /\ Goto(t, "retire")
    /\ UNCHANGED <<m_tasks, m_activeThreadCount, m_idleThreadCount, m_stopping,
                   m_state, task, idleTerm, started, client, scheduled, resumed>>

\* Mutant of Retire: the count goes down only when the fiber has ended.
RetireEndedOnly(t) ==
    /\ pc[t] = "retire"
    /\ m_activeThreadCount' = IF m_state[task[t]] = "TERM"
                                 THEN m_activeThreadCount - 1
                                 ELSE m_activeThreadCount
    /\ task' = [task EXCEPT ![t] = NoFiber]
    /\ Goto(t, "fetch")
    /\ UNCHANGED <<m_tasks, m_idleThreadCount, m_stopping, m_state, idleTerm,
                   started, client, scheduled, resumed>>

\* --m_activeThreadCount and task.reset(), without the lock.
Retire(t) ==
    /\ pc[t] = "retire"
    /\ m_activeThreadCount' = m_activeThreadCount - 1
    /\ task' = [task EXCEPT ![t] = NoFiber]
    /\ Goto(t, "fetch")
    /\ UNCHANGED <<m_tasks, m_idleThreadCount, m_stopping, m_state, idleTerm,
                   started, client, scheduled, resumed>>

-----------------------------------------------------------------------------
\* No task: run() resumes the idle fiber, unless that fiber has returned.
EnterIdle(t) ==
    /\ pc[t] = "empty"
    /\ ~idleTerm[t]
    /\ m_idleThreadCount' = m_idleThreadCount + 1
    /\ Goto(t, "idle")
    /\ UNCHANGED <<m_tasks, m_activeThreadCount, m_stopping, m_state, task,
                   idleTerm, started, client, scheduled, resumed>>

Exit(t) ==
    /\ pc[t] = "empty"
    /\ idleTerm[t]
    /\ Goto(t, "exit")
    /\ UNCHANGED <<m_tasks, m_activeThreadCount, m_idleThreadCount, m_stopping,
                   m_state, task, idleTerm, started, client, scheduled, resumed>>

\* Scheduler::idle() evaluates stopping() under m_mutex and either yields or
\* returns, which ends the idle fiber.
IdleCheck(t) ==
    /\ pc[t] = "idle"
    /\ idleTerm' = [idleTerm EXCEPT ![t] = stopping]
    /\ Goto(t, "idled")
    /\ UNCHANGED <<m_tasks, m_activeThreadCount, m_idleThreadCount, m_stopping,
                   m_state, task, started, client, scheduled, resumed>>

LeaveIdle(t) ==
    /\ pc[t] = "idled"
    /\ m_idleThreadCount' = m_idleThreadCount - 1
    /\ Goto(t, "fetch")
    /\ UNCHANGED <<m_tasks, m_activeThreadCount, m_stopping, m_state, task,
                   idleTerm, started, client, scheduled, resumed>>

-----------------------------------------------------------------------------
Run(t) ==
    \/ FetchTask(t) \/ FetchNone(t)
    \/ Resume(t) \/ Yield(t) \/ Finish(t) \/ SwapOut(t) \/ Retire(t)
    \/ EnterIdle(t) \/ Exit(t) \/ IdleCheck(t) \/ LeaveIdle(t)

Client == ClientSchedule \/ Start \/ Stop \/ RootDone \/ Join

\* stop() has returned and every thread is gone: the program may end here.
Terminated == client = "done" /\ UNCHANGED vars

Next ==
    \/ Client
    \/ \E t \in Workers : Run(t) \/ FiberSchedule(t)
    \/ Terminated

\* The operating system runs every thread, the bodies of fibers end or
\* yield, and a stop() that has begun goes on.  Nobody has to call start(),
\* stop() or schedule().
Fairness ==
    /\ \A t \in Workers : WF_vars(Run(t))
    /\ WF_vars(RootDone)
    /\ WF_vars(Join)

Spec == Init /\ [][Next]_vars
FairSpec == Spec /\ Fairness

-----------------------------------------------------------------------------
TypeOK ==
    /\ m_tasks \in Seq(Entry)
    /\ m_activeThreadCount \in Int
    /\ m_idleThreadCount \in Int
    /\ m_stopping \in BOOLEAN
    /\ m_state \in [Fibers -> {"NONE", "READY", "RUNNING", "TERM"}]
    /\ task \in [Workers -> Fibers \cup {NoFiber}]
    /\ idleTerm \in [Workers -> BOOLEAN]
    /\ pc \in [Workers -> Locations]
    /\ started \in BOOLEAN
    /\ client \in {"client", "root", "join", "done"}
    /\ scheduled \in [Fibers -> Nat]
    /\ resumed \in [Fibers -> Nat]
    /\ \A t \in Workers : pc[t] \in {"resume", "run", "switch", "retire"}
                            => task[t] \in Fibers

\* No two threads execute on the stack of one fiber: README.md says of fiber
\* switches that every resume is answered by a yield, and the comment
\* at scheduler.cc:252 relies on RUNNING to keep a fiber off a second thread.
OneThreadPerFiber ==
    \A t1, t2 \in Workers : \A f \in Fibers :
        On(t1, f) /\ On(t2, f) => t1 = t2

\* resume() is never called on a running or ended fiber (fiber.cc:202).
NoFailedAssertion == \A t \in Workers : pc[t] # "abort"

\* stop() returns only when everything that was scheduled has been resumed and
\* no thread is on a fiber (scheduler.h:92): the three unlocked updates of
\* the counters and of m_stopping leave no gap.
StopDrains ==
    client = "done" /\ (UseCaller \/ started) =>
        /\ m_tasks = <<>>
        /\ Busy = {}
        /\ \A f \in Fibers : resumed[f] = scheduled[f]

\* Every schedule() is answered by exactly one resume(): a wake-up is neither
\* dropped nor delivered twice by the concurrent scans of the list.
EachScheduleResumesOnce ==
    \A f \in Fibers :
        scheduled[f] - resumed[f] = IF Queued(f) \/ Handed(f) THEN 1 ELSE 0

\* Both counters say what the threads are doing, whatever they interleave.
CountersExact ==
    /\ m_activeThreadCount = Cardinality(Busy)
    /\ m_idleThreadCount = Cardinality(Idling)

\* How far start(), stop() and the threads have come with respect to each
\* other.  Once one thread has decided that the scheduler may stop, no task can
\* appear any more: nobody is left who could schedule one.
ControlInv ==
    /\ client = "client" <=> ~m_stopping
    /\ client = "root" => UseCaller
    /\ ~started => \A t \in Pool \cap Workers : pc[t] = "off"
    /\ client = "client" /\ UseCaller => pc[Caller] = "off"
    /\ \A t \in Workers : idleTerm[t] => stopping
    /\ \A t \in Workers : pc[t] = "exit" => idleTerm[t]
    /\ client \in {"join", "done"} /\ UseCaller => pc[Caller] = "exit"
    /\ client = "done" /\ started => \A t \in Pool \cap Workers : pc[t] = "exit"

\* Thread t has taken fiber f and not yet left its stack.
HeldBy(t, f) == pc[t] \in {"resume", "run", "switch", "abort"} /\ task[t] = f

\* Where the wake-up of a fiber is: a fiber has at most one entry in the list,
\* is held by at most one thread, and never both.
WakeUpInv ==
    /\ \A i, j \in 1..Len(m_tasks) :
         m_tasks[i].fiber = m_tasks[j].fiber => i = j
    /\ \A i \in 1..Len(m_tasks) : m_state[m_tasks[i].fiber] \in {"NONE", "READY"}
    /\ \A f \in Fibers, t \in Workers : HeldBy(t, f) => ~Queued(f)
    /\ \A f \in Fibers, t1, t2 \in Workers :
         HeldBy(t1, f) /\ HeldBy(t2, f) => t1 = t2
    /\ \A f \in Fibers : m_state[f] = "RUNNING" =>
         \E t \in Workers : pc[t] = "run" /\ task[t] = f
    /\ \A t \in Workers :
         /\ pc[t] # "abort"
         /\ pc[t] = "resume" => m_state[task[t]] \in {"NONE", "READY"}
         /\ pc[t] = "run" => m_state[task[t]] = "RUNNING"

\* The scheduler is a task pool.  A thread carries out a task from the moment
\* it takes the entry until it has left the fiber's stack.
pendingTasks == {[task |-> m_tasks[i].fiber, worker |-> m_tasks[i].thread] :
                   i \in 1..Len(m_tasks)}
runningTask == [t \in Workers |->
                  IF pc[t] \in {"resume", "run", "switch"} THEN task[t] ELSE NoFiber]
poolPhase == IF ~m_stopping THEN "serving"
             ELSE IF client = "done" THEN "closed" ELSE "closing"

TP == INSTANCE TaskPool WITH
    Tasks <- Fibers, Anyone <- AnyThread, Nobody <- NoFiber,
    pending <- pendingTasks, running <- runningTask,
    open <- UseCaller \/ started, phase <- poolPhase

\* Every step of the threads is a step of the task pool or invisible to it.
IsTaskPool == TP!Spec

\* A stop() that has begun returns.
StopReturns == m_stopping ~> client = "done"

\* A task a pool thread may run is taken once the pool has started, even if
\* nobody stops the scheduler: neither the entries bound to other threads nor
\* the idle fiber keep the threads from it.
TaskRuns ==
    \A f \in Fibers, th \in Pool \cup {AnyThread} :
        (/\ started /\ Pool # {}
         /\ \E i \in 1..Len(m_tasks) : m_tasks[i] = [fiber |-> f, thread |-> th])
        ~> ~Queued(f)
=============================================================================
