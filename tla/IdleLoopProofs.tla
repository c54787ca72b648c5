--------------------------- MODULE IdleLoopProofs ---------------------------
(***************************************************************************)
(* Proofs about IdleLoop for any number of threads, jobs and waits: what   *)
(* the threads leave behind when they have all ended.                      *)
(***************************************************************************)
EXTENDS IdleLoop, FiniteSetTheorems, TLAPS

\* A scheduler has finitely many threads, a program finitely many jobs.
Finite == IsFiniteSet(Pool) /\ IsFiniteSet(Jobs) /\ MaxWaits \in Nat

-----------------------------------------------------------------------------
(* The inductive invariant.                                                *)

Locations == InIdle \cup {"off", "fetch", "run", "yield", "empty", "exit"}

Types ==
    /\ place \in [Jobs -> {"new", "function", "fiber", "run", "timer", "cbs",
                           "event", "done"}]
    /\ bound \in [Jobs -> Workers \cup {AnyThread}]
    /\ due \in SUBSET Jobs /\ ready \in SUBSET Jobs /\ late \in SUBSET Jobs
    /\ waits \in [Jobs -> 0..MaxWaits]
    /\ m_stopping \in BOOLEAN /\ tickled \in BOOLEAN
    /\ pc \in [Workers -> Locations]
    /\ job \in [Workers -> Jobs \cup {NoJob}]
    /\ cbs \in [Workers -> SUBSET Jobs] /\ batch \in [Workers -> SUBSET Jobs]
    /\ owesTickle \in SUBSET (Workers \cup {Caller})
    /\ idleTerm \in SUBSET Workers
    /\ tickles \in 0..Cardinality(Workers)
    /\ client \in {"client", "tickle", "join", "done"}

Events == {j \in Jobs : place[j] = "event"}

At(P) == Cardinality({t \in Workers : pc[t] \in P})

Counts ==
    /\ m_activeThreadCount = At({"run", "yield"})
    /\ m_idleThreadCount = At(InIdle)
    /\ m_pendingEventCount = Cardinality(Events) + At({"uncount"})

\* What a thread holds, by where it is.
Holds ==
    \A t \in Workers :
        /\ pc[t] \in {"run", "yield"} <=> job[t] # NoJob
        /\ cbs[t] # {} => pc[t] = "handle"
        /\ batch[t] # {} => pc[t] \in {"expired", "handle", "uncount"}

\* A job that runs, or whose callback or event has been collected, is in the
\* hands of one thread.
Places ==
    /\ due \subseteq m_timers /\ ready \subseteq Events
    /\ \A t \in Workers : pc[t] = "run" =>
         /\ place[job[t]] = "run"
         /\ \A u \in Workers : u # t /\ pc[u] = "run" => job[u] # job[t]
    /\ \A j \in Jobs : place[j] = "run" => \E t \in Workers : pc[t] = "run" /\ job[t] = j
    /\ \A t \in Workers : \A j \in cbs[t] :
         place[j] = "cbs" /\ \A u \in Workers : u # t => j \notin cbs[u]
    /\ \A j \in Jobs : place[j] = "cbs" => \E t \in Workers : j \in cbs[t]
    /\ \A t \in Workers : \A j \in batch[t] :
         /\ place[j] = "event" /\ j \notin ready
         /\ \A u \in Workers : u # t => j \notin batch[u]

\* No thread ends before stop() has begun and the list has been empty once,
\* after which no entry names a thread.
Ends ==
    /\ client \in {"client", "tickle"} /\ Caller \in Workers => pc[Caller] = "off"
    /\ client = "client" => ~m_stopping
    /\ idleTerm # {} => m_stopping /\ \A j \in m_tasks : bound[j] = AnyThread
    /\ \A t \in Workers : pc[t] = "exit" => t \in idleTerm

\* Somebody will look: at the list, a thread that scans it again; at the
\* timers and the events, a thread whose idle fiber has not returned and which
\* has not already passed them.
Looked ==
    /\ idleTerm # {} /\ m_tasks # {} => \E t \in Workers : pc[t] \notin {"empty", "exit"}
    /\ \A j \in m_timers \ late :
         \E t \in Workers \ idleTerm : pc[t] \notin {"pending", "stopping"}
    /\ \A j \in Events \ late :
         \E t \in Workers \ idleTerm : pc[t] # "stopping"

Inv == Types /\ Counts /\ Holds /\ Places /\ Ends /\ Looked

-----------------------------------------------------------------------------
(* Counting.                                                               *)

LEMMA Recount ==
    ASSUME NEW A, IsFiniteSet(A), NEW x, NEW B, A \ {x} = B \ {x}
    PROVE  /\ Cardinality(A) \in Nat
           /\ (x \in A <=> x \in B) => Cardinality(B) = Cardinality(A)
           /\ x \notin A /\ x \in B => Cardinality(B) = Cardinality(A) + 1
           /\ x \in A /\ x \notin B => Cardinality(B) = Cardinality(A) - 1
<1>1. Cardinality(A) \in Nat
  BY FS_CardinalityType
<1>2. ASSUME x \in A <=> x \in B
      PROVE  Cardinality(B) = Cardinality(A)
  <2>1. A = B
    BY <1>2
  <2>2. QED
    BY <2>1
<1>3. ASSUME x \notin A, x \in B
      PROVE  Cardinality(B) = Cardinality(A) + 1
  <2>1. B = A \cup {x}
    BY <1>3
  <2>2. QED
    BY <1>3, <2>1, FS_AddElement
<1>4. ASSUME x \in A, x \notin B
      PROVE  Cardinality(B) = Cardinality(A) - 1
  <2>1. B = A \ {x}
    BY <1>4
  <2>2. QED
    BY <1>4, <2>1, FS_RemoveElement
<1>5. QED
  BY <1>1, <1>2, <1>3, <1>4

LEMMA WorkersFinite == Finite => IsFiniteSet(Workers) /\ Cardinality(Workers) \in Nat
<1>1. Finite => IsFiniteSet(Pool \cup {Caller})
  BY FS_AddElement DEF Finite
<1>2. QED
  BY <1>1, FS_CardinalityType DEF Finite, Workers

\* A count m of what is at P becomes n when something moves from x to y.
Follows(m, n, x, y, P) ==
    /\ (x \in P <=> y \in P) => n = m
    /\ x \notin P /\ y \in P => n = m + 1
    /\ x \in P /\ y \notin P => n = m - 1

\* The threads at the locations P, when one thread moves.
LEMMA PcMoves ==
    ASSUME Finite, Types, NEW t \in Workers, NEW l, Goto(t, l), NEW P
    PROVE  /\ At(P) \in Nat
           /\ Follows(At(P), At(P)', pc[t], l, P)
<1> DEFINE A == {u \in Workers : pc[u] \in P}
           B == {u \in Workers : pc'[u] \in P}
<1>1. pc'[t] = l /\ \A u \in Workers : u # t => pc'[u] = pc[u]
  BY DEF Types, Goto
<1>2. (t \in A <=> pc[t] \in P) /\ (t \in B <=> l \in P)
  BY <1>1
<1>3. A \ {t} = B \ {t}
  BY <1>1
<1>4. IsFiniteSet(A)
  BY WorkersFinite, FS_Subset
<1>5. At(P) = Cardinality(A) /\ At(P)' = Cardinality(B)
  BY DEF At
<1> HIDE DEF A, B
<1>6. QED
  BY <1>2, <1>3, <1>4, <1>5, Recount DEF Follows

MovesTo(j, k) == place' = [place EXCEPT ![j] = k]

\* The jobs that wait for an event, when one job moves.
LEMMA EventsMove ==
    ASSUME Finite, Types, NEW j \in Jobs, NEW k, MovesTo(j, k)
    PROVE  /\ Cardinality(Events) \in Nat
           /\ place[j] # "event" /\ k # "event" => Events' = Events
           /\ place[j] # "event" /\ k = "event" =>
                Cardinality(Events') = Cardinality(Events) + 1
           /\ place[j] = "event" /\ k # "event" =>
                Cardinality(Events') = Cardinality(Events) - 1
<1>1. place'[j] = k /\ \A i \in Jobs : i # j => place'[i] = place[i]
  BY DEF Types, MovesTo
<1>2. (j \in Events <=> place[j] = "event") /\ (j \in Events' <=> k = "event")
  BY <1>1 DEF Events
<1>3. Events \ {j} = Events' \ {j}
  BY <1>1 DEF Events
<1>4. IsFiniteSet(Events)
  BY FS_Subset DEF Finite, Events
<1>5. j \notin Events /\ j \notin Events' => Events' = Events
  BY <1>3
<1>6. QED
  BY <1>2, <1>3, <1>4, <1>5, Recount DEF Follows

\* The three counts, when one thread moves and no job begins or ceases to wait
\* for an event.
LEMMA CountsMove ==
    ASSUME Finite, Types, Counts, NEW t \in Workers, NEW l, Goto(t, l),
           Events' = Events,
           Follows(m_activeThreadCount, m_activeThreadCount', pc[t], l, {"run", "yield"}),
           Follows(m_idleThreadCount, m_idleThreadCount', pc[t], l, InIdle),
           Follows(m_pendingEventCount, m_pendingEventCount', pc[t], l, {"uncount"})
    PROVE  Counts'
<1>1. Cardinality(Events) \in Nat
  BY FS_Subset, FS_CardinalityType DEF Finite, Events
<1>2. m_activeThreadCount' = At({"run", "yield"})'
  BY PcMoves DEF Counts, Follows
<1>3. m_idleThreadCount' = At(InIdle)'
  BY PcMoves DEF Counts, Follows
<1>4. m_pendingEventCount' = Cardinality(Events') + At({"uncount"})'
  BY <1>1, PcMoves DEF Counts, Follows
<1>5. QED
  BY <1>2, <1>3, <1>4 DEF Counts

\* A thread goes on without touching a job; its idle fiber may return.
LEMMA QuietMove ==
    ASSUME Inv, NEW t \in Workers, NEW l \in InIdle \cup {"fetch", "empty", "exit"},
           pc[t] \notin {"off", "run", "yield"}, Goto(t, l),
           UNCHANGED <<place, bound, due, ready, waits, late, m_stopping, tickled, job,
                       cbs, batch, tickles, client>>,
           owesTickle' \in SUBSET (Workers \cup {Caller}),
           \/ idleTerm' = idleTerm
           \/ idleTerm' = idleTerm \cup {t} /\ m_stopping /\ m_tasks = {},
           l = "exit" => t \in idleTerm,
           cbs[t] # {} => l = "handle",
           batch[t] # {} => l \in {"expired", "handle", "uncount"}
    PROVE  Types' /\ Holds' /\ Places' /\ Ends' /\ Events' = Events /\ m_tasks' = m_tasks
<1> USE DEF Inv
<1>1. pc'[t] = l /\ \A u \in Workers : u # t => pc'[u] = pc[u]
  BY DEF Types, Goto
<1>2. Types'
  BY DEF Types, Locations, Goto
<1>3. Holds'
  BY <1>1 DEF Holds, InIdle
<1>4. Events' = Events /\ m_tasks' = m_tasks /\ m_timers' = m_timers
  BY DEF Events, m_tasks, m_timers
<1>5. Places'
  <2>1. \A u \in Workers : pc'[u] = "run" <=> pc[u] = "run"
    BY <1>1 DEF InIdle
  <2>2. QED
    BY <1>4, <2>1 DEF Places
<1>6. Ends'
  BY <1>1, <1>4 DEF Ends
<1>7. QED
  BY <1>2, <1>3, <1>4, <1>5, <1>6

\* Who looked still looks, or what the thread that goes on has passed is empty.
LEMMA StillLooked ==
    ASSUME Inv, NEW t \in Workers, NEW l, Goto(t, l),
           UNCHANGED <<place, late>>,
           \/ idleTerm' = idleTerm
           \/ idleTerm' = idleTerm \cup {t} /\ m_tasks = {} /\ pc[t] = "stopping",
           l \in {"empty", "exit"} /\ idleTerm # {} /\ m_tasks # {} =>
             pc[t] = "empty" \/ \E u \in Workers \ {t} : pc[u] \notin {"empty", "exit"},
           l \in {"pending", "stopping"} => m_timers = {} \/ pc[t] = "pending",
           l = "stopping" => Events = {}
    PROVE  Looked'
<1> USE DEF Inv
<1>1. pc'[t] = l /\ \A u \in Workers : u # t => pc'[u] = pc[u]
  BY DEF Types, Goto
<1>2. Events' = Events /\ m_tasks' = m_tasks /\ m_timers' = m_timers
  BY DEF Events, m_tasks, m_timers
<1>3. ASSUME idleTerm' # {}, m_tasks' # {}
      PROVE  \E u \in Workers : pc'[u] \notin {"empty", "exit"}
  <2>1. idleTerm # {} /\ m_tasks # {}
    BY <1>2, <1>3
  <2>2. PICK u \in Workers : pc[u] \notin {"empty", "exit"}
    BY <2>1 DEF Looked
  <2>3. QED
    BY <1>1, <2>1, <2>2
<1>4. ASSUME NEW j \in m_timers \ late
      PROVE  \E u \in Workers \ idleTerm' : pc'[u] \notin {"pending", "stopping"}
  <2>1. PICK u \in Workers \ idleTerm : pc[u] \notin {"pending", "stopping"}
    BY DEF Looked
  <2>2. u = t => l \notin {"pending", "stopping"}
    BY <1>4, <2>1
  <2>3. u \notin idleTerm'
    BY <2>1
  <2>4. QED
    BY <1>1, <2>1, <2>2, <2>3
<1>5. ASSUME NEW j \in Events \ late
      PROVE  \E u \in Workers \ idleTerm' : pc'[u] # "stopping"
  <2>1. PICK u \in Workers \ idleTerm : pc[u] # "stopping"
    BY DEF Looked
  <2>2. u = t => l # "stopping"
    BY <1>5
  <2>3. u \notin idleTerm'
    BY <2>1
  <2>4. QED
    BY <1>1, <2>1, <2>2, <2>3
<1>6. QED
  BY <1>2, <1>3, <1>4, <1>5 DEF Looked

-----------------------------------------------------------------------------
(* The steps of a thread that touch no job.                                *)

\* run() passes over nothing but fibers that still run, so that another thread
\* is not at its end either.
LEMMA FetchNothingKeeps ==
    ASSUME Finite, Inv, NEW t \in Workers, FetchNothing(t)
    PROVE  Inv'
<1> USE DEF Inv
<1>1. /\ pc[t] = "fetch" /\ Goto(t, "empty")
      /\ \A j \in m_tasks : ~Takes(t, j)
      /\ owesTickle' \in SUBSET (Workers \cup {Caller})
      /\ UNCHANGED <<place, bound, due, ready, waits, late, m_pendingEventCount,
                     m_activeThreadCount, m_idleThreadCount, m_stopping, tickled, job, cbs,
                     batch, idleTerm, tickles, client>>
  BY DEF FetchNothing, workVars, countVars, threadVars, Types
<1>2. cbs[t] = {} /\ batch[t] = {}
  BY <1>1 DEF Holds
<1>3. Types' /\ Holds' /\ Places' /\ Ends' /\ Events' = Events
  BY <1>1, <1>2, QuietMove
<1>4. Counts'
  BY <1>1, <1>3, CountsMove DEF InIdle, Follows
<1>5. ASSUME idleTerm # {}, m_tasks # {}
      PROVE  \E u \in Workers \ {t} : pc[u] \notin {"empty", "exit"}
  <2>1. PICK j \in m_tasks : TRUE
    BY <1>5
  <2>2. j \in Jobs /\ Mine(t, j)
    BY <1>5 DEF m_tasks, Mine, Ends
  <2>3. PICK u \in Workers : job[u] = j
    BY <1>1, <2>2 DEF Takes, StillRuns
  <2>4. pc[u] \in {"run", "yield"}
    BY <2>2, <2>3, NobodyAssumption DEF Holds
  <2>5. QED
    BY <1>1, <2>4
<1>6. Looked'
  BY <1>1, <1>5, StillLooked
<1>7. QED
  BY <1>3, <1>4, <1>6

LEMMA ExitKeeps ==
    ASSUME Finite, Inv, NEW t \in Workers, Exit(t)
    PROVE  Inv'
<1> USE DEF Inv
<1>1. /\ pc[t] = "empty" /\ t \in idleTerm /\ Goto(t, "exit")
      /\ UNCHANGED <<place, bound, due, ready, waits, late, m_pendingEventCount,
                     m_activeThreadCount, m_idleThreadCount, m_stopping, tickled, job, cbs,
                     batch, idleTerm, tickles, client, owesTickle>>
  BY DEF Exit, workVars, countVars, threadVars
<1>2. cbs[t] = {} /\ batch[t] = {} /\ owesTickle \in SUBSET (Workers \cup {Caller})
  BY <1>1 DEF Holds, Types
<1>3. Types' /\ Holds' /\ Places' /\ Ends' /\ Events' = Events
  BY <1>1, <1>2, QuietMove
<1>4. Counts'
  BY <1>1, <1>3, CountsMove DEF InIdle, Follows
<1>5. Looked'
  BY <1>1, StillLooked
<1>6. QED
  BY <1>3, <1>4, <1>5

LEMMA EnterIdleKeeps ==
    ASSUME Finite, Inv, NEW t \in Workers, EnterIdle(t)
    PROVE  Inv'
<1> USE DEF Inv
<1>1. /\ pc[t] = "empty" /\ Goto(t, "timers")
      /\ m_idleThreadCount' = m_idleThreadCount + 1
      /\ UNCHANGED <<place, bound, due, ready, waits, late, m_pendingEventCount,
                     m_activeThreadCount, m_stopping, tickled, job, cbs,
                     batch, idleTerm, tickles, client, owesTickle>>
  BY DEF EnterIdle, workVars, threadVars
<1>2. cbs[t] = {} /\ batch[t] = {} /\ owesTickle \in SUBSET (Workers \cup {Caller})
  BY <1>1 DEF Holds, Types
<1>3. Types' /\ Holds' /\ Places' /\ Ends' /\ Events' = Events
  BY <1>1, <1>2, QuietMove DEF InIdle
<1>4. Counts'
  BY <1>1, <1>3, CountsMove DEF InIdle, Follows
<1>5. Looked'
  BY <1>1, StillLooked
<1>6. QED
  BY <1>3, <1>4, <1>5

LEMMA LeaveIdleKeeps ==
    ASSUME Finite, Inv, NEW t \in Workers, LeaveIdle(t)
    PROVE  Inv'
<1> USE DEF Inv
<1>1. /\ pc[t] = "left" /\ Goto(t, "fetch")
      /\ m_idleThreadCount' = m_idleThreadCount - 1
      /\ UNCHANGED <<place, bound, due, ready, waits, late, m_pendingEventCount,
                     m_activeThreadCount, m_stopping, tickled, job, cbs,
                     batch, idleTerm, tickles, client, owesTickle>>
  BY DEF LeaveIdle, workVars, threadVars
<1>2. cbs[t] = {} /\ batch[t] = {} /\ owesTickle \in SUBSET (Workers \cup {Caller})
  BY <1>1 DEF Holds, Types
<1>3. Types' /\ Holds' /\ Places' /\ Ends' /\ Events' = Events
  BY <1>1, <1>2, QuietMove
<1>4. Counts'
  BY <1>1, <1>3, CountsMove DEF InIdle, Follows
<1>5. Looked'
  BY <1>1, StillLooked
<1>6. QED
  BY <1>3, <1>4, <1>5

\* stopping(timeout) goes on only when there is no timer,
LEMMA ReadTimersKeeps ==
    ASSUME Finite, Inv, NEW t \in Workers, ReadTimers(t)
    PROVE  Inv'
<1> USE DEF Inv
<1>1. PICK l \in {"pending", "sleep"} :
        /\ Goto(t, l)
        /\ l = "pending" => m_timers = {}
  BY DEF ReadTimers
<1>2. /\ pc[t] = "timers"
      /\ UNCHANGED <<place, bound, due, ready, waits, late, m_pendingEventCount,
                     m_activeThreadCount, m_idleThreadCount, m_stopping, tickled, job, cbs,
                     batch, idleTerm, tickles, client, owesTickle>>
  BY DEF ReadTimers, workVars, countVars, threadVars
<1>3. cbs[t] = {} /\ batch[t] = {} /\ owesTickle \in SUBSET (Workers \cup {Caller})
  BY <1>2 DEF Holds, Types
<1>4. Types' /\ Holds' /\ Places' /\ Ends' /\ Events' = Events
  BY <1>1, <1>2, <1>3, QuietMove DEF InIdle
<1>5. Counts'
  BY <1>1, <1>2, <1>4, CountsMove DEF InIdle, Follows
<1>6. Looked'
  BY <1>1, <1>2, StillLooked
<1>7. QED
  BY <1>4, <1>5, <1>6

\* and when no event is counted, which no job then waits for,
LEMMA ReadPendingKeeps ==
    ASSUME Finite, Inv, NEW t \in Workers, ReadPending(t)
    PROVE  Inv'
<1> USE DEF Inv
<1>1. PICK l \in {"stopping", "sleep"} :
        /\ Goto(t, l)
        /\ l = "stopping" => m_pendingEventCount = 0
  BY DEF ReadPending
<1>2. /\ pc[t] = "pending"
      /\ UNCHANGED <<place, bound, due, ready, waits, late, m_pendingEventCount,
                     m_activeThreadCount, m_idleThreadCount, m_stopping, tickled, job, cbs,
                     batch, idleTerm, tickles, client, owesTickle>>
  BY DEF ReadPending, workVars, countVars, threadVars
<1>3. cbs[t] = {} /\ batch[t] = {} /\ owesTickle \in SUBSET (Workers \cup {Caller})
  BY <1>2 DEF Holds, Types
<1>4. Types' /\ Holds' /\ Places' /\ Ends' /\ Events' = Events
  BY <1>1, <1>2, <1>3, QuietMove DEF InIdle
<1>5. Counts'
  BY <1>1, <1>2, <1>4, CountsMove DEF InIdle, Follows
<1>6. l = "stopping" => Events = {}
  <2>1. At({"uncount"}) \in Nat
    BY <1>1, PcMoves
  <2>2. IsFiniteSet(Events) /\ Cardinality(Events) \in Nat
    BY FS_Subset, FS_CardinalityType DEF Finite, Events
  <2>3. m_pendingEventCount = 0 => Cardinality(Events) = 0
    BY <2>1, <2>2 DEF Counts
  <2>4. QED
    BY <1>1, <2>2, <2>3, FS_EmptySet
<1>7. Looked'
  BY <1>1, <1>2, <1>6, StillLooked
<1>8. QED
  BY <1>4, <1>5, <1>7

\* and the idle fiber returns only when the list is empty.
LEMMA ReadSchedulerKeeps ==
    ASSUME Finite, Inv, NEW t \in Workers, ReadScheduler(t)
    PROVE  Inv'
<1> USE DEF Inv
<1>1. PICK l \in {"left", "sleep"} :
        /\ Goto(t, l)
        /\ \/ idleTerm' = idleTerm
           \/ idleTerm' = idleTerm \cup {t} /\ m_stopping /\ m_tasks = {}
  BY DEF ReadScheduler, NoTasks
<1>2. /\ pc[t] = "stopping"
      /\ UNCHANGED <<place, bound, due, ready, waits, late, m_pendingEventCount,
                     m_activeThreadCount, m_idleThreadCount, m_stopping, tickled, job, cbs,
                     batch, tickles, client, owesTickle>>
  BY DEF ReadScheduler, workVars, countVars
<1>3. cbs[t] = {} /\ batch[t] = {} /\ owesTickle \in SUBSET (Workers \cup {Caller})
  BY <1>2 DEF Holds, Types
<1>4. Types' /\ Holds' /\ Places' /\ Ends' /\ Events' = Events
  BY <1>1, <1>2, <1>3, QuietMove DEF InIdle
<1>5. Counts'
  BY <1>1, <1>2, <1>4, CountsMove DEF InIdle, Follows
<1>6. Looked'
  BY <1>1, <1>2, StillLooked
<1>7. QED
  BY <1>4, <1>5, <1>6

LEMMA SleepTimesOutKeeps ==
    ASSUME Finite, Inv, NEW t \in Workers, SleepTimesOut(t)
    PROVE  Inv'
<1> USE DEF Inv
<1>1. /\ pc[t] = "sleep" /\ Goto(t, "expired")
      /\ UNCHANGED <<place, bound, due, ready, waits, late, m_pendingEventCount,
                     m_activeThreadCount, m_idleThreadCount, m_stopping, tickled, job, cbs,
                     batch, idleTerm, tickles, client, owesTickle>>
  BY DEF SleepTimesOut, workVars, countVars, threadVars
<1>2. cbs[t] = {} /\ batch[t] = {} /\ owesTickle \in SUBSET (Workers \cup {Caller})
  BY <1>1 DEF Holds, Types
<1>3. Types' /\ Holds' /\ Places' /\ Ends' /\ Events' = Events
  BY <1>1, <1>2, QuietMove DEF InIdle
<1>4. Counts'
  BY <1>1, <1>3, CountsMove DEF InIdle, Follows
<1>5. Looked'
  BY <1>1, StillLooked
<1>6. QED
  BY <1>3, <1>4, <1>5

LEMMA YieldIdleKeeps ==
    ASSUME Finite, Inv, NEW t \in Workers, YieldIdle(t)
    PROVE  Inv'
<1> USE DEF Inv
<1>1. /\ pc[t] = "handle" /\ cbs[t] = {} /\ batch[t] = {}
      /\ Goto(t, "left")
      /\ UNCHANGED <<place, bound, due, ready, waits, late, m_pendingEventCount,
                     m_activeThreadCount, m_idleThreadCount, m_stopping, tickled, job, cbs,
                     batch, idleTerm, tickles, client, owesTickle>>
  BY DEF YieldIdle, workVars, countVars, threadVars
<1>2. owesTickle \in SUBSET (Workers \cup {Caller})
  BY DEF Types
<1>3. Types' /\ Holds' /\ Places' /\ Ends' /\ Events' = Events
  BY <1>1, <1>2, QuietMove DEF InIdle
<1>4. Counts'
  BY <1>1, <1>3, CountsMove DEF InIdle, Follows
<1>5. Looked'
  BY <1>1, StillLooked
<1>6. QED
  BY <1>3, <1>4, <1>5

LEMMA UncountKeeps ==
    ASSUME Finite, Inv, NEW t \in Workers, Uncount(t)
    PROVE  Inv'
<1> USE DEF Inv
<1>1. /\ pc[t] = "uncount" /\ Goto(t, "handle")
      /\ m_pendingEventCount' = m_pendingEventCount - 1
      /\ UNCHANGED <<place, bound, due, ready, waits, late,
                     m_activeThreadCount, m_idleThreadCount, m_stopping, tickled, job, cbs,
                     batch, idleTerm, tickles, client, owesTickle>>
  BY DEF Uncount, countVars, threadVars
<1>2. owesTickle \in SUBSET (Workers \cup {Caller})
  BY DEF Types
<1>3. Types' /\ Holds' /\ Places' /\ Ends' /\ Events' = Events
  BY <1>1, <1>2, QuietMove DEF InIdle
<1>4. Counts'
  BY <1>1, <1>3, CountsMove DEF InIdle, Follows
<1>5. Looked'
  BY <1>1, StillLooked
<1>6. QED
  BY <1>3, <1>4, <1>5

-----------------------------------------------------------------------------
(* The steps of a thread that runs a job.                                  *)

LEMMA FetchKeeps ==
    ASSUME Finite, Inv, NEW t \in Workers, Fetch(t)
    PROVE  Inv'
<1> USE DEF Inv
<1>1. PICK j \in m_tasks :
        /\ MovesTo(j, "run")
        /\ job' = [job EXCEPT ![t] = j]
        /\ owesTickle' \in SUBSET (Workers \cup {Caller})
  BY DEF Fetch, MovesTo, Types
<1>2. /\ pc[t] = "fetch" /\ Goto(t, "run")
      /\ m_activeThreadCount' = m_activeThreadCount + 1
      /\ UNCHANGED <<bound, due, ready, waits, late, m_pendingEventCount, m_idleThreadCount,
                     m_stopping, tickled, cbs, batch, idleTerm, tickles, client>>
  BY DEF Fetch
<1>3. j \in Jobs /\ place[j] \in {"function", "fiber"} /\ j # NoJob
  BY NobodyAssumption DEF m_tasks
<1>4. place'[j] = "run" /\ \A i \in Jobs : i # j => place'[i] = place[i]
  BY <1>1, <1>3 DEF MovesTo, Types
<1>5. pc'[t] = "run" /\ \A u \in Workers : u # t => pc'[u] = pc[u]
  BY <1>2 DEF Goto, Types
<1>6. job'[t] = j /\ \A u \in Workers : u # t => job'[u] = job[u]
  BY <1>1 DEF Types
<1>7. Events' = Events
  BY <1>3, <1>4 DEF Events
<1>8. m_timers' = m_timers /\ m_tasks' \subseteq m_tasks
  BY <1>3, <1>4 DEF m_timers, m_tasks
<1>9. Types'
  BY <1>1, <1>2, <1>3 DEF Types, Locations, MovesTo, Goto
<1>10. Counts'
  BY <1>2, <1>7, CountsMove DEF Follows, InIdle
<1>11. Holds'
  BY <1>2, <1>3, <1>5, <1>6 DEF Holds
<1>12. Places'
  <2>1. \A u \in Workers : pc[u] = "run" => u # t /\ job[u] # j /\ job[u] \in Jobs
    BY <1>2, <1>3, NobodyAssumption DEF Places, Types, Holds
  <2>2. ASSUME NEW u \in Workers, pc'[u] = "run"
        PROVE  /\ place'[job'[u]] = "run"
               /\ \A v \in Workers : v # u /\ pc'[v] = "run" => job'[v] # job'[u]
    <3>1. CASE u = t
      BY <1>4, <1>5, <1>6, <2>1, <3>1
    <3>2. CASE u # t
      BY <1>4, <1>5, <1>6, <2>1, <2>2, <3>2 DEF Places
    <3>3. QED
      BY <3>1, <3>2
  <2>3. ASSUME NEW i \in Jobs, place'[i] = "run"
        PROVE  \E u \in Workers : pc'[u] = "run" /\ job'[u] = i
    <3>1. CASE i = j
      BY <1>5, <1>6, <3>1
    <3>2. CASE i # j
      <4>1. PICK u \in Workers : pc[u] = "run" /\ job[u] = i
        BY <1>4, <2>3, <3>2 DEF Places
      <4>2. QED
        BY <1>5, <1>6, <2>1, <4>1
    <3>3. QED
      BY <3>1, <3>2
  <2>4. \A u \in Workers : \A i \in cbs[u] :
          place'[i] = "cbs" /\ \A v \in Workers : v # u => i \notin cbs[v]
    BY <1>3, <1>4 DEF Places, Types
  <2>5. \A i \in Jobs : place'[i] = "cbs" => \E u \in Workers : i \in cbs[u]
    BY <1>4 DEF Places
  <2>6. \A u \in Workers : \A i \in batch[u] :
          /\ place'[i] = "event" /\ i \notin ready
          /\ \A v \in Workers : v # u => i \notin batch[v]
    BY <1>3, <1>4 DEF Places, Types
  <2>7. due' \subseteq m_timers' /\ ready' \subseteq Events'
    BY <1>2, <1>7, <1>8 DEF Places
  <2>8. QED
    BY <1>2, <2>2, <2>3, <2>4, <2>5, <2>6, <2>7 DEF Places
<1>13. Ends'
  BY <1>2, <1>5, <1>8 DEF Ends
<1>14. Looked'
  <2>1. \A u \in Workers : pc[u] \notin {"pending", "stopping"} => pc'[u] \notin {"pending", "stopping"}
    BY <1>5
  <2>2. \A u \in Workers : pc[u] # "stopping" => pc'[u] # "stopping"
    BY <1>5
  <2>3. QED
    BY <1>2, <1>5, <1>7, <1>8, <2>1, <2>2 DEF Looked
<1>15. QED
  BY <1>9, <1>10, <1>11, <1>12, <1>13, <1>14

\* The job a thread runs goes where nobody has it: to the timers, to the
\* events, or to its end.
LEMMA JobLeaves ==
    ASSUME Inv, NEW t \in Workers, pc[t] = "run", Goto(t, "yield"),
           NEW j \in Jobs, j = job[t], NEW k \in {"timer", "event", "done"}, MovesTo(j, k),
           UNCHANGED <<bound, due, ready, m_stopping, job, cbs, batch, idleTerm, client>>
    PROVE  /\ Holds' /\ Places' /\ Ends'
           /\ place[j] = "run" /\ place'[j] = k /\ \A i \in Jobs : i # j => place'[i] = place[i]
           /\ m_tasks' = m_tasks
<1> USE DEF Inv
<1>1. pc'[t] = "yield" /\ \A u \in Workers : u # t => pc'[u] = pc[u]
  BY DEF Goto, Types
<1>2. place'[j] = k /\ \A i \in Jobs : i # j => place'[i] = place[i]
  BY DEF MovesTo, Types
<1>3. place[j] = "run" /\ \A u \in Workers : u # t /\ pc[u] = "run" => job[u] # j
  BY DEF Places
<1>4. m_tasks' = m_tasks
  BY <1>2, <1>3 DEF m_tasks
<1>5. Holds'
  BY <1>1 DEF Holds
<1>6. Places'
  <2>1. due \subseteq m_timers' /\ ready \subseteq Events'
    BY <1>2, <1>3 DEF Places, m_timers, Events
  <2>2. ASSUME NEW u \in Workers, pc'[u] = "run"
        PROVE  /\ place'[job[u]] = "run"
               /\ \A v \in Workers : v # u /\ pc'[v] = "run" => job[v] # job[u]
    <3>1. u # t /\ pc[u] = "run" /\ job[u] # j
      BY <1>1, <1>3, <2>2
    <3>2. job[u] \in Jobs
      BY <3>1 DEF Types, Holds
    <3>3. QED
      BY <1>1, <1>2, <3>1, <3>2 DEF Places
  <2>3. ASSUME NEW i \in Jobs, place'[i] = "run"
        PROVE  \E u \in Workers : pc'[u] = "run" /\ job[u] = i
    <3>1. i # j /\ place[i] = "run"
      BY <1>2, <2>3
    <3>2. PICK u \in Workers : pc[u] = "run" /\ job[u] = i
      BY <3>1 DEF Places
    <3>3. QED
      BY <1>1, <3>1, <3>2
  <2>4. \A u \in Workers : \A i \in cbs[u] :
          place'[i] = "cbs" /\ \A v \in Workers : v # u => i \notin cbs[v]
    BY <1>2, <1>3 DEF Places, Types
  <2>5. \A i \in Jobs : place'[i] = "cbs" => \E u \in Workers : i \in cbs[u]
    BY <1>2 DEF Places
  <2>6. \A u \in Workers : \A i \in batch[u] :
          /\ place'[i] = "event" /\ i \notin ready
          /\ \A v \in Workers : v # u => i \notin batch[v]
    BY <1>2, <1>3 DEF Places, Types
  <2>7. QED
    BY <2>1, <2>2, <2>3, <2>4, <2>5, <2>6 DEF Places
<1>7. Ends'
  BY <1>1, <1>4 DEF Ends
<1>8. QED
  BY <1>2, <1>3, <1>4, <1>5, <1>6, <1>7

\* Unless its thread has ended, a job that waits is seen by that thread.
LEMMA WaitForTimerKeeps ==
    ASSUME Finite, Inv, NEW t \in Workers, WaitForTimer(t)
    PROVE  Inv'
<1> USE DEF Inv
<1>1. /\ pc[t] = "run" /\ Goto(t, "yield")
      /\ waits[job[t]] < MaxWaits
      /\ waits' = [waits EXCEPT ![job[t]] = @ + 1]
      /\ late' = IF t \in idleTerm THEN late \cup {job[t]} ELSE late
      /\ MovesTo(job[t], "timer")
      /\ owesTickle' \in SUBSET (Workers \cup {Caller})
      /\ UNCHANGED <<bound, due, ready, m_pendingEventCount, m_activeThreadCount,
                     m_idleThreadCount, m_stopping, tickled, job, cbs, batch, idleTerm,
                     tickles, client>>
  BY DEF WaitForTimer, Waits, MovesTo, countVars, threadVars, Types
<1>2. PICK j \in Jobs : j = job[t]
  BY <1>1 DEF Types, Holds
<1>3. /\ Holds' /\ Places' /\ Ends'
      /\ place[j] = "run" /\ place'[j] = "timer"
      /\ \A i \in Jobs : i # j => place'[i] = place[i]
      /\ m_tasks' = m_tasks
  BY <1>1, <1>2, JobLeaves
<1>4. pc'[t] = "yield" /\ \A u \in Workers : u # t => pc'[u] = pc[u]
  BY <1>1 DEF Goto, Types
<1>5. Events' = Events /\ m_timers' = m_timers \cup {j}
  BY <1>3 DEF Events, m_timers
<1>6. Types'
  <2>1. waits' \in [Jobs -> 0..MaxWaits]
    BY <1>1, <1>2 DEF Types, Finite
  <2>2. late' \in SUBSET Jobs
    BY <1>1, <1>2 DEF Types
  <2>3. QED
    BY <1>1, <1>2, <2>1, <2>2 DEF Types, Locations, MovesTo, Goto
<1>7. Counts'
  BY <1>1, <1>5, CountsMove DEF Follows, InIdle
<1>8. Looked'
  <2>1. idleTerm' # {} /\ m_tasks' # {} => \E u \in Workers : pc'[u] \notin {"empty", "exit"}
    BY <1>4
  <2>2. ASSUME NEW i \in m_timers' \ late'
        PROVE  \E u \in Workers \ idleTerm' : pc'[u] \notin {"pending", "stopping"}
    <3>1. CASE i = j
      <4>1. t \notin idleTerm'
        BY <1>1, <1>2, <2>2, <3>1
      <4>2. QED
        BY <1>4, <4>1
    <3>2. CASE i # j
      <4>1. i \in m_timers \ late
        BY <1>1, <1>5, <2>2, <3>2
      <4>2. PICK u \in Workers \ idleTerm : pc[u] \notin {"pending", "stopping"}
        BY <4>1 DEF Looked
      <4>3. QED
        BY <1>1, <1>4, <4>2
    <3>3. QED
      BY <3>1, <3>2
  <2>3. ASSUME NEW i \in Events' \ late'
        PROVE  \E u \in Workers \ idleTerm' : pc'[u] # "stopping"
    <3>1. i \in Events \ late
      BY <1>1, <1>5
    <3>2. PICK u \in Workers \ idleTerm : pc[u] # "stopping"
      BY <3>1 DEF Looked
    <3>3. QED
      BY <1>1, <1>4, <3>2
  <2>4. QED
    BY <2>1, <2>2, <2>3 DEF Looked
<1>9. QED
  BY <1>3, <1>6, <1>7, <1>8

LEMMA WaitForEventKeeps ==
    ASSUME Finite, Inv, NEW t \in Workers, WaitForEvent(t)
    PROVE  Inv'
<1> USE DEF Inv
<1>1. /\ pc[t] = "run" /\ Goto(t, "yield")
      /\ waits[job[t]] < MaxWaits
      /\ waits' = [waits EXCEPT ![job[t]] = @ + 1]
      /\ late' = IF t \in idleTerm THEN late \cup {job[t]} ELSE late
      /\ MovesTo(job[t], "event")
      /\ m_pendingEventCount' = m_pendingEventCount + 1
      /\ UNCHANGED <<bound, due, ready, m_activeThreadCount,
                     m_idleThreadCount, m_stopping, tickled, job, cbs, batch, idleTerm,
                     tickles, client, owesTickle>>
  BY DEF WaitForEvent, Waits, MovesTo, countVars, threadVars
<1>2. PICK j \in Jobs : j = job[t]
  BY <1>1 DEF Types, Holds
<1>3. /\ Holds' /\ Places' /\ Ends'
      /\ place[j] = "run" /\ place'[j] = "event"
      /\ \A i \in Jobs : i # j => place'[i] = place[i]
      /\ m_tasks' = m_tasks
  BY <1>1, <1>2, JobLeaves
<1>4. pc'[t] = "yield" /\ \A u \in Workers : u # t => pc'[u] = pc[u]
  BY <1>1 DEF Goto, Types
<1>5. Events' = Events \cup {j} /\ m_timers' = m_timers
  BY <1>3 DEF Events, m_timers
<1>6. Types'
  <2>1. waits' \in [Jobs -> 0..MaxWaits]
    BY <1>1, <1>2 DEF Types, Finite
  <2>2. late' \in SUBSET Jobs
    BY <1>1, <1>2 DEF Types
  <2>3. QED
    BY <1>1, <1>2, <2>1, <2>2 DEF Types, Locations, MovesTo, Goto
<1>7. Counts'
  <2>1. Cardinality(Events) \in Nat /\ Cardinality(Events') = Cardinality(Events) + 1
    BY <1>1, <1>2, <1>3, EventsMove
  <2>2. At({"run", "yield"})' = At({"run", "yield"})
    BY <1>1, PcMoves DEF Follows
  <2>3. At(InIdle)' = At(InIdle)
    BY <1>1, PcMoves DEF Follows, InIdle
  <2>4. At({"uncount"})' = At({"uncount"}) /\ At({"uncount"}) \in Nat
    BY <1>1, PcMoves DEF Follows
  <2>5. QED
    BY <1>1, <2>1, <2>2, <2>3, <2>4 DEF Counts
<1>8. Looked'
  <2>1. idleTerm' # {} /\ m_tasks' # {} => \E u \in Workers : pc'[u] \notin {"empty", "exit"}
    BY <1>4
  <2>2. ASSUME NEW i \in m_timers' \ late'
        PROVE  \E u \in Workers \ idleTerm' : pc'[u] \notin {"pending", "stopping"}
    <3>1. i \in m_timers \ late
      BY <1>1, <1>5
    <3>2. PICK u \in Workers \ idleTerm : pc[u] \notin {"pending", "stopping"}
      BY <3>1 DEF Looked
    <3>3. QED
      BY <1>1, <1>4, <3>2
  <2>3. ASSUME NEW i \in Events' \ late'
        PROVE  \E u \in Workers \ idleTerm' : pc'[u] # "stopping"
    <3>1. CASE i = j
      <4>1. t \notin idleTerm'
        BY <1>1, <1>2, <2>3, <3>1
      <4>2. QED
        BY <1>4, <4>1
    <3>2. CASE i # j
      <4>1. i \in Events \ late
        BY <1>1, <1>5, <2>3, <3>2
      <4>2. PICK u \in Workers \ idleTerm : pc[u] # "stopping"
        BY <4>1 DEF Looked
      <4>3. QED
        BY <1>1, <1>4, <4>2
    <3>3. QED
      BY <3>1, <3>2
  <2>4. QED
    BY <2>1, <2>2, <2>3 DEF Looked
<1>9. QED
  BY <1>3, <1>6, <1>7, <1>8

LEMMA FinishKeeps ==
    ASSUME Finite, Inv, NEW t \in Workers, Finish(t)
    PROVE  Inv'
<1> USE DEF Inv
<1>1. /\ pc[t] = "run" /\ Goto(t, "yield")
      /\ MovesTo(job[t], "done")
      /\ UNCHANGED <<bound, due, ready, waits, late, m_pendingEventCount,
                     m_activeThreadCount, m_idleThreadCount, m_stopping, tickled, job, cbs,
                     batch, idleTerm, tickles, client, owesTickle>>
  BY DEF Finish, MovesTo, countVars, threadVars
<1>2. PICK j \in Jobs : j = job[t]
  BY <1>1 DEF Types, Holds
<1>3. /\ Holds' /\ Places' /\ Ends'
      /\ place[j] = "run" /\ place'[j] = "done"
      /\ \A i \in Jobs : i # j => place'[i] = place[i]
      /\ m_tasks' = m_tasks
  BY <1>1, <1>2, JobLeaves
<1>4. pc'[t] = "yield" /\ \A u \in Workers : u # t => pc'[u] = pc[u]
  BY <1>1 DEF Goto, Types
<1>5. Events' = Events /\ m_timers' = m_timers
  BY <1>3 DEF Events, m_timers
<1>6. Types'
  BY <1>1, <1>2 DEF Types, Locations, MovesTo, Goto
<1>7. Counts'
  BY <1>1, <1>5, CountsMove DEF Follows, InIdle
<1>8. Looked'
  BY <1>1, <1>3, <1>4, <1>5 DEF Looked
<1>9. QED
  BY <1>3, <1>6, <1>7, <1>8

LEMMA ReturnKeeps ==
    ASSUME Finite, Inv, NEW t \in Workers, Return(t)
    PROVE  Inv'
<1> USE DEF Inv
<1>1. /\ pc[t] = "yield" /\ Goto(t, "fetch")
      /\ job' = [job EXCEPT ![t] = NoJob]
      /\ m_activeThreadCount' = m_activeThreadCount - 1
      /\ UNCHANGED <<place, bound, due, ready, waits, late, m_pendingEventCount,
                     m_idleThreadCount, m_stopping, tickled, cbs,
                     batch, idleTerm, tickles, client, owesTickle>>
  BY DEF Return, workVars
<1>2. pc'[t] = "fetch" /\ \A u \in Workers : u # t => pc'[u] = pc[u]
  BY <1>1 DEF Goto, Types
<1>3. job'[t] = NoJob /\ \A u \in Workers : u # t => job'[u] = job[u]
  BY <1>1 DEF Types
<1>4. Events' = Events /\ m_timers' = m_timers /\ m_tasks' = m_tasks
  BY <1>1 DEF Events, m_timers, m_tasks
<1>5. Types'
  BY <1>1 DEF Types, Locations, Goto
<1>6. Counts'
  BY <1>1, <1>4, CountsMove DEF Follows, InIdle
<1>7. Holds'
  BY <1>1, <1>2, <1>3 DEF Holds
<1>8. Places'
  <2>1. \A u \in Workers : (pc'[u] = "run" <=> pc[u] = "run") /\ (pc[u] = "run" => job'[u] = job[u])
    BY <1>1, <1>2, <1>3
  <2>2. QED
    BY <1>1, <1>4, <2>1 DEF Places
<1>9. Ends'
  BY <1>1, <1>2, <1>4 DEF Ends
<1>10. Looked'
  BY <1>1, <1>4, StillLooked
<1>11. QED
  BY <1>5, <1>6, <1>7, <1>8, <1>9, <1>10

-----------------------------------------------------------------------------
(* The steps of idle() that move jobs.                                     *)

LEMMA WakeKeeps ==
    ASSUME Finite, Inv, NEW t \in Workers, Wake(t)
    PROVE  Inv'
<1> USE DEF Inv
<1>1. /\ pc[t] = "sleep" /\ Goto(t, "expired")
      /\ tickled' = FALSE
      /\ batch' = [batch EXCEPT ![t] = ready]
      /\ ready' = {}
      /\ UNCHANGED <<place, bound, due, waits, late, m_pendingEventCount,
                     m_activeThreadCount, m_idleThreadCount, m_stopping, job, cbs,
                     owesTickle, idleTerm, tickles, client>>
  BY DEF Wake, countVars
<1>2. pc'[t] = "expired" /\ \A u \in Workers : u # t => pc'[u] = pc[u]
  BY <1>1 DEF Goto, Types
<1>3. batch'[t] = ready /\ \A u \in Workers : u # t => batch'[u] = batch[u]
  BY <1>1 DEF Types
<1>4. cbs[t] = {}
  BY <1>1 DEF Holds
<1>5. Events' = Events /\ m_timers' = m_timers /\ m_tasks' = m_tasks
  BY <1>1 DEF Events, m_timers, m_tasks
<1>6. Types'
  BY <1>1 DEF Types, Locations, InIdle, Goto
<1>7. Counts'
  BY <1>1, <1>5, CountsMove DEF Follows, InIdle
<1>8. Holds'
  BY <1>1, <1>2, <1>3, <1>4 DEF Holds
<1>9. Places'
  <2>1. \A u \in Workers : pc'[u] = "run" <=> pc[u] = "run"
    BY <1>1, <1>2
  <2>2. \A u \in Workers : \A i \in batch'[u] :
          /\ place[i] = "event" /\ i \notin ready'
          /\ \A v \in Workers : v # u => i \notin batch'[v]
    <3>1. \A i \in ready : place[i] = "event"
      BY DEF Places, Events
    <3>2. QED
      BY <1>1, <1>3, <3>1 DEF Places
  <2>3. due' \subseteq m_timers' /\ ready' \subseteq Events'
    BY <1>1, <1>5 DEF Places
  <2>4. QED
    BY <1>1, <2>1, <2>2, <2>3 DEF Places
<1>10. Ends'
  BY <1>1, <1>2, <1>5 DEF Ends
<1>11. Looked'
  BY <1>1, StillLooked
<1>12. QED
  BY <1>6, <1>7, <1>8, <1>9, <1>10, <1>11

LEMMA ListExpiredKeeps ==
    ASSUME Finite, Inv, NEW t \in Workers, ListExpired(t)
    PROVE  Inv'
<1> USE DEF Inv
<1>1. /\ pc[t] = "expired" /\ Goto(t, "handle")
      /\ cbs' = [cbs EXCEPT ![t] = due]
      /\ place' = [j \in Jobs |-> IF j \in due THEN "cbs" ELSE place[j]]
      /\ due' = {}
      /\ UNCHANGED <<bound, ready, waits, late, m_pendingEventCount, m_activeThreadCount,
                     m_idleThreadCount, m_stopping, tickled, job, batch, owesTickle,
                     idleTerm, tickles, client>>
  BY DEF ListExpired, countVars
<1>2. pc'[t] = "handle" /\ \A u \in Workers : u # t => pc'[u] = pc[u]
  BY <1>1 DEF Goto, Types
<1>3. cbs'[t] = due /\ cbs[t] = {} /\ \A u \in Workers : u # t => cbs'[u] = cbs[u]
  BY <1>1 DEF Types, Holds
<1>4. /\ \A i \in due : i \in Jobs /\ place[i] = "timer" /\ place'[i] = "cbs"
      /\ \A i \in Jobs \ due : place'[i] = place[i]
  BY <1>1 DEF Places, m_timers
<1>5. Events' = Events /\ m_timers' = m_timers \ due /\ m_tasks' = m_tasks
  BY <1>4 DEF Events, m_timers, m_tasks
<1>6. Types'
  BY <1>1 DEF Types, Locations, InIdle, Goto
<1>7. Counts'
  BY <1>1, <1>5, CountsMove DEF Follows, InIdle
<1>8. Holds'
  BY <1>1, <1>2, <1>3 DEF Holds
<1>9. Places'
  <2>1. \A u \in Workers : pc'[u] = "run" <=> pc[u] = "run"
    BY <1>1, <1>2
  <2>2. ASSUME NEW u \in Workers, pc'[u] = "run"
        PROVE  /\ place'[job[u]] = "run"
               /\ \A v \in Workers : v # u /\ pc'[v] = "run" => job[v] # job[u]
    <3>1. job[u] \in Jobs \ due
      BY <1>4, <2>1, <2>2 DEF Places, Types, Holds
    <3>2. QED
      BY <1>4, <2>1, <2>2, <3>1 DEF Places
  <2>3. \A i \in Jobs : place'[i] = "run" => \E u \in Workers : pc'[u] = "run" /\ job[u] = i
    BY <1>4, <2>1 DEF Places
  <2>4. ASSUME NEW u \in Workers, NEW i \in cbs'[u]
        PROVE  place'[i] = "cbs" /\ \A v \in Workers : v # u => i \notin cbs'[v]
    <3>1. \A v \in Workers : \A k \in cbs[v] : k \in Jobs \ due
      BY <1>4 DEF Places, Types
    <3>2. CASE u = t
      BY <1>3, <1>4, <2>4, <3>1, <3>2
    <3>3. CASE u # t
      BY <1>3, <1>4, <2>4, <3>1, <3>3 DEF Places
    <3>4. QED
      BY <3>2, <3>3
  <2>5. ASSUME NEW i \in Jobs, place'[i] = "cbs"
        PROVE  \E u \in Workers : i \in cbs'[u]
    <3>1. CASE i \in due
      BY <1>3, <3>1
    <3>2. CASE i \notin due
      <4>1. PICK u \in Workers : i \in cbs[u]
        BY <1>4, <2>5, <3>2 DEF Places
      <4>2. QED
        BY <1>3, <4>1
    <3>3. QED
      BY <3>1, <3>2
  <2>6. \A u \in Workers : \A i \in batch[u] :
          /\ place'[i] = "event" /\ i \notin ready
          /\ \A v \in Workers : v # u => i \notin batch[v]
    BY <1>4 DEF Places, Types
  <2>7. due' \subseteq m_timers' /\ ready' \subseteq Events'
    BY <1>1, <1>5 DEF Places
  <2>8. QED
    BY <1>1, <2>2, <2>3, <2>4, <2>5, <2>6, <2>7 DEF Places
<1>10. Ends'
  BY <1>1, <1>2, <1>5 DEF Ends
<1>11. Looked'
  <2>1. \A u \in Workers : pc[u] \notin {"empty", "exit"} => pc'[u] \notin {"empty", "exit"}
    BY <1>2
  <2>2. \A u \in Workers : pc[u] \notin {"pending", "stopping"} => pc'[u] \notin {"pending", "stopping"}
    BY <1>2
  <2>3. \A u \in Workers : pc[u] # "stopping" => pc'[u] # "stopping"
    BY <1>2
  <2>4. QED
    BY <1>1, <1>5, <2>1, <2>2, <2>3 DEF Looked
<1>12. QED
  BY <1>6, <1>7, <1>8, <1>9, <1>10, <1>11

\* A job whose timer or event a thread has collected, and nobody else, goes to
\* the list.
LEMMA ScheduleCallbackKeeps ==
    ASSUME Finite, Inv, NEW t \in Workers, ScheduleCallback(t)
    PROVE  Inv'
<1> USE DEF Inv
<1>1. PICK j \in cbs[t] :
        /\ MovesTo(j, "function")
        /\ bound' = [bound EXCEPT ![j] = AnyThread]
        /\ cbs' = [cbs EXCEPT ![t] = @ \ {j}]
        /\ owesTickle' \in SUBSET (Workers \cup {Caller})
  BY DEF ScheduleCallback, Put, MovesTo, Types
<1>2. /\ pc[t] = "handle"
      /\ UNCHANGED <<due, ready, waits, late, m_pendingEventCount, m_activeThreadCount,
                     m_idleThreadCount, m_stopping, tickled, pc, job, batch, idleTerm,
                     tickles, client>>
  BY DEF ScheduleCallback, countVars
<1>3. j \in Jobs /\ place[j] = "cbs" /\ \A u \in Workers : u # t => j \notin cbs[u]
  BY <1>1 DEF Places, Types
<1>4. place'[j] = "function" /\ \A i \in Jobs : i # j => place'[i] = place[i]
  BY <1>1, <1>3 DEF MovesTo, Types
<1>5. bound'[j] = AnyThread /\ \A i \in Jobs : i # j => bound'[i] = bound[i]
  BY <1>1, <1>3 DEF Types
<1>6. cbs'[t] = cbs[t] \ {j} /\ \A u \in Workers : u # t => cbs'[u] = cbs[u]
  BY <1>1 DEF Types
<1>7. Events' = Events /\ m_timers' = m_timers /\ m_tasks' = m_tasks \cup {j}
  BY <1>3, <1>4 DEF Events, m_timers, m_tasks
<1>8. Types'
  BY <1>1, <1>2, <1>3 DEF Types, MovesTo
<1>9. Counts'
  BY <1>2, <1>7 DEF Counts, At
<1>10. Holds'
  BY <1>2, <1>6 DEF Holds
<1>11. Places'
  <2>1. ASSUME NEW u \in Workers, pc[u] = "run"
        PROVE  place'[job[u]] = "run"
    <3>1. job[u] \in Jobs /\ place[job[u]] = "run"
      BY <2>1 DEF Places, Types, Holds
    <3>2. QED
      BY <1>3, <1>4, <3>1
  <2>2. \A i \in Jobs : place'[i] = "run" => \E u \in Workers : pc[u] = "run" /\ job[u] = i
    BY <1>4 DEF Places
  <2>3. \A u \in Workers : \A i \in cbs'[u] : i \in cbs[u] /\ i # j /\ i \in Jobs
    BY <1>3, <1>6 DEF Types
  <2>4. \A u \in Workers : \A i \in cbs'[u] :
          place'[i] = "cbs" /\ \A v \in Workers : v # u => i \notin cbs'[v]
    BY <1>4, <2>3 DEF Places
  <2>5. ASSUME NEW i \in Jobs, place'[i] = "cbs"
        PROVE  \E u \in Workers : i \in cbs'[u]
    <3>1. i # j /\ place[i] = "cbs"
      BY <1>4, <2>5
    <3>2. PICK u \in Workers : i \in cbs[u]
      BY <3>1 DEF Places
    <3>3. QED
      BY <1>6, <3>1, <3>2
  <2>6. \A u \in Workers : \A i \in batch[u] :
          /\ place'[i] = "event" /\ i \notin ready
          /\ \A v \in Workers : v # u => i \notin batch[v]
    BY <1>3, <1>4 DEF Places, Types
  <2>7. due' \subseteq m_timers' /\ ready' \subseteq Events'
    BY <1>2, <1>7 DEF Places
  <2>8. QED
    BY <1>2, <2>1, <2>2, <2>4, <2>5, <2>6, <2>7 DEF Places
<1>12. Ends'
  <2>1. \A i \in m_tasks' : i = j \/ (i \in m_tasks /\ i \in Jobs /\ i # j)
    BY <1>7 DEF m_tasks
  <2>2. idleTerm # {} => \A i \in m_tasks' : bound'[i] = AnyThread
    BY <1>5, <2>1 DEF Ends
  <2>3. QED
    BY <1>2, <2>2 DEF Ends
<1>13. Looked'
  BY <1>2, <1>7 DEF Looked
<1>14. QED
  BY <1>8, <1>9, <1>10, <1>11, <1>12, <1>13

LEMMA TriggerEventKeeps ==
    ASSUME Finite, Inv, NEW t \in Workers, TriggerEvent(t)
    PROVE  Inv'
<1> USE DEF Inv
<1>1. PICK j \in batch[t] :
        /\ MovesTo(j, "fiber")
        /\ bound' = [bound EXCEPT ![j] = AnyThread]
        /\ batch' = [batch EXCEPT ![t] = @ \ {j}]
        /\ owesTickle' \in SUBSET (Workers \cup {Caller})
  BY DEF TriggerEvent, Put, MovesTo, Types
<1>2. /\ pc[t] = "handle" /\ cbs[t] = {} /\ Goto(t, "uncount")
      /\ UNCHANGED <<due, ready, waits, late, m_pendingEventCount, m_activeThreadCount,
                     m_idleThreadCount, m_stopping, tickled, job, cbs, idleTerm,
                     tickles, client>>
  BY DEF TriggerEvent, countVars
<1>3. /\ j \in Jobs /\ place[j] = "event" /\ j \notin ready
      /\ \A u \in Workers : u # t => j \notin batch[u]
  BY <1>1 DEF Places, Types
<1>4. place'[j] = "fiber" /\ \A i \in Jobs : i # j => place'[i] = place[i]
  BY <1>1, <1>3 DEF MovesTo, Types
<1>5. bound'[j] = AnyThread /\ \A i \in Jobs : i # j => bound'[i] = bound[i]
  BY <1>1, <1>3 DEF Types
<1>6. batch'[t] = batch[t] \ {j} /\ \A u \in Workers : u # t => batch'[u] = batch[u]
  BY <1>1 DEF Types
<1>7. pc'[t] = "uncount" /\ \A u \in Workers : u # t => pc'[u] = pc[u]
  BY <1>2 DEF Goto, Types
<1>8. Events' = Events \ {j} /\ m_timers' = m_timers /\ m_tasks' = m_tasks \cup {j}
  BY <1>3, <1>4 DEF Events, m_timers, m_tasks
<1>9. Types'
  BY <1>1, <1>2, <1>3 DEF Types, Locations, InIdle, MovesTo, Goto
<1>10. Counts'
  <2>1. Cardinality(Events) \in Nat /\ Cardinality(Events') = Cardinality(Events) - 1
    BY <1>1, <1>3, EventsMove
  <2>2. At({"run", "yield"})' = At({"run", "yield"})
    BY <1>2, PcMoves DEF Follows
  <2>3. At(InIdle)' = At(InIdle)
    BY <1>2, PcMoves DEF Follows, InIdle
  <2>4. At({"uncount"})' = At({"uncount"}) + 1 /\ At({"uncount"}) \in Nat
    BY <1>2, PcMoves DEF Follows
  <2>5. QED
    BY <1>2, <2>1, <2>2, <2>3, <2>4 DEF Counts
<1>11. Holds'
  BY <1>2, <1>6, <1>7 DEF Holds
<1>12. Places'
  <2>1. \A u \in Workers : pc'[u] = "run" <=> pc[u] = "run"
    BY <1>2, <1>7
  <2>2. ASSUME NEW u \in Workers, pc'[u] = "run"
        PROVE  /\ place'[job[u]] = "run"
               /\ \A v \in Workers : v # u /\ pc'[v] = "run" => job[v] # job[u]
    <3>1. pc[u] = "run" /\ job[u] \in Jobs /\ place[job[u]] = "run"
      BY <2>1, <2>2 DEF Places, Types, Holds
    <3>2. QED
      BY <1>3, <1>4, <2>1, <3>1 DEF Places
  <2>3. \A i \in Jobs : place'[i] = "run" => \E u \in Workers : pc'[u] = "run" /\ job[u] = i
    BY <1>4, <2>1 DEF Places
  <2>4. \A u \in Workers : \A i \in cbs[u] :
          place'[i] = "cbs" /\ \A v \in Workers : v # u => i \notin cbs[v]
    BY <1>3, <1>4 DEF Places, Types
  <2>5. \A i \in Jobs : place'[i] = "cbs" => \E u \in Workers : i \in cbs[u]
    BY <1>4 DEF Places
  <2>6. \A u \in Workers : \A i \in batch'[u] : i \in batch[u] /\ i # j /\ i \in Jobs
    BY <1>3, <1>6 DEF Types
  <2>7. \A u \in Workers : \A i \in batch'[u] :
          /\ place'[i] = "event" /\ i \notin ready
          /\ \A v \in Workers : v # u => i \notin batch'[v]
    BY <1>4, <2>6 DEF Places
  <2>8. due' \subseteq m_timers' /\ ready' \subseteq Events'
    BY <1>2, <1>3, <1>8 DEF Places
  <2>9. QED
    BY <1>2, <2>2, <2>3, <2>4, <2>5, <2>7, <2>8 DEF Places
<1>13. Ends'
  <2>1. \A i \in m_tasks' : i = j \/ (i \in m_tasks /\ i \in Jobs /\ i # j)
    BY <1>8 DEF m_tasks
  <2>2. idleTerm # {} => \A i \in m_tasks' : bound'[i] = AnyThread
    BY <1>5, <2>1 DEF Ends
  <2>3. QED
    BY <1>2, <1>7, <2>2 DEF Ends
<1>14. Looked'
  <2>1. \A u \in Workers : pc[u] \notin {"pending", "stopping"} => pc'[u] \notin {"pending", "stopping"}
    BY <1>7
  <2>2. \A u \in Workers : pc[u] # "stopping" => pc'[u] # "stopping"
    BY <1>7
  <2>3. QED
    BY <1>2, <1>7, <1>8, <2>1, <2>2 DEF Looked
<1>15. QED
  BY <1>9, <1>10, <1>11, <1>12, <1>13, <1>14

-----------------------------------------------------------------------------
(* The other actors.                                                       *)

\* A new job goes to the list: by a thread that will look at it, or while no
\* thread has ended.
LEMMA ScheduleNewKeeps ==
    ASSUME Finite, Inv, NEW a \in Workers \cup {Caller}, NEW threads,
           ScheduleNew(a, threads), threads \subseteq Workers \cup {AnyThread},
           \/ threads = {AnyThread} /\ \E t \in Workers : pc[t] = "run"
           \/ idleTerm = {}
    PROVE  Inv'
<1> USE DEF Inv
<1>1. PICK j \in Jobs, th \in threads :
        /\ place[j] = "new" /\ MovesTo(j, "function")
        /\ bound' = [bound EXCEPT ![j] = th]
        /\ owesTickle' \in SUBSET (Workers \cup {Caller})
  BY DEF ScheduleNew, Put, MovesTo, Types
<1>2. UNCHANGED <<due, ready, waits, late, m_pendingEventCount, m_activeThreadCount,
                  m_idleThreadCount, m_stopping, tickled, pc, job, cbs, batch, idleTerm,
                  tickles, client>>
  BY DEF ScheduleNew, countVars, threadVars
<1>3. place'[j] = "function" /\ \A i \in Jobs : i # j => place'[i] = place[i]
  BY <1>1 DEF MovesTo, Types
<1>4. bound'[j] = th /\ \A i \in Jobs : i # j => bound'[i] = bound[i]
  BY <1>1 DEF Types
<1>5. Events' = Events /\ m_timers' = m_timers /\ m_tasks' = m_tasks \cup {j}
  BY <1>1, <1>3 DEF Events, m_timers, m_tasks
<1>6. Types'
  BY <1>1, <1>2 DEF Types, MovesTo
<1>7. Counts'
  BY <1>2, <1>5 DEF Counts, At
<1>8. Holds'
  BY <1>2 DEF Holds
<1>9. Places'
  <2>1. ASSUME NEW u \in Workers, pc[u] = "run"
        PROVE  place'[job[u]] = "run"
    <3>1. job[u] \in Jobs /\ place[job[u]] = "run"
      BY <2>1 DEF Places, Types, Holds
    <3>2. QED
      BY <1>1, <1>3, <3>1
  <2>2. \A i \in Jobs : place'[i] = "run" => \E u \in Workers : pc[u] = "run" /\ job[u] = i
    BY <1>3 DEF Places
  <2>3. \A u \in Workers : \A i \in cbs[u] :
          place'[i] = "cbs" /\ \A v \in Workers : v # u => i \notin cbs[v]
    BY <1>1, <1>3 DEF Places, Types
  <2>4. \A i \in Jobs : place'[i] = "cbs" => \E u \in Workers : i \in cbs[u]
    BY <1>3 DEF Places
  <2>5. \A u \in Workers : \A i \in batch[u] :
          /\ place'[i] = "event" /\ i \notin ready
          /\ \A v \in Workers : v # u => i \notin batch[v]
    BY <1>1, <1>3 DEF Places, Types
  <2>6. due' \subseteq m_timers' /\ ready' \subseteq Events'
    BY <1>2, <1>5 DEF Places
  <2>7. QED
    BY <1>2, <2>1, <2>2, <2>3, <2>4, <2>5, <2>6 DEF Places
<1>10. Ends'
  <2>1. \A i \in m_tasks' : i = j \/ (i \in m_tasks /\ i \in Jobs /\ i # j)
    BY <1>5 DEF m_tasks
  <2>2. idleTerm # {} => \A i \in m_tasks' : bound'[i] = AnyThread
    BY <1>1, <1>4, <2>1 DEF Ends
  <2>3. QED
    BY <1>2, <2>2 DEF Ends
<1>11. Looked'
  <2>1. idleTerm # {} => \E u \in Workers : pc[u] \notin {"empty", "exit"}
    OBVIOUS
  <2>2. QED
    BY <1>2, <1>5, <2>1 DEF Looked
<1>12. QED
  BY <1>6, <1>7, <1>8, <1>9, <1>10, <1>11

LEMMA JobSchedulesKeeps ==
    ASSUME Finite, Inv, NEW t \in Workers, JobSchedules(t)
    PROVE  Inv'
<1>1. pc[t] = "run" /\ ScheduleNew(t, {AnyThread})
  BY DEF JobSchedules
<1>2. QED
  BY <1>1, ScheduleNewKeeps

LEMMA ClientSchedulesKeeps ==
    ASSUME Finite, Inv, ClientSchedules
    PROVE  Inv'
<1>1. client = "client" /\ ScheduleNew(Caller, Workers \cup {AnyThread})
  BY DEF ClientSchedules
<1>2. idleTerm = {}
  BY <1>1 DEF Inv, Ends
<1>3. QED
  BY <1>1, <1>2, ScheduleNewKeeps

\* Nothing is moved: bytes are written, stop() goes on, time passes.
LEMMA NothingMoves ==
    ASSUME Inv, UNCHANGED <<place, bound, waits, late, m_pendingEventCount,
                            m_activeThreadCount, m_idleThreadCount, pc, job, cbs, batch,
                            idleTerm>>,
           due' \subseteq m_timers, ready' \subseteq Events,
           \A t \in Workers : batch[t] \cap ready' = {}
    PROVE  Counts' /\ Holds' /\ Places' /\ Looked'
<1> USE DEF Inv
<1>1. Events' = Events /\ m_timers' = m_timers /\ m_tasks' = m_tasks
  BY DEF Events, m_timers, m_tasks
<1>2. Counts'
  BY <1>1 DEF Counts, At
<1>3. Holds'
  BY DEF Holds
<1>4. Places'
  <2>1. \A u \in Workers : \A i \in batch'[u] :
          /\ place'[i] = "event" /\ i \notin ready'
          /\ \A v \in Workers : v # u => i \notin batch'[v]
    BY DEF Places
  <2>2. QED
    BY <1>1, <2>1 DEF Places
<1>5. Looked'
  BY <1>1 DEF Looked
<1>6. QED
  BY <1>2, <1>3, <1>4, <1>5

LEMMA TimerExpiresKeeps ==
    ASSUME Inv, NEW j \in Jobs, TimerExpires(j)
    PROVE  Inv'
<1> USE DEF Inv
<1>1. /\ place[j] = "timer" /\ due' = due \cup {j}
      /\ UNCHANGED <<place, bound, ready, waits, late, m_pendingEventCount,
                     m_activeThreadCount, m_idleThreadCount, m_stopping, tickled, pc, job,
                     cbs, batch, owesTickle, idleTerm, tickles, client>>
  BY DEF TimerExpires, countVars, threadVars
<1>2. Types'
  BY <1>1 DEF Types
<1>3. due' \subseteq m_timers /\ ready' \subseteq Events
  BY <1>1 DEF Places, m_timers
<1>4. \A t \in Workers : batch[t] \cap ready' = {}
  BY <1>1 DEF Places
<1>5. Counts' /\ Holds' /\ Places' /\ Looked'
  BY <1>1, <1>3, <1>4, NothingMoves
<1>6. Ends'
  BY <1>1 DEF Ends, m_tasks
<1>7. QED
  BY <1>2, <1>5, <1>6

LEMMA EventHappensKeeps ==
    ASSUME Inv, NEW j \in Jobs, EventHappens(j)
    PROVE  Inv'
<1> USE DEF Inv
<1>1. /\ place[j] = "event" /\ ready' = ready \cup {j}
      /\ \A t \in Workers : j \notin batch[t]
      /\ UNCHANGED <<place, bound, due, waits, late, m_pendingEventCount,
                     m_activeThreadCount, m_idleThreadCount, m_stopping, tickled, pc, job,
                     cbs, batch, owesTickle, idleTerm, tickles, client>>
  BY DEF EventHappens, countVars, threadVars
<1>2. Types'
  BY <1>1 DEF Types
<1>3. due' \subseteq m_timers /\ ready' \subseteq Events
  BY <1>1 DEF Places, Events
<1>4. \A t \in Workers : batch[t] \cap ready' = {}
  BY <1>1 DEF Places
<1>5. Counts' /\ Holds' /\ Places' /\ Looked'
  BY <1>1, <1>3, <1>4, NothingMoves
<1>6. Ends'
  BY <1>1 DEF Ends, m_tasks
<1>7. QED
  BY <1>2, <1>5, <1>6

LEMMA TickleKeeps ==
    ASSUME Inv, NEW a \in Workers \cup {Caller}, Tickle(a)
    PROVE  Inv'
<1> USE DEF Inv
<1>1. /\ tickled' \in BOOLEAN /\ owesTickle' \in SUBSET (Workers \cup {Caller})
      /\ UNCHANGED <<place, bound, due, ready, waits, late, m_pendingEventCount,
                     m_activeThreadCount, m_idleThreadCount, m_stopping, pc, job,
                     cbs, batch, idleTerm, tickles, client>>
  BY DEF Tickle, Write, workVars, countVars, threadVars, Types
<1>2. Types'
  BY <1>1 DEF Types
<1>3. /\ due' \subseteq m_timers /\ ready' \subseteq Events
      /\ \A t \in Workers : batch[t] \cap ready' = {}
  BY <1>1 DEF Places
<1>4. Counts' /\ Holds' /\ Places' /\ Looked'
  BY <1>1, <1>3, NothingMoves
<1>5. Ends'
  BY <1>1 DEF Ends, m_tasks
<1>6. QED
  BY <1>2, <1>4, <1>5

LEMMA StopKeeps ==
    ASSUME Finite, Inv, Stop
    PROVE  Inv'
<1> USE DEF Inv
<1>1. /\ due \subseteq m_timers /\ ready \subseteq Events
      /\ \A t \in Workers : batch[t] \cap ready = {}
  BY DEF Places
<1>2. CASE StopBegins
  <2>1. /\ client = "client" /\ m_stopping' = TRUE /\ client' = "tickle"
        /\ UNCHANGED <<place, bound, due, ready, waits, late, m_pendingEventCount,
                       m_activeThreadCount, m_idleThreadCount, tickled, pc, job, cbs,
                       batch, owesTickle, idleTerm, tickles>>
    BY <1>2 DEF StopBegins, workVars
  <2>2. Types' /\ Ends'
    BY <2>1 DEF Types, Ends, m_tasks
  <2>3. Counts' /\ Holds' /\ Places' /\ Looked'
    BY <1>1, <2>1, NothingMoves
  <2>4. QED
    BY <2>2, <2>3
<1>3. CASE StopTickles
  <2>1. /\ tickles > 0 /\ tickles' = tickles - 1 /\ tickled' \in BOOLEAN
        /\ UNCHANGED <<place, bound, due, ready, waits, late, m_pendingEventCount,
                       m_activeThreadCount, m_idleThreadCount, m_stopping, pc, job, cbs,
                       batch, owesTickle, idleTerm, client>>
    BY <1>3 DEF StopTickles, Write, workVars, countVars, Types
  <2>2. tickles' \in 0..Cardinality(Workers)
    BY <2>1, WorkersFinite DEF Types
  <2>3. Types' /\ Ends'
    BY <2>1, <2>2 DEF Types, Ends, m_tasks
  <2>4. Counts' /\ Holds' /\ Places' /\ Looked'
    BY <1>1, <2>1, NothingMoves
  <2>5. QED
    BY <2>3, <2>4
<1>4. CASE StopReturns
  <2>1. /\ client' = "done"
        /\ UNCHANGED <<place, bound, due, ready, waits, late, m_pendingEventCount,
                       m_activeThreadCount, m_idleThreadCount, m_stopping, tickled, pc, job,
                       cbs, batch, owesTickle, idleTerm, tickles>>
    BY <1>4 DEF StopReturns, workVars, countVars
  <2>2. Types' /\ Ends'
    BY <2>1 DEF Types, Ends, m_tasks
  <2>3. Counts' /\ Holds' /\ Places' /\ Looked'
    BY <1>1, <2>1, NothingMoves
  <2>4. QED
    BY <2>2, <2>3
<1>5. CASE StopJoins
  <2>1. /\ client = "tickle" /\ client' = "join"
        /\ pc' = [t \in Workers |-> IF t = Caller THEN "fetch" ELSE pc[t]]
        /\ UNCHANGED <<place, bound, due, ready, waits, late, m_pendingEventCount,
                       m_activeThreadCount, m_idleThreadCount, m_stopping, tickled, job,
                       cbs, batch, owesTickle, idleTerm, tickles>>
    BY <1>5 DEF StopJoins, workVars, countVars
  <2>2. CASE Caller \notin Workers
    <3>1. pc' = pc
      BY <2>1, <2>2 DEF Types
    <3>2. Types' /\ Ends'
      BY <2>1, <2>2, <3>1 DEF Types, Ends, m_tasks
    <3>3. Counts' /\ Holds' /\ Places' /\ Looked'
      BY <1>1, <2>1, <3>1, NothingMoves
    <3>4. QED
      BY <3>2, <3>3
  <2>3. CASE Caller \in Workers
    <3>1. pc[Caller] = "off" /\ Goto(Caller, "fetch")
      BY <2>1, <2>3 DEF Ends, Types, Goto
    <3>2. pc'[Caller] = "fetch" /\ \A u \in Workers : u # Caller => pc'[u] = pc[u]
      BY <2>1, <2>3
    <3>3. Events' = Events /\ m_timers' = m_timers /\ m_tasks' = m_tasks
      BY <2>1 DEF Events, m_timers, m_tasks
    <3>4. Types'
      BY <2>1, <3>1 DEF Types, Locations, Goto
    <3>5. Counts'
      BY <2>1, <2>3, <3>1, <3>3, CountsMove DEF Follows, InIdle
    <3>6. Holds'
      BY <2>1, <3>1, <3>2 DEF Holds
    <3>7. Places'
      <4>1. \A u \in Workers : pc'[u] = "run" <=> pc[u] = "run"
        BY <3>1, <3>2
      <4>2. QED
        BY <2>1, <3>3, <4>1 DEF Places
    <3>8. Ends'
      BY <2>1, <3>2, <3>3 DEF Ends
    <3>9. Looked'
      BY <2>1, <2>3, <3>1, StillLooked
    <3>10. QED
      BY <3>4, <3>5, <3>6, <3>7, <3>8, <3>9
  <2>4. QED
    BY <2>2, <2>3
<1>6. QED
  BY <1>2, <1>3, <1>4, <1>5 DEF Stop

-----------------------------------------------------------------------------
(* The theorems.                                                           *)

LEMMA InitInv == Finite => (Init => Inv)
<1> SUFFICES ASSUME Finite, Init
             PROVE  Inv
  OBVIOUS
<1>1. /\ pc \in [Workers -> {"off", "fetch"}]
      /\ \A t \in Workers : t = Caller => pc[t] = "off"
  BY DEF Init
<1>2. Events = {} /\ m_timers = {} /\ m_tasks = {}
  BY DEF Init, Events, m_timers, m_tasks
<1>3. Types
  <2>1. tickles \in 0..Cardinality(Workers)
    BY WorkersFinite DEF Init
  <2>2. waits \in [Jobs -> 0..MaxWaits]
    BY DEF Init, Finite
  <2>3. QED
    BY <1>1, <2>1, <2>2 DEF Init, Types, Locations
<1>4. Counts
  <2>1. \A t \in Workers : pc[t] \notin {"run", "yield"} \cup InIdle \cup {"uncount"}
    BY <1>1 DEF InIdle
  <2>2. At({"run", "yield"}) = 0 /\ At(InIdle) = 0 /\ At({"uncount"}) = 0
    BY <2>1, FS_EmptySet DEF At
  <2>3. Cardinality(Events) = 0
    BY <1>2, FS_EmptySet
  <2>4. QED
    BY <2>2, <2>3 DEF Init, Counts
<1>5. Holds
  BY <1>1 DEF Init, Holds
<1>6. Places
  BY <1>1, <1>2 DEF Init, Places
<1>7. Ends
  BY <1>1 DEF Init, Ends
<1>8. Looked
  BY <1>2 DEF Init, Looked
<1>9. QED
  BY <1>3, <1>4, <1>5, <1>6, <1>7, <1>8 DEF Inv

LEMMA NextInv == Finite => (Inv /\ [Next]_vars => Inv')
<1> SUFFICES ASSUME Finite, Inv, [Next]_vars
             PROVE  Inv'
  OBVIOUS
<1>1. CASE UNCHANGED vars
  <2>1. Types' /\ Ends'
    BY <1>1 DEF Inv, Types, Ends, m_tasks, vars
  <2>2. /\ due' \subseteq m_timers /\ ready' \subseteq Events
        /\ \A t \in Workers : batch[t] \cap ready' = {}
    BY <1>1 DEF Inv, Places, vars
  <2>3. Counts' /\ Holds' /\ Places' /\ Looked'
    BY <1>1, <2>2, NothingMoves DEF vars
  <2>4. QED
    BY <2>1, <2>3 DEF Inv
<1>2. ASSUME NEW t \in Workers, Run(t)
      PROVE  Inv'
  BY <1>2, FetchKeeps, FetchNothingKeeps, WaitForTimerKeeps, WaitForEventKeeps,
     FinishKeeps, ReturnKeeps DEF Run
<1>3. ASSUME NEW t \in Workers, Idle(t)
      PROVE  Inv'
  BY <1>3, EnterIdleKeeps, ExitKeeps, ReadTimersKeeps, ReadPendingKeeps,
     ReadSchedulerKeeps, WakeKeeps, SleepTimesOutKeeps, ListExpiredKeeps,
     ScheduleCallbackKeeps, TriggerEventKeeps, UncountKeeps, YieldIdleKeeps,
     LeaveIdleKeeps DEF Idle
<1>4. QED
  BY <1>1, <1>2, <1>3, JobSchedulesKeeps, TickleKeeps, ClientSchedulesKeeps, StopKeeps,
     TimerExpiresKeeps, EventHappensKeeps DEF Next

\* The inductive invariant holds throughout run() and idle()
\* (scheduler.cc:204, iomanager.cc:442).
THEOREM Invariance ==
    ASSUME Finite
    PROVE  Spec => []Inv
<1>1. QED
  BY InitInv, NextInv, PTL DEF Spec

\* The variables keep their types and the three counters, each a word of its
\* own that is changed long before or after what it counts, stay exact
\* (scheduler.cc:266, iomanager.cc:563).
THEOREM TypeCorrect ==
    ASSUME Finite
    PROVE  Spec => []TypeOK
<1>1. ASSUME Inv
      PROVE  TypeOK
  BY <1>1 DEF Inv, Types, Counts, Holds, Places, TypeOK, At, Events, Locations
<1>2. QED
  BY <1>1, Invariance, PTL

\* However many threads read timers, events and list one after the other in
\* stopping() (iomanager.cc:434): when the last of them has left run(), every
\* job has run to its end but those that began to wait on a thread whose idle
\* fiber had returned.
THEOREM ThreadsLeaveNothing ==
    ASSUME Finite
    PROVE  Spec => []OnlyLateWaitsAreLeft
<1>1. ASSUME Inv, Stopped, NEW j \in Jobs, j \notin late
      PROVE  Over(j)
  <2>1. \A t \in Workers : pc[t] = "exit" /\ t \in idleTerm
    BY <1>1 DEF Inv, Ends, Stopped
  <2>2. idleTerm # {}
    BY <2>1, PoolAssumption
  <2>3. place[j] \notin {"function", "fiber"}
    BY <1>1, <2>1, <2>2 DEF Inv, Looked, m_tasks
  <2>4. place[j] # "timer"
    BY <1>1, <2>1 DEF Inv, Looked, m_timers
  <2>5. place[j] # "event"
    BY <1>1, <2>1 DEF Inv, Looked, Events
  <2>6. place[j] # "run"
    BY <1>1, <2>1 DEF Inv, Places
  <2>7. place[j] # "cbs"
    BY <1>1, <2>1 DEF Inv, Places, Holds
  <2>8. QED
    BY <1>1, <2>3, <2>4, <2>5, <2>6, <2>7 DEF Inv, Types, Over
<1>2. Inv => OnlyLateWaitsAreLeft
  BY <1>1 DEF OnlyLateWaitsAreLeft
<1>3. QED
  BY <1>2, Invariance, PTL
=============================================================================
