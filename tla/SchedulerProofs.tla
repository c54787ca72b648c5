-------------------------- MODULE SchedulerProofs --------------------------
(***************************************************************************)
(* Proofs about Scheduler for every number of threads, fibers and          *)
(* schedule() calls.                                                       *)
(***************************************************************************)
EXTENDS Scheduler, FiniteSetTheorems, SequenceTheorems, TLAPS

-----------------------------------------------------------------------------
(* The task list.                                                          *)

\* Erasing one entry keeps the others in their order.
LEMMA RemoveAtFacts ==
    ASSUME NEW S, NEW s \in Seq(S), NEW i \in 1..Len(s)
    PROVE  /\ RemoveAt(s, i) \in Seq(S)
           /\ Len(RemoveAt(s, i)) = Len(s) - 1
           /\ \A k \in 1..(Len(s) - 1) :
                RemoveAt(s, i)[k] = IF k < i THEN s[k] ELSE s[k + 1]
<1> DEFINE before == SubSeq(s, 1, i - 1)
           after  == SubSeq(s, i + 1, Len(s))
<1>1. Len(s) \in Nat /\ \A k \in 1..Len(s) : s[k] \in S
  BY LenProperties, ElementOfSeq
<1>2. /\ before \in Seq(S)
      /\ Len(before) = i - 1
      /\ \A k \in 1..(i - 1) : before[k] = s[k]
  <2>1. \A k \in 1..(i - 1) : s[k] \in S
    BY <1>1
  <2>2. /\ before \in Seq(S)
        /\ Len(before) = IF 1 <= i - 1 THEN (i - 1) - 1 + 1 ELSE 0
        /\ \A k \in 1..((i - 1) - 1 + 1) : before[k] = s[1 + k - 1]
    BY <2>1, SubSeqProperties
  <2>3. QED
    BY <1>1, <2>2
<1>3. /\ after \in Seq(S)
      /\ Len(after) = Len(s) - i
      /\ \A k \in 1..(Len(s) - i) : after[k] = s[i + k]
  <2>1. \A k \in (i + 1)..Len(s) : s[k] \in S
    BY <1>1
  <2>2. /\ after \in Seq(S)
        /\ Len(after) = IF i + 1 <= Len(s) THEN Len(s) - (i + 1) + 1 ELSE 0
        /\ \A k \in 1..(Len(s) - (i + 1) + 1) : after[k] = s[(i + 1) + k - 1]
    BY <1>1, <2>1, SubSeqProperties
  <2>3. QED
    BY <1>1, <2>2
<1>4. /\ before \o after \in Seq(S)
      /\ Len(before \o after) = Len(before) + Len(after)
      /\ \A k \in 1..(Len(before) + Len(after)) : (before \o after)[k] =
            IF k <= Len(before) THEN before[k] ELSE after[k - Len(before)]
  BY <1>2, <1>3, ConcatProperties
<1>5. RemoveAt(s, i) = before \o after
  BY DEF RemoveAt
<1> HIDE DEF before, after
<1>6. Len(before) + Len(after) = Len(s) - 1
  BY <1>1, <1>2, <1>3
<1>7. ASSUME NEW k \in 1..(Len(s) - 1)
      PROVE  (before \o after)[k] = IF k < i THEN s[k] ELSE s[k + 1]
  <2>1. CASE k < i
    <3>1. k \in 1..(i - 1) /\ k <= Len(before)
      BY <1>1, <1>2, <2>1
    <3>2. QED
      BY <1>2, <1>4, <1>6, <2>1, <3>1
  <2>2. CASE ~(k < i)
    <3>1. ~(k <= Len(before)) /\ k - Len(before) = k - (i - 1)
      BY <1>1, <1>2, <2>2
    <3>2. k - (i - 1) \in 1..(Len(s) - i) /\ i + (k - (i - 1)) = k + 1
      BY <1>1, <2>2
    <3>3. after[k - (i - 1)] = s[k + 1]
      BY <1>3, <3>2
    <3>4. QED
      BY <1>4, <1>6, <2>2, <3>1, <3>3
  <2>3. QED
    BY <2>1, <2>2
<1>8. QED
  BY <1>4, <1>5, <1>6, <1>7

\* The fiber that leaves the list is the only change in which fibers it holds.
LEMMA RemoveAtElements ==
    ASSUME NEW S, NEW s \in Seq(S), NEW i \in 1..Len(s)
    PROVE  /\ \A k \in 1..Len(RemoveAt(s, i)) : \E n \in 1..Len(s) :
                n # i /\ RemoveAt(s, i)[k] = s[n]
           /\ \A n \in 1..Len(s) : n # i =>
                \E k \in 1..Len(RemoveAt(s, i)) : RemoveAt(s, i)[k] = s[n]
<1> DEFINE r == RemoveAt(s, i)
<1>1. Len(s) \in Nat
  BY LenProperties
<1>2. Len(r) = Len(s) - 1
  BY RemoveAtFacts
<1>3. \A k \in 1..(Len(s) - 1) : r[k] = IF k < i THEN s[k] ELSE s[k + 1]
  BY RemoveAtFacts
<1> HIDE DEF r
<1>4. ASSUME NEW k \in 1..Len(r)
      PROVE  \E n \in 1..Len(s) : n # i /\ r[k] = s[n]
  <2> DEFINE n == IF k < i THEN k ELSE k + 1
  <2>1. n \in 1..Len(s) /\ n # i /\ r[k] = s[n]
    BY <1>1, <1>2, <1>3
  <2>2. QED
    BY <2>1
<1>5. ASSUME NEW n \in 1..Len(s), n # i
      PROVE  \E k \in 1..Len(r) : r[k] = s[n]
  <2>1. CASE n < i
    <3>1. n \in 1..Len(r) /\ r[n] = s[n]
      BY <1>1, <1>2, <1>3, <2>1
    <3>2. QED
      BY <3>1
  <2>2. CASE n > i
    <3>1. n - 1 \in 1..Len(r) /\ ~(n - 1 < i) /\ (n - 1) + 1 = n
      BY <1>1, <1>2, <2>2
    <3>2. r[n - 1] = s[n]
      BY <1>2, <1>3, <3>1
    <3>3. QED
      BY <3>1, <3>2
  <2>3. QED
    BY <1>5, <2>1, <2>2
<1>6. QED
  BY <1>4, <1>5 DEF r

-----------------------------------------------------------------------------
(* Types.                                                                  *)

LEMMA InitTypeOK == Init => TypeOK
<1> SUFFICES ASSUME Init PROVE TypeOK
  OBVIOUS
<1>1. m_tasks \in Seq(Entry)
  BY EmptySeq DEF Init
<1>2. m_state \in [Fibers -> {"NONE", "READY", "RUNNING", "TERM"}]
  BY DEF Init
<1>3. /\ task \in [Workers -> Fibers \cup {NoFiber}]
      /\ idleTerm \in [Workers -> BOOLEAN]
      /\ pc \in [Workers -> Locations]
  BY DEF Init, Locations
<1>4. scheduled \in [Fibers -> Nat] /\ resumed \in [Fibers -> Nat]
  BY DEF Init
<1>5. \A t \in Workers : pc[t] \notin {"resume", "run", "switch", "retire"}
  BY DEF Init
<1>6. m_activeThreadCount \in Int /\ m_idleThreadCount \in Int
  BY DEF Init
<1>7. m_stopping \in BOOLEAN /\ started \in BOOLEAN
  BY DEF Init
<1>8. client \in {"client", "root", "join", "done"}
  BY DEF Init
<1>9. QED
  BY <1>1, <1>2, <1>3, <1>4, <1>5, <1>6, <1>7, <1>8 DEF TypeOK

LEMMA ScheduleTypeOK ==
    ASSUME TypeOK, NEW f \in Fibers, NEW th \in Workers \cup {AnyThread},
           Schedule(f, th)
    PROVE  TypeOK'
<1>1. m_tasks' \in Seq(Entry)
  <2>1. [fiber |-> f, thread |-> th] \in Entry
    BY DEF Entry
  <2>2. QED
    BY <2>1, AppendProperties DEF TypeOK, Schedule
<1>2. scheduled' \in [Fibers -> Nat]
  BY DEF TypeOK, Schedule
<1>3. QED
  BY <1>1, <1>2 DEF TypeOK, Schedule

LEMMA FetchTaskTypeOK ==
    ASSUME TypeOK, NEW t \in Workers, FetchTask(t)
    PROVE  TypeOK'
<1>1. PICK i \in 1..Len(m_tasks) :
         /\ m_tasks' = RemoveAt(m_tasks, i)
         /\ task' = [task EXCEPT ![t] = m_tasks[i].fiber]
  BY DEF FetchTask
<1>2. m_tasks' \in Seq(Entry)
  BY <1>1, RemoveAtFacts DEF TypeOK
<1>3. m_tasks[i].fiber \in Fibers
  <2>1. m_tasks[i] \in Entry
    BY ElementOfSeq DEF TypeOK
  <2>2. QED
    BY <2>1 DEF Entry
<1>4. QED
  BY <1>1, <1>2, <1>3 DEF TypeOK, FetchTask, Goto, Locations

\* TypeOK is preserved by every step.
LEMMA NextTypeOK == TypeOK /\ [Next]_vars => TypeOK'
<1> SUFFICES ASSUME TypeOK, [Next]_vars PROVE TypeOK'
  OBVIOUS
<1> USE DEF TypeOK, Goto, Locations
<1>1. CASE ClientSchedule
  BY <1>1, ScheduleTypeOK DEF ClientSchedule, KnownThreads
<1>2. CASE Start
  BY <1>2 DEF Start
<1>3. CASE Stop
  BY <1>3 DEF Stop
<1>4. CASE RootDone
  BY <1>4 DEF RootDone
<1>5. CASE Join
  BY <1>5 DEF Join
<1>6. ASSUME NEW t \in Workers, FiberSchedule(t)
      PROVE  TypeOK'
  BY <1>6, ScheduleTypeOK DEF FiberSchedule, KnownThreads
<1>7. ASSUME NEW t \in Workers, Run(t)
      PROVE  TypeOK'
  <2>1. CASE FetchTask(t)
    BY <2>1, FetchTaskTypeOK
  <2>2. CASE FetchNone(t)
    BY <2>2 DEF FetchNone
  <2>3. CASE Resume(t)
    <3>1. task[t] \in Fibers
      BY <2>3 DEF Resume
    <3>2. CASE m_state[task[t]] \in {"TERM", "RUNNING"}
      BY <2>3, <3>1, <3>2 DEF Resume
    <3>3. CASE m_state[task[t]] \notin {"TERM", "RUNNING"}
      <4>1. /\ m_state' = [m_state EXCEPT ![task[t]] = "RUNNING"]
            /\ resumed' = [resumed EXCEPT ![task[t]] = @ + 1]
        BY <2>3, <3>3 DEF Resume
      <4>2. /\ m_state' \in [Fibers -> {"NONE", "READY", "RUNNING", "TERM"}]
            /\ resumed' \in [Fibers -> Nat]
        BY <3>1, <4>1
      <4>3. QED
        BY <2>3, <3>1, <3>3, <4>2 DEF Resume
    <3>4. QED
      BY <3>2, <3>3
  <2>4. CASE Yield(t)
    BY <2>4 DEF Yield
  <2>5. CASE Finish(t)
    BY <2>5 DEF Finish
  <2>6. CASE SwapOut(t)
    BY <2>6 DEF SwapOut
  <2>7. CASE Retire(t)
    BY <2>7 DEF Retire
  <2>8. CASE EnterIdle(t)
    BY <2>8 DEF EnterIdle
  <2>9. CASE Exit(t)
    BY <2>9 DEF Exit
  <2>10. CASE IdleCheck(t)
    BY <2>10 DEF IdleCheck, stopping
  <2>11. CASE LeaveIdle(t)
    BY <2>11 DEF LeaveIdle
  <2>12. QED
    BY <1>7, <2>1, <2>2, <2>3, <2>4, <2>5, <2>6, <2>7, <2>8, <2>9, <2>10,
       <2>11 DEF Run
<1>8. CASE UNCHANGED vars
  BY <1>8 DEF vars
<1>9. QED
  BY <1>1, <1>2, <1>3, <1>4, <1>5, <1>6, <1>7, <1>8
  DEF Next, Client, Terminated

\* Every variable keeps its type: the counters stay numbers, and a thread that
\* is resuming or running a fiber has one.
THEOREM TypeCorrect == Spec => []TypeOK
<1>1. Init => TypeOK
  BY InitTypeOK
<1>2. TypeOK /\ [Next]_vars => TypeOK'
  BY NextTypeOK
<1>3. QED
  BY <1>1, <1>2, PTL DEF Spec

-----------------------------------------------------------------------------
(* The counters.                                                           *)

LEMMA WorkersFinite == IsFiniteSet(Workers)
  BY PoolAssumption, FS_AddElement DEF Workers

\* One thread entering a set of threads adds one to its size, one leaving it
\* takes one away.
LEMMA CountOneMore ==
    ASSUME NEW A \in SUBSET Workers, NEW t \in Workers, t \notin A
    PROVE  Cardinality(A \cup {t}) = Cardinality(A) + 1
  BY WorkersFinite, FS_Subset, FS_AddElement

LEMMA CountOneLess ==
    ASSUME NEW A \in SUBSET Workers, NEW t \in A
    PROVE  Cardinality(A \ {t}) = Cardinality(A) - 1
  BY WorkersFinite, FS_Subset, FS_RemoveElement

LEMMA CountersInit == Init => CountersExact
<1> SUFFICES ASSUME Init PROVE CountersExact
  OBVIOUS
<1>1. Busy = {} /\ Idling = {}
  BY DEF Init, Busy, Idling
<1>2. m_activeThreadCount = 0 /\ m_idleThreadCount = 0
  BY DEF Init
<1>3. QED
  BY <1>1, <1>2, FS_EmptySet DEF CountersExact

\* A step that moves no thread into or out of a counted section keeps the
\* counters exact.
LEMMA CountersUnmoved ==
    ASSUME CountersExact, Busy' = Busy, Idling' = Idling,
           UNCHANGED <<m_activeThreadCount, m_idleThreadCount>>
    PROVE  CountersExact'
  BY DEF CountersExact

LEMMA CountersNext ==
    TypeOK /\ ControlInv /\ CountersExact /\ [Next]_vars => CountersExact'
<1> SUFFICES ASSUME TypeOK, ControlInv, CountersExact, [Next]_vars
             PROVE  CountersExact'
  OBVIOUS
<1> USE DEF TypeOK, Goto
<1>1. CASE ClientSchedule \/ \E t \in Workers : FiberSchedule(t)
  BY <1>1, CountersUnmoved DEF ClientSchedule, FiberSchedule, Schedule, Busy, Idling
<1>2. CASE Start
  <2>1. \A t \in Workers : pc'[t] = pc[t] \/ (pc[t] = "off" /\ pc'[t] = "fetch")
    BY <1>2 DEF Start, ControlInv
  <2>2. Busy' = Busy /\ Idling' = Idling
    BY <2>1 DEF Busy, Idling
  <2>3. QED
    BY <1>2, <2>2, CountersUnmoved DEF Start
<1>3. CASE Stop
  <2>1. \A t \in Workers : pc'[t] = pc[t] \/ (pc[t] = "off" /\ pc'[t] = "fetch")
    BY <1>3 DEF Stop, ControlInv
  <2>2. Busy' = Busy /\ Idling' = Idling
    BY <2>1 DEF Busy, Idling
  <2>3. QED
    BY <1>3, <2>2, CountersUnmoved DEF Stop
<1>4. CASE RootDone \/ Join
  BY <1>4, CountersUnmoved DEF RootDone, Join, Busy, Idling
<1>5. ASSUME NEW t \in Workers, Run(t)
      PROVE  CountersExact'
  <2>1. CASE FetchTask(t)
    <3>1. Busy' = Busy \cup {t} /\ t \notin Busy /\ Idling' = Idling
      BY <2>1 DEF FetchTask, Busy, Idling
    <3>2. Cardinality(Busy') = Cardinality(Busy) + 1
      BY <3>1, CountOneMore DEF Busy
    <3>3. QED
      BY <2>1, <3>1, <3>2 DEF FetchTask, CountersExact
  <2>2. CASE Retire(t)
    <3>1. Busy' = Busy \ {t} /\ t \in Busy /\ Idling' = Idling
      BY <2>2 DEF Retire, Busy, Idling
    <3>2. Cardinality(Busy') = Cardinality(Busy) - 1
      BY <3>1, CountOneLess DEF Busy
    <3>3. QED
      BY <2>2, <3>1, <3>2 DEF Retire, CountersExact
  <2>3. CASE EnterIdle(t)
    <3>1. Idling' = Idling \cup {t} /\ t \notin Idling /\ Busy' = Busy
      BY <2>3 DEF EnterIdle, Busy, Idling
    <3>2. Cardinality(Idling') = Cardinality(Idling) + 1
      BY <3>1, CountOneMore DEF Idling
    <3>3. QED
      BY <2>3, <3>1, <3>2 DEF EnterIdle, CountersExact
  <2>4. CASE LeaveIdle(t)
    <3>1. Idling' = Idling \ {t} /\ t \in Idling /\ Busy' = Busy
      BY <2>4 DEF LeaveIdle, Busy, Idling
    <3>2. Cardinality(Idling') = Cardinality(Idling) - 1
      BY <3>1, CountOneLess DEF Idling
    <3>3. QED
      BY <2>4, <3>1, <3>2 DEF LeaveIdle, CountersExact
  <2>5. CASE FetchNone(t) \/ Exit(t)
    <3>1. Busy' = Busy /\ Idling' = Idling
      BY <2>5 DEF FetchNone, Exit, Busy, Idling
    <3>2. QED
      BY <2>5, <3>1, CountersUnmoved DEF FetchNone, Exit
  <2>6. CASE Resume(t)
    <3>1. pc' = [pc EXCEPT ![t] = "abort"] \/ pc' = [pc EXCEPT ![t] = "run"]
      BY <2>6 DEF Resume
    <3>2. Busy' = Busy /\ Idling' = Idling
      BY <2>6, <3>1 DEF Resume, Busy, Idling
    <3>3. QED
      BY <2>6, <3>2, CountersUnmoved DEF Resume
  <2>7. CASE Yield(t) \/ Finish(t) \/ SwapOut(t)
    <3>1. Busy' = Busy /\ Idling' = Idling
      BY <2>7 DEF Yield, Finish, SwapOut, Busy, Idling
    <3>2. QED
      BY <2>7, <3>1, CountersUnmoved DEF Yield, Finish, SwapOut
  <2>8. CASE IdleCheck(t)
    <3>1. Busy' = Busy /\ Idling' = Idling
      BY <2>8 DEF IdleCheck, Busy, Idling
    <3>2. QED
      BY <2>8, <3>1, CountersUnmoved DEF IdleCheck
  <2>9. QED
    BY <1>5, <2>1, <2>2, <2>3, <2>4, <2>5, <2>6, <2>7, <2>8 DEF Run
<1>6. CASE UNCHANGED vars
  BY <1>6, CountersUnmoved DEF vars, Busy, Idling
<1>7. QED
  BY <1>1, <1>2, <1>3, <1>4, <1>5, <1>6 DEF Next, Client, Terminated

-----------------------------------------------------------------------------
(* start(), stop() and the exit of the threads.                            *)

LEMMA ControlInit == Init => ControlInv
<1> SUFFICES ASSUME Init PROVE ControlInv
  OBVIOUS
<1>1. client = "client" /\ ~m_stopping
  BY DEF Init
<1>2. \A t \in Workers : pc[t] = "off" /\ ~idleTerm[t]
  BY DEF Init
<1>3. UseCaller => Caller \in Workers
  BY DEF Workers
<1>4. QED
  BY <1>1, <1>2, <1>3 DEF ControlInv

\* While a thread holds a task or the list has an entry, no idle fiber has
\* returned: the scheduler is not stopping.
LEMMA WorkLeft ==
    ASSUME TypeOK, ControlInv, CountersExact,
           m_tasks # <<>> \/ Busy # {}
    PROVE  \A t \in Workers : ~idleTerm[t] /\ pc[t] # "exit"
<1>1. ~stopping
  <2>1. CASE m_tasks # <<>>
    BY <2>1 DEF stopping
  <2>2. CASE Busy # {}
    <3>1. IsFiniteSet(Busy)
      BY WorkersFinite, FS_Subset DEF Busy
    <3>2. Cardinality(Busy) # 0
      BY <2>2, <3>1, FS_EmptySet
    <3>3. QED
      BY <3>2 DEF CountersExact, stopping
  <2>3. QED
    BY <2>1, <2>2
<1>2. QED
  BY <1>1 DEF ControlInv

LEMMA ControlNext ==
    TypeOK /\ ControlInv /\ CountersExact /\ [Next]_vars => ControlInv'
<1> SUFFICES ASSUME TypeOK, ControlInv, CountersExact, [Next]_vars
             PROVE  ControlInv'
  OBVIOUS
<1> USE DEF TypeOK, Goto
<1>0. UseCaller => Caller \in Workers /\ Caller \notin Pool
  BY PoolAssumption DEF Workers
<1>1. CASE ClientSchedule
  <2>1. \A t \in Workers : ~idleTerm[t]
    BY <1>1 DEF ClientSchedule, ControlInv, stopping
  <2>2. UNCHANGED <<m_stopping, idleTerm, pc, started, client>>
    BY <1>1 DEF ClientSchedule, Schedule
  <2>3. QED
    BY <2>1, <2>2 DEF ControlInv
<1>2. ASSUME NEW t \in Workers, FiberSchedule(t)
      PROVE  ControlInv'
  <2>1. Busy # {}
    BY <1>2 DEF FiberSchedule, Busy
  <2>2. \A u \in Workers : ~idleTerm[u]
    BY <2>1, WorkLeft
  <2>3. UNCHANGED <<m_stopping, idleTerm, pc, started, client>>
    BY <1>2 DEF FiberSchedule, Schedule
  <2>4. QED
    BY <2>2, <2>3 DEF ControlInv
<1>3. CASE Start
  <2>1. \A t \in Workers : ~idleTerm[t]
    BY <1>3 DEF Start, ControlInv, stopping
  <2>2. client = "client" /\ ~m_stopping /\ started'
    BY <1>3 DEF Start
  <2>3. UNCHANGED <<m_stopping, idleTerm, client>>
    BY <1>3 DEF Start
  <2>4. \A t \in Workers : pc'[t] = IF t \in Pool THEN "fetch" ELSE pc[t]
    BY <1>3 DEF Start
  <2>5. QED
    BY <1>0, <2>1, <2>2, <2>3, <2>4 DEF ControlInv
<1>4. CASE Stop
  <2>1. \A t \in Workers : ~idleTerm[t]
    BY <1>4 DEF Stop, ControlInv, stopping
  <2>2. m_stopping' /\ client = "client"
    BY <1>4 DEF Stop
  <2>3. UNCHANGED <<idleTerm, started>>
    BY <1>4 DEF Stop
  <2>4. CASE UseCaller
    <3>1. client' = "root" /\ pc' = [pc EXCEPT ![Caller] = "fetch"]
      BY <1>4, <2>4 DEF Stop
    <3>2. \A t \in Workers : pc'[t] = IF t = Caller THEN "fetch" ELSE pc[t]
      BY <3>1
    <3>3. QED
      BY <1>0, <2>1, <2>2, <2>3, <2>4, <3>1, <3>2 DEF ControlInv
  <2>5. CASE ~UseCaller
    <3>1. client' = "join" /\ pc' = pc
      BY <1>4, <2>5 DEF Stop
    <3>2. QED
      BY <2>1, <2>2, <2>3, <2>5, <3>1 DEF ControlInv
  <2>6. QED
    BY <2>4, <2>5
<1>5. CASE RootDone
  BY <1>5 DEF RootDone, ControlInv, stopping
<1>6. CASE Join
  BY <1>6 DEF Join, ControlInv, stopping
<1>7. ASSUME NEW t \in Workers, Run(t)
      PROVE  ControlInv'
  <2>0. UNCHANGED <<m_stopping, started, client>>
    BY <1>7 DEF Run, FetchTask, FetchNone, Resume, Yield, Finish, SwapOut, Retire,
                EnterIdle, Exit, IdleCheck, LeaveIdle
  <2>1. CASE FetchTask(t)
    <3>1. m_tasks # <<>> /\ pc[t] = "fetch" /\ pc' = [pc EXCEPT ![t] = "resume"]
          /\ idleTerm' = idleTerm
      BY <2>1 DEF FetchTask
    <3>2. \A u \in Workers : ~idleTerm[u] /\ pc[u] # "exit"
      BY <3>1, WorkLeft
    <3>3. QED
      BY <1>0, <2>0, <3>1, <3>2 DEF ControlInv
  <2>2. CASE Resume(t) \/ Yield(t) \/ Finish(t) \/ SwapOut(t) \/ Retire(t)
    <3>1. Busy # {}
      BY <2>2 DEF Resume, Yield, Finish, SwapOut, Retire, Busy
    <3>2. \A u \in Workers : ~idleTerm[u] /\ pc[u] # "exit"
      BY <3>1, WorkLeft
    <3>3. \E l \in Locations \ {"off", "exit"} : pc' = [pc EXCEPT ![t] = l]
      BY <2>2 DEF Resume, Yield, Finish, SwapOut, Retire, Locations
    <3>4. idleTerm' = idleTerm /\ pc[t] # "off"
      BY <2>2 DEF Resume, Yield, Finish, SwapOut, Retire
    <3>5. QED
      BY <1>0, <2>0, <3>2, <3>3, <3>4 DEF ControlInv
  <2>3. CASE FetchNone(t) \/ EnterIdle(t) \/ LeaveIdle(t)
    <3>1. \E l \in {"empty", "idle", "fetch"} : pc' = [pc EXCEPT ![t] = l]
      BY <2>3 DEF FetchNone, EnterIdle, LeaveIdle
    <3>2. UNCHANGED <<idleTerm, m_tasks, m_activeThreadCount>>
          /\ pc[t] \notin {"off", "exit"}
      BY <2>3 DEF FetchNone, EnterIdle, LeaveIdle
    <3>3. QED
      BY <1>0, <2>0, <3>1, <3>2 DEF ControlInv, stopping
  <2>4. CASE Exit(t)
    <3>1. pc' = [pc EXCEPT ![t] = "exit"] /\ idleTerm[t] /\ pc[t] = "empty"
          /\ UNCHANGED <<idleTerm, m_tasks, m_activeThreadCount>>
      BY <2>4 DEF Exit
    <3>2. QED
      BY <1>0, <2>0, <3>1 DEF ControlInv, stopping
  <2>5. CASE IdleCheck(t)
    <3>1. /\ pc' = [pc EXCEPT ![t] = "idled"] /\ pc[t] = "idle"
          /\ idleTerm' = [idleTerm EXCEPT ![t] = stopping]
          /\ UNCHANGED <<m_tasks, m_activeThreadCount>>
      BY <2>5 DEF IdleCheck
    <3>2. stopping' = stopping
      BY <2>0, <3>1 DEF stopping
    <3>3. \A u \in Workers : idleTerm'[u] => stopping
      BY <3>1 DEF ControlInv
    <3>4. \A u \in Workers : pc'[u] = "exit" => idleTerm'[u]
      BY <3>1 DEF ControlInv
    <3>5. QED
      BY <1>0, <2>0, <3>1, <3>2, <3>3, <3>4 DEF ControlInv
  <2>6. QED
    BY <1>7, <2>1, <2>2, <2>3, <2>4, <2>5 DEF Run
<1>8. CASE UNCHANGED vars
  BY <1>8 DEF vars, ControlInv, stopping
<1>9. QED
  BY <1>1, <1>2, <1>3, <1>4, <1>5, <1>6, <1>7, <1>8 DEF Next, Client, Terminated

-----------------------------------------------------------------------------
(* Wake-ups.                                                               *)

\* What one schedule() does to the list.
LEMMA AfterSchedule ==
    ASSUME TypeOK, NEW f \in Fibers, NEW th \in Workers \cup {AnyThread},
           Schedule(f, th)
    PROVE  /\ Len(m_tasks) \in Nat
           /\ Len(m_tasks') = Len(m_tasks) + 1
           /\ \A k \in 1..Len(m_tasks) : m_tasks'[k] = m_tasks[k]
           /\ m_tasks'[Len(m_tasks) + 1].fiber = f
           /\ \A g \in Fibers : Queued(g)' <=> Queued(g) \/ g = f
<1> DEFINE e == [fiber |-> f, thread |-> th]
<1>1. e \in Entry
  BY DEF Entry
<1>2. m_tasks' = Append(m_tasks, e)
  BY DEF Schedule
<1>3. e.fiber = f
  OBVIOUS
<1> HIDE DEF e
<1>4. /\ Len(m_tasks) \in Nat
      /\ Len(m_tasks') = Len(m_tasks) + 1
      /\ \A k \in 1..Len(m_tasks) : m_tasks'[k] = m_tasks[k]
      /\ m_tasks'[Len(m_tasks) + 1] = e
  BY <1>1, <1>2, AppendProperties, LenProperties DEF TypeOK
<1>5. \A g \in Fibers : Queued(g)' <=> Queued(g) \/ g = f
  BY <1>3, <1>4 DEF Queued
<1>6. QED
  BY <1>3, <1>4, <1>5

\* What one scan that finds an entry does to the list.
LEMMA AfterFetch ==
    ASSUME TypeOK, WakeUpInv, NEW t \in Workers, FetchTask(t)
    PROVE  \E f \in Fibers :
             /\ Queued(f)
             /\ m_state[f] \in {"NONE", "READY"}
             /\ task' = [task EXCEPT ![t] = f]
             /\ \A g \in Fibers : Queued(g)' <=> Queued(g) /\ g # f
             /\ \A k \in 1..Len(m_tasks') : \E n \in 1..Len(m_tasks) :
                   m_tasks'[k] = m_tasks[n]
             /\ \A j, k \in 1..Len(m_tasks') :
                   m_tasks'[j].fiber = m_tasks'[k].fiber => j = k
<1>1. PICK i \in 1..Len(m_tasks) :
         /\ m_tasks' = RemoveAt(m_tasks, i)
         /\ task' = [task EXCEPT ![t] = m_tasks[i].fiber]
  BY DEF FetchTask
<1> DEFINE f == m_tasks[i].fiber
<1>2. Len(m_tasks) \in Nat
  BY LenProperties DEF TypeOK
<1>3. /\ Len(m_tasks') = Len(m_tasks) - 1
      /\ \A k \in 1..(Len(m_tasks) - 1) :
            m_tasks'[k] = IF k < i THEN m_tasks[k] ELSE m_tasks[k + 1]
  BY <1>1, RemoveAtFacts DEF TypeOK
<1>4. f \in Fibers
  <2>1. m_tasks[i] \in Entry
    BY ElementOfSeq DEF TypeOK
  <2>2. QED
    BY <2>1 DEF Entry
<1>5. Queued(f) /\ m_state[f] \in {"NONE", "READY"}
  BY DEF Queued, WakeUpInv
<1>6. \A j, k \in 1..Len(m_tasks) : m_tasks[j].fiber = m_tasks[k].fiber => j = k
  BY DEF WakeUpInv
<1>7. \A k \in 1..Len(m_tasks') : \E n \in 1..Len(m_tasks) :
         /\ m_tasks'[k] = m_tasks[n]
         /\ n = IF k < i THEN k ELSE k + 1
  BY <1>2, <1>3
<1>8. \A j, k \in 1..Len(m_tasks') :
         m_tasks'[j].fiber = m_tasks'[k].fiber => j = k
  BY <1>2, <1>6, <1>7
<1>9. ASSUME NEW g \in Fibers
      PROVE  Queued(g)' <=> Queued(g) /\ g # f
  <2>1. ASSUME NEW k \in 1..Len(m_tasks'), m_tasks'[k].fiber = g
        PROVE  Queued(g) /\ g # f
    <3>1. PICK n \in 1..Len(m_tasks) :
             m_tasks'[k] = m_tasks[n] /\ n = IF k < i THEN k ELSE k + 1
      BY <1>7
    <3>2. n # i
      BY <1>2, <3>1
    <3>3. QED
      BY <1>6, <2>1, <3>1, <3>2 DEF Queued
  <2>2. ASSUME NEW n \in 1..Len(m_tasks), m_tasks[n].fiber = g, g # f
        PROVE  Queued(g)'
    <3>1. n # i
      BY <2>2
    <3>2. PICK k \in 1..Len(m_tasks') : m_tasks'[k] = m_tasks[n]
      <4>1. CASE n < i
        <5>1. n \in 1..Len(m_tasks') /\ m_tasks'[n] = m_tasks[n]
          BY <1>2, <1>3, <4>1
        <5>2. QED
          BY <5>1
      <4>2. CASE n > i
        <5>1. n - 1 \in 1..Len(m_tasks') /\ m_tasks'[n - 1] = m_tasks[(n - 1) + 1]
          BY <1>2, <1>3, <4>2
        <5>2. QED
          BY <5>1
      <4>3. QED
        BY <3>1, <4>1, <4>2
    <3>3. QED
      BY <2>2, <3>2 DEF Queued
  <2>3. QED
    BY <2>1, <2>2 DEF Queued
<1> HIDE DEF f
<1>10. task' = [task EXCEPT ![t] = f]
  BY <1>1 DEF f
<1>11. QED
  BY <1>4, <1>5, <1>7, <1>8, <1>9, <1>10

LEMMA WakeUpInit == Init => WakeUpInv /\ EachScheduleResumesOnce
<1> SUFFICES ASSUME Init PROVE WakeUpInv /\ EachScheduleResumesOnce
  OBVIOUS
<1>1. Len(m_tasks) = 0
  BY DEF Init
<1>2. \A t \in Workers : pc[t] = "off"
  BY DEF Init
<1>3. \A f \in Fibers : m_state[f] # "RUNNING" /\ scheduled[f] = 0 /\ resumed[f] = 0
  BY DEF Init
<1>4. QED
  BY <1>1, <1>2, <1>3 DEF WakeUpInv, EachScheduleResumesOnce, Queued, Handed, HeldBy

\* schedule() of a parked fiber.
LEMMA WakeUpSchedule ==
    ASSUME WakeParkedOnly, TypeOK, WakeUpInv, EachScheduleResumesOnce,
           NEW f \in Fibers, NEW th \in Workers \cup {AnyThread}, Schedule(f, th)
    PROVE  WakeUpInv' /\ EachScheduleResumesOnce'
<1> USE DEF TypeOK
<1>1. ~Queued(f) /\ m_state[f] # "TERM" /\ ~Handed(f) /\ \A t \in Workers : ~On(t, f)
  BY DEF Schedule, MaySchedule
<1>2. m_state[f] \in {"NONE", "READY"}
  BY <1>1 DEF WakeUpInv, On
<1>3. \A t \in Workers : ~HeldBy(t, f)
  BY <1>1 DEF WakeUpInv, HeldBy, On, Handed
<1>4. UNCHANGED <<pc, task, m_state, resumed>>
  BY DEF Schedule
<1>5. /\ Len(m_tasks) \in Nat
      /\ Len(m_tasks') = Len(m_tasks) + 1
      /\ \A k \in 1..Len(m_tasks) : m_tasks'[k] = m_tasks[k]
      /\ m_tasks'[Len(m_tasks) + 1].fiber = f
      /\ \A g \in Fibers : Queued(g)' <=> Queued(g) \/ g = f
  BY AfterSchedule
<1>6. \A k \in 1..Len(m_tasks') : k \in 1..Len(m_tasks) \/ k = Len(m_tasks) + 1
  BY <1>5
<1>7. \A k \in 1..Len(m_tasks) : m_tasks[k].fiber # f
  BY <1>1 DEF Queued
<1>8. \A i, j \in 1..Len(m_tasks') : m_tasks'[i].fiber = m_tasks'[j].fiber => i = j
  <2>1. \A i, j \in 1..Len(m_tasks) : m_tasks[i].fiber = m_tasks[j].fiber => i = j
    BY DEF WakeUpInv
  <2> DEFINE n == Len(m_tasks)
             was(i) == m_tasks[i].fiber
             now(i) == m_tasks'[i].fiber
  <2>2. \A i \in 1..n : now(i) = was(i) /\ was(i) # f
    BY <1>5, <1>7
  <2>3. now(n + 1) = f
    BY <1>5
  <2>4. \A i, j \in 1..n : was(i) = was(j) => i = j
    BY <2>1
  <2>5. \A i \in 1..Len(m_tasks') : i \in 1..n \/ i = n + 1
    BY <1>6
  <2> HIDE DEF n, was, now
  <2>6. \A i, j \in 1..Len(m_tasks') : now(i) = now(j) => i = j
    BY <2>2, <2>3, <2>4, <2>5
  <2>7. QED
    BY <2>6 DEF now
<1>9. \A i \in 1..Len(m_tasks') : m_state'[m_tasks'[i].fiber] \in {"NONE", "READY"}
  BY <1>2, <1>4, <1>5, <1>6 DEF WakeUpInv
<1>10. \A g \in Fibers, t \in Workers : HeldBy(t, g)' => ~Queued(g)'
  BY <1>3, <1>4, <1>5 DEF WakeUpInv, HeldBy
<1>11. WakeUpInv'
  BY <1>4, <1>8, <1>9, <1>10 DEF WakeUpInv, HeldBy
<1>12. \A g \in Fibers : Handed(g)' <=> Handed(g)
  BY <1>4 DEF Handed
<1>13. \A g \in Fibers : scheduled'[g] = IF g = f THEN scheduled[g] + 1 ELSE scheduled[g]
  BY DEF Schedule
<1>14. ASSUME NEW g \in Fibers
       PROVE  scheduled'[g] - resumed'[g] = IF Queued(g)' \/ Handed(g)' THEN 1 ELSE 0
  <2>1. scheduled[g] - resumed[g] = IF Queued(g) \/ Handed(g) THEN 1 ELSE 0
    BY DEF EachScheduleResumesOnce
  <2>2. scheduled[g] \in Nat /\ resumed[g] \in Nat /\ resumed'[g] = resumed[g]
    BY <1>4
  <2>3. CASE g = f
    <3>1. scheduled'[g] = scheduled[g] + 1 /\ Queued(g)' /\ scheduled[g] - resumed[g] = 0
      BY <1>1, <1>5, <1>13, <2>1, <2>3
    <3>2. QED
      BY <2>2, <3>1
  <2>4. CASE g # f
    <3>1. scheduled'[g] = scheduled[g] /\ (Queued(g)' <=> Queued(g))
      BY <1>5, <1>13, <2>4
    <3>2. QED
      BY <1>12, <2>1, <2>2, <3>1
  <2>5. QED
    BY <2>3, <2>4
<1>15. QED
  BY <1>11, <1>14 DEF EachScheduleResumesOnce

\* A step that leaves the list, the fibers and the threads' holdings alone.
LEMMA WakeUpUnmoved ==
    ASSUME WakeUpInv, EachScheduleResumesOnce,
           UNCHANGED <<m_tasks, m_state, task, scheduled, resumed>>,
           \A t \in Workers :
             pc'[t] = pc[t] \/ {pc[t], pc'[t]} \cap {"resume", "run", "switch", "abort"} = {}
    PROVE  WakeUpInv' /\ EachScheduleResumesOnce'
<1>1. \A f \in Fibers : Queued(f)' <=> Queued(f)
  BY DEF Queued
<1>2. \A f \in Fibers, t \in Workers : HeldBy(t, f)' <=> HeldBy(t, f)
  BY DEF HeldBy
<1>3. \A f \in Fibers : Handed(f)' <=> Handed(f)
  BY DEF Handed
<1>4. \A t \in Workers : \A l \in {"resume", "run", "abort"} : pc'[t] = l <=> pc[t] = l
  OBVIOUS
<1>5. WakeUpInv'
  BY <1>1, <1>2, <1>4 DEF WakeUpInv
<1>6. EachScheduleResumesOnce'
  BY <1>1, <1>3 DEF EachScheduleResumesOnce
<1>7. QED
  BY <1>5, <1>6

LEMMA WakeUpFetch ==
    ASSUME TypeOK, WakeUpInv, EachScheduleResumesOnce,
           NEW t \in Workers, FetchTask(t)
    PROVE  WakeUpInv' /\ EachScheduleResumesOnce'
<1> USE DEF TypeOK
<1>1. PICK f \in Fibers :
         /\ Queued(f)
         /\ m_state[f] \in {"NONE", "READY"}
         /\ task' = [task EXCEPT ![t] = f]
         /\ \A g \in Fibers : Queued(g)' <=> Queued(g) /\ g # f
         /\ \A k \in 1..Len(m_tasks') : \E n \in 1..Len(m_tasks) :
               m_tasks'[k] = m_tasks[n]
         /\ \A j, k \in 1..Len(m_tasks') :
               m_tasks'[j].fiber = m_tasks'[k].fiber => j = k
  BY AfterFetch
<1>2. /\ pc[t] = "fetch" /\ pc' = [pc EXCEPT ![t] = "resume"]
      /\ UNCHANGED <<m_state, scheduled, resumed>>
  BY DEF FetchTask, Goto
<1>3. \A g \in Fibers, u \in Workers :
         HeldBy(u, g)' <=> HeldBy(u, g) \/ (u = t /\ g = f)
  BY <1>1, <1>2 DEF HeldBy
<1>4. \A u \in Workers : ~HeldBy(u, f)
  BY <1>1 DEF WakeUpInv
<1>5. \A g \in Fibers, u \in Workers : HeldBy(u, g)' => ~Queued(g)'
  BY <1>1, <1>3 DEF WakeUpInv
<1>6. \A g \in Fibers, u, v \in Workers : HeldBy(u, g)' /\ HeldBy(v, g)' => u = v
  BY <1>3, <1>4 DEF WakeUpInv
<1>7. \A k \in 1..Len(m_tasks') : m_state'[m_tasks'[k].fiber] \in {"NONE", "READY"}
  BY <1>1, <1>2 DEF WakeUpInv
<1>8. \A g \in Fibers : m_state'[g] = "RUNNING" =>
         \E u \in Workers : pc'[u] = "run" /\ task'[u] = g
  BY <1>1, <1>2 DEF WakeUpInv
<1>9. \A u \in Workers :
         /\ pc'[u] # "abort"
         /\ pc'[u] = "resume" => m_state'[task'[u]] \in {"NONE", "READY"}
         /\ pc'[u] = "run" => m_state'[task'[u]] = "RUNNING"
  BY <1>1, <1>2 DEF WakeUpInv
<1>10. WakeUpInv'
  BY <1>1, <1>5, <1>6, <1>7, <1>8, <1>9 DEF WakeUpInv
<1>11. \A g \in Fibers : Handed(g)' <=> Handed(g) \/ g = f
  BY <1>1, <1>2 DEF Handed
<1>12. EachScheduleResumesOnce'
  BY <1>1, <1>2, <1>11 DEF EachScheduleResumesOnce
<1>13. QED
  BY <1>10, <1>12

LEMMA WakeUpResume ==
    ASSUME TypeOK, WakeUpInv, EachScheduleResumesOnce,
           NEW t \in Workers, Resume(t)
    PROVE  WakeUpInv' /\ EachScheduleResumesOnce'
<1> USE DEF TypeOK
<1> DEFINE f == task[t]
<1>1. pc[t] = "resume" /\ f \in Fibers /\ m_state[f] \in {"NONE", "READY"}
  BY DEF Resume, WakeUpInv
<1>2. /\ m_state' = [m_state EXCEPT ![f] = "RUNNING"]
      /\ resumed' = [resumed EXCEPT ![f] = @ + 1]
      /\ pc' = [pc EXCEPT ![t] = "run"]
      /\ UNCHANGED <<m_tasks, task, scheduled>>
  BY <1>1 DEF Resume, Goto
<1>3. \A g \in Fibers, u \in Workers : HeldBy(u, g)' <=> HeldBy(u, g)
  BY <1>1, <1>2 DEF HeldBy
<1>4. \A g \in Fibers : Queued(g)' <=> Queued(g)
  BY <1>2 DEF Queued
<1>5. HeldBy(t, f) /\ ~Queued(f) /\ \A u \in Workers : HeldBy(u, f) => u = t
  BY <1>1 DEF WakeUpInv, HeldBy
<1>6. \A k \in 1..Len(m_tasks') : m_state'[m_tasks'[k].fiber] \in {"NONE", "READY"}
  BY <1>2, <1>5 DEF WakeUpInv, Queued
<1>7. \A g \in Fibers : m_state'[g] = "RUNNING" =>
         \E u \in Workers : pc'[u] = "run" /\ task'[u] = g
  BY <1>1, <1>2 DEF WakeUpInv
<1>8. ASSUME NEW u \in Workers
      PROVE  /\ pc'[u] # "abort"
             /\ pc'[u] = "resume" => m_state'[task'[u]] \in {"NONE", "READY"}
             /\ pc'[u] = "run" => m_state'[task'[u]] = "RUNNING"
  <2>1. CASE u = t
    BY <1>1, <1>2, <2>1
  <2>2. CASE u # t
    <3>1. pc'[u] = pc[u] /\ task'[u] = task[u]
      BY <1>2, <2>2
    <3>2. pc[u] \in {"resume", "run"} => task[u] # f
      BY <1>5, <2>2 DEF HeldBy
    <3>3. pc[u] \in {"resume", "run"} => m_state'[task[u]] = m_state[task[u]]
      BY <1>2, <3>2
    <3>4. QED
      BY <3>1, <3>3 DEF WakeUpInv
  <2>3. QED
    BY <2>1, <2>2
<1>9. WakeUpInv'
  BY <1>2, <1>3, <1>4, <1>6, <1>7, <1>8 DEF WakeUpInv
<1>10. \A g \in Fibers : Handed(g)' <=> Handed(g) /\ g # f
  BY <1>1, <1>2, <1>5 DEF Handed, HeldBy
<1>11. Handed(f)
  BY <1>1 DEF Handed
<1>12. \A g \in Fibers : resumed'[g] = IF g = f THEN resumed[g] + 1 ELSE resumed[g]
  BY <1>1, <1>2
<1> HIDE DEF f
<1>13. EachScheduleResumesOnce'
  BY <1>1, <1>2, <1>4, <1>5, <1>10, <1>11, <1>12 DEF EachScheduleResumesOnce
<1>14. QED
  BY <1>9, <1>13

\* Leaving the state RUNNING: the thread stays on the fiber's stack.
LEMMA WakeUpSuspend ==
    ASSUME TypeOK, WakeUpInv, EachScheduleResumesOnce,
           NEW t \in Workers, Yield(t) \/ Finish(t)
    PROVE  WakeUpInv' /\ EachScheduleResumesOnce'
<1> USE DEF TypeOK
<1> DEFINE f == task[t]
<1>1. pc[t] = "run" /\ f \in Fibers
  BY DEF Yield, Finish
<1>2. /\ \E st \in {"READY", "TERM"} : m_state' = [m_state EXCEPT ![f] = st]
      /\ pc' = [pc EXCEPT ![t] = "switch"]
      /\ UNCHANGED <<m_tasks, task, scheduled, resumed>>
  BY DEF Yield, Finish, Goto
<1>3. \A g \in Fibers, u \in Workers : HeldBy(u, g)' <=> HeldBy(u, g)
  BY <1>1, <1>2 DEF HeldBy
<1>4. \A g \in Fibers : Queued(g)' <=> Queued(g)
  BY <1>2 DEF Queued
<1>5. HeldBy(t, f) /\ ~Queued(f) /\ \A u \in Workers : HeldBy(u, f) => u = t
  BY <1>1 DEF WakeUpInv, HeldBy
<1>6. \A k \in 1..Len(m_tasks') : m_state'[m_tasks'[k].fiber] \in {"NONE", "READY"}
  BY <1>2, <1>5 DEF WakeUpInv, Queued
<1>7. \A g \in Fibers : m_state'[g] = "RUNNING" =>
         \E u \in Workers : pc'[u] = "run" /\ task'[u] = g
  BY <1>1, <1>2 DEF WakeUpInv
<1>8. ASSUME NEW u \in Workers
      PROVE  /\ pc'[u] # "abort"
             /\ pc'[u] = "resume" => m_state'[task'[u]] \in {"NONE", "READY"}
             /\ pc'[u] = "run" => m_state'[task'[u]] = "RUNNING"
  <2>1. CASE u = t
    BY <1>1, <1>2, <2>1
  <2>2. CASE u # t
    <3>1. pc'[u] = pc[u] /\ task'[u] = task[u]
      BY <1>2, <2>2
    <3>2. pc[u] \in {"resume", "run"} => task[u] # f
      BY <1>5, <2>2 DEF HeldBy
    <3>3. pc[u] \in {"resume", "run"} => m_state'[task[u]] = m_state[task[u]]
      BY <1>2, <3>2
    <3>4. QED
      BY <3>1, <3>3 DEF WakeUpInv
  <2>3. QED
    BY <2>1, <2>2
<1>9. WakeUpInv'
  BY <1>2, <1>3, <1>4, <1>6, <1>7, <1>8 DEF WakeUpInv
<1>10. \A g \in Fibers : Handed(g)' <=> Handed(g)
  BY <1>1, <1>2 DEF Handed
<1>11. EachScheduleResumesOnce'
  BY <1>2, <1>4, <1>10 DEF EachScheduleResumesOnce
<1>12. QED
  BY <1>9, <1>11

LEMMA WakeUpSwapOut ==
    ASSUME TypeOK, WakeUpInv, EachScheduleResumesOnce,
           NEW t \in Workers, SwapOut(t) \/ Retire(t)
    PROVE  WakeUpInv' /\ EachScheduleResumesOnce'
<1> USE DEF TypeOK
<1>1. /\ pc[t] \in {"switch", "retire"}
      /\ \E l \in {"retire", "fetch"} : pc' = [pc EXCEPT ![t] = l]
      /\ \A u \in Workers : u # t => task'[u] = task[u]
      /\ UNCHANGED <<m_tasks, m_state, scheduled, resumed>>
  BY DEF SwapOut, Retire, Goto
<1>2. \A g \in Fibers, u \in Workers : HeldBy(u, g)' => HeldBy(u, g)
  BY <1>1 DEF HeldBy
<1>3. \A g \in Fibers : (Queued(g)' <=> Queued(g)) /\ (Handed(g)' <=> Handed(g))
  BY <1>1 DEF Queued, Handed
<1>4. \A u \in Workers : \A l \in {"resume", "run", "abort"} :
         pc'[u] = l <=> pc[u] = l
  BY <1>1
<1>5. \A u \in Workers : pc[u] \in {"resume", "run"} => task'[u] = task[u]
  BY <1>1
<1>6. \A g \in Fibers, u, v \in Workers : HeldBy(u, g)' /\ HeldBy(v, g)' => u = v
  BY <1>2 DEF WakeUpInv
<1>7. \A g \in Fibers, u \in Workers : HeldBy(u, g)' => ~Queued(g)'
  BY <1>2, <1>3 DEF WakeUpInv
<1>8. \A g \in Fibers : m_state'[g] = "RUNNING" =>
         \E u \in Workers : pc'[u] = "run" /\ task'[u] = g
  <2>1. ASSUME NEW g \in Fibers, m_state'[g] = "RUNNING"
        PROVE  \E u \in Workers : pc'[u] = "run" /\ task'[u] = g
    <3>1. PICK u \in Workers : pc[u] = "run" /\ task[u] = g
      BY <1>1, <2>1 DEF WakeUpInv
    <3>2. QED
      BY <1>4, <1>5, <3>1
  <2>2. QED
    BY <2>1
<1>9. \A u \in Workers :
         /\ pc'[u] # "abort"
         /\ pc'[u] = "resume" => m_state'[task'[u]] \in {"NONE", "READY"}
         /\ pc'[u] = "run" => m_state'[task'[u]] = "RUNNING"
  BY <1>1, <1>4, <1>5 DEF WakeUpInv
<1>10. WakeUpInv'
  BY <1>1, <1>6, <1>7, <1>8, <1>9 DEF WakeUpInv
<1>11. EachScheduleResumesOnce'
  BY <1>1, <1>3 DEF EachScheduleResumesOnce
<1>12. QED
  BY <1>10, <1>11

LEMMA WakeUpNext ==
    WakeParkedOnly /\ TypeOK /\ ControlInv /\ WakeUpInv /\ EachScheduleResumesOnce
      /\ [Next]_vars => WakeUpInv' /\ EachScheduleResumesOnce'
<1> SUFFICES ASSUME WakeParkedOnly, TypeOK, ControlInv, WakeUpInv,
                    EachScheduleResumesOnce, [Next]_vars
             PROVE  WakeUpInv' /\ EachScheduleResumesOnce'
  OBVIOUS
<1>1. CASE ClientSchedule
  BY <1>1, WakeUpSchedule DEF ClientSchedule, KnownThreads
<1>2. ASSUME NEW t \in Workers, FiberSchedule(t)
      PROVE  WakeUpInv' /\ EachScheduleResumesOnce'
  BY <1>2, WakeUpSchedule DEF FiberSchedule, KnownThreads
<1>3. CASE Start \/ Stop
  <2>1. \A t \in Workers : pc'[t] = pc[t] \/ (pc[t] = "off" /\ pc'[t] = "fetch")
    BY <1>3 DEF Start, Stop, Goto, ControlInv, TypeOK
  <2>2. UNCHANGED <<m_tasks, m_state, task, scheduled, resumed>>
    BY <1>3 DEF Start, Stop
  <2>3. QED
    BY <2>1, <2>2, WakeUpUnmoved
<1>4. CASE RootDone \/ Join \/ UNCHANGED vars
  BY <1>4, WakeUpUnmoved DEF RootDone, Join, vars
<1>5. ASSUME NEW t \in Workers, Run(t)
      PROVE  WakeUpInv' /\ EachScheduleResumesOnce'
  <2>1. CASE FetchTask(t)
    BY <2>1, WakeUpFetch
  <2>2. CASE Resume(t)
    BY <2>2, WakeUpResume
  <2>3. CASE Yield(t) \/ Finish(t)
    BY <2>3, WakeUpSuspend
  <2>4. CASE SwapOut(t) \/ Retire(t)
    BY <2>4, WakeUpSwapOut
  <2>5. CASE FetchNone(t) \/ EnterIdle(t) \/ Exit(t) \/ IdleCheck(t) \/ LeaveIdle(t)
    <3>1. pc[t] \in {"fetch", "empty", "idle", "idled"}
      BY <2>5 DEF FetchNone, EnterIdle, Exit, IdleCheck, LeaveIdle
    <3>2. \E l \in {"fetch", "empty", "idle", "idled", "exit"} :
             pc' = [pc EXCEPT ![t] = l]
      BY <2>5 DEF FetchNone, EnterIdle, Exit, IdleCheck, LeaveIdle, Goto
    <3>3. UNCHANGED <<m_tasks, m_state, task, scheduled, resumed>>
      BY <2>5 DEF FetchNone, EnterIdle, Exit, IdleCheck, LeaveIdle
    <3>4. QED
      BY <3>1, <3>2, <3>3, WakeUpUnmoved DEF TypeOK
  <2>6. QED
    BY <1>5, <2>1, <2>2, <2>3, <2>4, <2>5 DEF Run
<1>6. QED
  BY <1>1, <1>2, <1>3, <1>4, <1>5 DEF Next, Client, Terminated

-----------------------------------------------------------------------------
(* What holds in every state.                                              *)

\* Both counters are exact in every state, whoever schedules what when: the
\* decrements outside the lock never take a counter below zero.
THEOREM Counting == Spec => [](CountersExact /\ ControlInv)
<1>1. Init => CountersExact /\ ControlInv
  BY CountersInit, ControlInit
<1>2. TypeOK /\ CountersExact /\ ControlInv /\ [Next]_vars => (CountersExact /\ ControlInv)'
  BY CountersNext, ControlNext
<1>3. QED
  BY <1>1, <1>2, TypeCorrect, PTL DEF Spec

\* Under the discipline that only parked fibers are scheduled, every wake-up is
\* in one place and leads to one resume().
THEOREM WakeUpOnce ==
    WakeParkedOnly => (Spec => [](WakeUpInv /\ EachScheduleResumesOnce))
<1> SUFFICES ASSUME WakeParkedOnly
             PROVE  Spec => [](WakeUpInv /\ EachScheduleResumesOnce)
  OBVIOUS
<1>1. Init => WakeUpInv /\ EachScheduleResumesOnce
  BY WakeUpInit
<1>2. TypeOK /\ CountersExact /\ ControlInv /\ WakeUpInv /\ EachScheduleResumesOnce
        /\ [Next]_vars => (WakeUpInv /\ EachScheduleResumesOnce)'
  BY WakeUpNext
<1>3. QED
  BY <1>1, <1>2, TypeCorrect, Counting, PTL DEF Spec

\* Under that discipline no two threads are ever on one fiber's stack, for any
\* number of threads and fibers.
THEOREM MutualExclusion ==
    WakeParkedOnly => (Spec => []OneThreadPerFiber)
<1> SUFFICES ASSUME WakeParkedOnly
             PROVE  Spec => []OneThreadPerFiber
  OBVIOUS
<1>1. WakeUpInv => OneThreadPerFiber
  BY DEF WakeUpInv, OneThreadPerFiber, HeldBy, On
<1>2. QED
  BY <1>1, WakeUpOnce, PTL

\* Under that discipline the assertion in Fiber::resume() never fails.
THEOREM ResumeAssertionHolds ==
    WakeParkedOnly => (Spec => []NoFailedAssertion)
<1> SUFFICES ASSUME WakeParkedOnly
             PROVE  Spec => []NoFailedAssertion
  OBVIOUS
<1>1. WakeUpInv => NoFailedAssertion
  BY DEF WakeUpInv, NoFailedAssertion
<1>2. QED
  BY <1>1, WakeUpOnce, PTL

\* When stop() returns the list is empty, no thread is on a fiber and every
\* schedule() has led to its resume().
THEOREM StopIsComplete ==
    WakeParkedOnly => (Spec => []StopDrains)
<1> SUFFICES ASSUME WakeParkedOnly
             PROVE  Spec => []StopDrains
  OBVIOUS
<1>1. ASSUME TypeOK, CountersExact, ControlInv, EachScheduleResumesOnce
      PROVE  StopDrains
  <2> SUFFICES ASSUME client = "done", UseCaller \/ started
               PROVE  /\ m_tasks = <<>>
                      /\ Busy = {}
                      /\ \A f \in Fibers : resumed[f] = scheduled[f]
    BY DEF StopDrains
  <2>1. PICK t \in Workers : pc[t] = "exit"
    <3>1. CASE UseCaller
      BY <1>1, <3>1 DEF ControlInv, Workers
    <3>2. CASE ~UseCaller
      BY <1>1, <3>2, PoolAssumption DEF ControlInv, Workers
    <3>3. QED
      BY <3>1, <3>2
  <2>2. m_tasks = <<>> /\ Busy = {}
    BY <1>1, <2>1, WorkLeft
  <2>3. \A f \in Fibers : ~Queued(f) /\ ~Handed(f)
    <3>1. Len(m_tasks) = 0
      BY <2>2
    <3>2. QED
      BY <2>2, <3>1 DEF Queued, Handed, Busy
  <2>4. \A f \in Fibers : scheduled[f] - resumed[f] = 0
    BY <1>1, <2>3 DEF EachScheduleResumesOnce
  <2>5. QED
    BY <1>1, <2>2, <2>4 DEF TypeOK
<1>2. QED
  BY <1>1, TypeCorrect, Counting, WakeUpOnce, PTL

-----------------------------------------------------------------------------
(* The scheduler implements the task pool.                                 *)

AsTask(e) == [task |-> e.fiber, worker |-> e.thread]

LEMMA PendingElements ==
    /\ \A x : x \in pendingTasks <=> \E i \in 1..Len(m_tasks) : x = AsTask(m_tasks[i])
    /\ \A x : x \in pendingTasks' <=> \E i \in 1..Len(m_tasks') : x = AsTask(m_tasks'[i])
BY DEF pendingTasks, AsTask

\* A task of the pool is outstanding when its fiber is queued, handed or on a
\* thread.
LEMMA OutstandingFibers ==
    ASSUME NEW f \in Fibers, TP!Outstanding(f)
    PROVE  Queued(f) \/ Handed(f) \/ \E t \in Workers : On(t, f)
<1>1. CASE \E p \in pendingTasks : p.task = f
  <2>1. PICK i \in 1..Len(m_tasks) : AsTask(m_tasks[i]).task = f
    BY <1>1, PendingElements
  <2>2. m_tasks[i].fiber = f
    BY <2>1 DEF AsTask
  <2>3. QED
    BY <2>2 DEF Queued
<1>2. CASE \E t \in Workers : runningTask[t] = f
  BY <1>2, FiberAssumption DEF runningTask, Handed, On
<1>3. QED
  BY <1>1, <1>2 DEF TP!Outstanding

\* schedule() submits, for the caller while the pool serves and for a fiber as
\* long as it runs.
LEMMA ScheduleSubmits ==
    ASSUME WakeParkedOnly, TypeOK, NEW f \in Fibers, NEW th \in KnownThreads \cup {AnyThread},
           Schedule(f, th), (client = "client" /\ ~m_stopping) \/ \E t \in Workers : pc[t] = "run"
    PROVE  TP!Next
<1>1. th \in Workers \cup {AnyThread}
  BY DEF KnownThreads
<1>2. poolPhase = "serving" \/ \E t \in Workers : runningTask[t] # NoFiber
  BY FiberAssumption DEF poolPhase, runningTask, TypeOK
<1>3. ~TP!Outstanding(f)
  BY OutstandingFibers DEF Schedule, MaySchedule
<1>4. pendingTasks' = pendingTasks \cup {[task |-> f, worker |-> th]}
  <2> DEFINE e == [fiber |-> f, thread |-> th]
  <2>1. e \in Entry /\ AsTask(e) = [task |-> f, worker |-> th]
    BY <1>1 DEF Entry, AsTask
  <2>2. m_tasks' = Append(m_tasks, e)
    BY DEF Schedule
  <2> HIDE DEF e
  <2>3. /\ Len(m_tasks) \in Nat
        /\ Len(m_tasks') = Len(m_tasks) + 1
        /\ \A k \in 1..Len(m_tasks) : m_tasks'[k] = m_tasks[k]
        /\ m_tasks'[Len(m_tasks) + 1] = e
    BY <2>1, <2>2, AppendProperties, LenProperties DEF TypeOK
  <2>4. ASSUME NEW x
        PROVE  x \in pendingTasks' <=> x \in pendingTasks \/ x = AsTask(e)
    BY <2>3, PendingElements
  <2>5. QED
    BY <2>1, <2>4
<1>5. UNCHANGED <<runningTask, UseCaller \/ started, poolPhase>>
  BY DEF Schedule, runningTask, poolPhase
<1>6. TP!Submit(f, th)
  BY <1>2, <1>3, <1>4, <1>5 DEF TP!Submit
<1>7. QED
  BY <1>1, <1>6 DEF TP!Next

\* The scan of run() takes one submission that its thread may take.
LEMMA FetchTakes ==
    ASSUME TypeOK, WakeUpInv, NEW t \in Workers, FetchTask(t)
    PROVE  TP!Next
<1>1. PICK i \in 1..Len(m_tasks) :
         /\ Eligible(t, m_tasks[i])
         /\ m_tasks' = RemoveAt(m_tasks, i)
         /\ task' = [task EXCEPT ![t] = m_tasks[i].fiber]
  BY DEF FetchTask
<1> DEFINE p == AsTask(m_tasks[i])
<1>2. p \in pendingTasks
  BY PendingElements
<1>3. p.task = m_tasks[i].fiber /\ p.worker \in {AnyThread, t}
  BY <1>1 DEF AsTask, Eligible
<1>4. pendingTasks' = pendingTasks \ {p}
  <2>1. ASSUME NEW x
        PROVE  x \in pendingTasks' <=> \E k \in 1..Len(m_tasks) : k # i /\ x = AsTask(m_tasks[k])
    <3>1. /\ \A k \in 1..Len(m_tasks') : \E n \in 1..Len(m_tasks) :
               n # i /\ m_tasks'[k] = m_tasks[n]
          /\ \A n \in 1..Len(m_tasks) : n # i =>
               \E k \in 1..Len(m_tasks') : m_tasks'[k] = m_tasks[n]
      BY <1>1, RemoveAtElements DEF TypeOK
    <3>2. ASSUME NEW k \in 1..Len(m_tasks'), x = AsTask(m_tasks'[k])
          PROVE  \E n \in 1..Len(m_tasks) : n # i /\ x = AsTask(m_tasks[n])
      <4>1. PICK n \in 1..Len(m_tasks) : n # i /\ m_tasks'[k] = m_tasks[n]
        BY <3>1
      <4>2. QED
        BY <3>2, <4>1
    <3>3. ASSUME NEW n \in 1..Len(m_tasks), n # i, x = AsTask(m_tasks[n])
          PROVE  \E k \in 1..Len(m_tasks') : x = AsTask(m_tasks'[k])
      <4>1. PICK k \in 1..Len(m_tasks') : m_tasks'[k] = m_tasks[n]
        BY <3>1, <3>3
      <4>2. QED
        BY <3>3, <4>1
    <3>4. QED
      BY <3>2, <3>3, PendingElements
  <2>2. \A k \in 1..Len(m_tasks) : AsTask(m_tasks[k]) = p => k = i
    BY DEF AsTask, WakeUpInv
  <2>3. QED
    BY <2>1, <2>2, PendingElements
<1> HIDE DEF p
<1>5. runningTask[t] = NoFiber /\ runningTask' = [runningTask EXCEPT ![t] = p.task]
  <2>1. pc[t] = "fetch" /\ pc' = [pc EXCEPT ![t] = "resume"]
    BY DEF FetchTask, Goto
  <2>2. task' = [task EXCEPT ![t] = p.task]
    BY <1>1, <1>3
  <2>3. QED
    BY <2>1, <2>2 DEF runningTask, TypeOK
<1>6. UNCHANGED <<UseCaller \/ started, poolPhase>>
  BY DEF FetchTask, poolPhase
<1>7. TP!Take(t, p)
  BY <1>2, <1>3, <1>4, <1>5, <1>6 DEF TP!Take
<1>8. QED
  BY <1>2, <1>7 DEF TP!Next

\* A step that only moves a thread between two points with the same task.
LEMMA SameTask ==
    ASSUME TypeOK, UNCHANGED <<m_tasks, m_stopping, started>>, poolPhase' = poolPhase,
           \A t \in Workers :
             \/ pc'[t] = pc[t] /\ task'[t] = task[t]
             \/ {pc[t], pc'[t]} \subseteq {"resume", "run", "switch"} /\ task'[t] = task[t]
             \/ {pc[t], pc'[t]} \cap {"resume", "run", "switch"} = {}
    PROVE  UNCHANGED TP!vars
<1>1. pendingTasks' = pendingTasks
  BY DEF pendingTasks
<1>2. runningTask' = runningTask
  BY DEF runningTask
<1>3. QED
  BY <1>1, <1>2 DEF TP!vars

\* What the threads do is a step of the task pool or invisible to it.
LEMMA RunIsPoolStep ==
    ASSUME TypeOK, WakeUpInv, NEW t \in Workers, Run(t)
    PROVE  TP!Next \/ UNCHANGED TP!vars
<1> USE DEF Goto, TypeOK
<1>1. CASE FetchTask(t)
  BY <1>1, FetchTakes
<1>2. CASE SwapOut(t)
  <2>1. pc[t] = "switch" /\ pc' = [pc EXCEPT ![t] = "retire"] /\ task' = task
    BY <1>2 DEF SwapOut
  <2>2. runningTask[t] # NoFiber /\ runningTask' = [runningTask EXCEPT ![t] = NoFiber]
    BY <2>1, FiberAssumption DEF runningTask
  <2>3. UNCHANGED <<pendingTasks, UseCaller \/ started, poolPhase>>
    BY <1>2 DEF SwapOut, pendingTasks, poolPhase
  <2>4. TP!Release(t)
    BY <2>2, <2>3 DEF TP!Release
  <2>5. QED
    BY <2>4 DEF TP!Next
<1>3. CASE Resume(t)
  <2>1. pc[t] = "resume" /\ m_state[task[t]] \in {"NONE", "READY"}
    BY <1>3 DEF Resume, WakeUpInv
  <2>2. pc' = [pc EXCEPT ![t] = "run"]
    BY <1>3, <2>1 DEF Resume
  <2>3. UNCHANGED <<m_tasks, m_stopping, started, client, task>>
    BY <1>3 DEF Resume
  <2>4. QED
    BY <2>1, <2>2, <2>3, SameTask DEF poolPhase
<1>4. CASE Yield(t) \/ Finish(t)
  <2>1. pc[t] = "run" /\ pc' = [pc EXCEPT ![t] = "switch"]
    BY <1>4 DEF Yield, Finish
  <2>2. UNCHANGED <<m_tasks, m_stopping, started, client, task>>
    BY <1>4 DEF Yield, Finish
  <2>3. QED
    BY <2>1, <2>2, SameTask DEF poolPhase
<1>5. CASE Retire(t)
  <2>1. pc[t] = "retire" /\ pc' = [pc EXCEPT ![t] = "fetch"]
    BY <1>5 DEF Retire
  <2>2. task' = [task EXCEPT ![t] = NoFiber] /\ UNCHANGED <<m_tasks, m_stopping, started, client>>
    BY <1>5 DEF Retire
  <2>3. QED
    BY <2>1, <2>2, SameTask DEF poolPhase
<1>6. CASE FetchNone(t) \/ EnterIdle(t) \/ Exit(t) \/ IdleCheck(t) \/ LeaveIdle(t)
  <2>1. pc[t] \in {"fetch", "empty", "idle", "idled"}
    BY <1>6 DEF FetchNone, EnterIdle, Exit, IdleCheck, LeaveIdle
  <2>2. \E l \in {"fetch", "empty", "idle", "idled", "exit"} : pc' = [pc EXCEPT ![t] = l]
    BY <1>6 DEF FetchNone, EnterIdle, Exit, IdleCheck, LeaveIdle
  <2>3. UNCHANGED <<m_tasks, m_stopping, started, client, task>>
    BY <1>6 DEF FetchNone, EnterIdle, Exit, IdleCheck, LeaveIdle
  <2>4. QED
    BY <2>1, <2>2, <2>3, SameTask DEF poolPhase
<1>7. QED
  BY <1>1, <1>2, <1>3, <1>4, <1>5, <1>6 DEF Run

\* start() opens the pool unless the caller is a worker of it already, stop()
\* begins to close it, and it is closed when stop() returns.
LEMMA ClientIsPoolStep ==
    ASSUME WakeParkedOnly, TypeOK, ControlInv, Client, StopDrains'
    PROVE  TP!Next \/ UNCHANGED TP!vars
<1>1. CASE ClientSchedule
  <2>1. client = "client" /\ ~m_stopping
    BY <1>1 DEF ClientSchedule, ControlInv
  <2>2. PICK f \in Fibers, th \in KnownThreads \cup {AnyThread} : Schedule(f, th)
    BY <1>1 DEF ClientSchedule
  <2>3. QED
    BY <2>1, <2>2, ScheduleSubmits
<1>2. CASE Start
  <2>1. UNCHANGED <<pendingTasks, poolPhase>> /\ poolPhase = "serving"
    BY <1>2 DEF Start, pendingTasks, poolPhase
  <2>2. runningTask' = runningTask
    <3>1. \A t \in Workers : pc'[t] = pc[t] \/ (pc[t] = "off" /\ pc'[t] = "fetch")
      BY <1>2 DEF Start, ControlInv
    <3>2. task' = task
      BY <1>2 DEF Start
    <3>3. QED
      BY <3>1, <3>2 DEF runningTask
  <2>3. ~started /\ started' = TRUE
    BY <1>2 DEF Start
  <2>4. CASE UseCaller
    BY <2>1, <2>2, <2>4 DEF TP!vars
  <2>5. CASE ~UseCaller
    <3>1. TP!Open
      BY <2>1, <2>2, <2>3, <2>5 DEF TP!Open
    <3>2. QED
      BY <3>1 DEF TP!Next
  <2>6. QED
    BY <2>4, <2>5
<1>3. CASE Stop
  <2>1. poolPhase = "serving" /\ poolPhase' = "closing"
    BY <1>3 DEF Stop, ControlInv, poolPhase
  <2>2. UNCHANGED <<pendingTasks, UseCaller \/ started>>
    BY <1>3 DEF Stop, pendingTasks
  <2>3. runningTask' = runningTask
    <3>1. \A t \in Workers : pc'[t] = pc[t] \/ (pc[t] = "off" /\ pc'[t] = "fetch")
      BY <1>3 DEF Stop, ControlInv, Goto, TypeOK
    <3>2. task' = task
      BY <1>3 DEF Stop
    <3>3. QED
      BY <3>1, <3>2 DEF runningTask
  <2>4. TP!BeginClose
    BY <2>1, <2>2, <2>3 DEF TP!BeginClose
  <2>5. QED
    BY <2>4 DEF TP!Next
<1>4. CASE RootDone
  BY <1>4, SameTask DEF RootDone, poolPhase
<1>5. CASE Join
  <2>1. poolPhase = "closing" /\ poolPhase' = "closed"
    BY <1>5 DEF Join, ControlInv, poolPhase
  <2>2. client' = "done" /\ UNCHANGED <<m_tasks, task, pc, started>>
    BY <1>5 DEF Join
  <2>3. UNCHANGED <<pendingTasks, runningTask, UseCaller \/ started>>
    BY <2>2 DEF pendingTasks, runningTask
  <2>4. ASSUME UseCaller \/ started
        PROVE  pendingTasks = {} /\ \A t \in Workers : runningTask[t] = NoFiber
    <3>1. m_tasks = <<>> /\ Busy' = {}
      BY <2>2, <2>4 DEF StopDrains
    <3>2. Len(m_tasks) = 0
      BY <3>1
    <3>3. pendingTasks = {}
      BY <3>2, PendingElements
    <3>4. \A t \in Workers : runningTask[t] = NoFiber
      BY <2>2, <3>1 DEF Busy, runningTask
    <3>5. QED
      BY <3>3, <3>4
  <2>5. TP!Close
    BY <2>1, <2>3, <2>4 DEF TP!Close
  <2>6. QED
    BY <2>5 DEF TP!Next
<1>6. QED
  BY <1>1, <1>2, <1>3, <1>4, <1>5 DEF Client

\* IsTaskPool: under the discipline that only parked fibers are scheduled,
\* Scheduler implements TaskPool, for any number of threads and fibers.
THEOREM Refinement == WakeParkedOnly => (Spec => IsTaskPool)
<1> SUFFICES ASSUME WakeParkedOnly
             PROVE  Spec => IsTaskPool
  OBVIOUS
<1>1. Init => TP!Init
  <2> SUFFICES ASSUME Init PROVE TP!Init
    OBVIOUS
  <2>1. Len(m_tasks) = 0
    BY DEF Init
  <2>2. pendingTasks = {}
    BY <2>1, PendingElements
  <2>3. runningTask = [t \in Workers |-> NoFiber]
    BY DEF Init, runningTask
  <2>4. poolPhase = "serving" /\ (UseCaller \/ started) \in BOOLEAN
    BY DEF Init, poolPhase
  <2>5. QED
    BY <2>2, <2>3, <2>4 DEF TP!Init
<1>2. TypeOK /\ ControlInv /\ WakeUpInv /\ StopDrains' /\ [Next]_vars => [TP!Next]_(TP!vars)
  <2> SUFFICES ASSUME TypeOK, ControlInv, WakeUpInv, StopDrains', [Next]_vars
               PROVE  TP!Next \/ UNCHANGED TP!vars
    OBVIOUS
  <2>1. ASSUME NEW t \in Workers, FiberSchedule(t)
        PROVE  TP!Next
    BY <2>1, ScheduleSubmits DEF FiberSchedule
  <2>2. CASE UNCHANGED vars
    BY <2>2, SameTask DEF vars, poolPhase
  <2>3. QED
    BY <2>1, <2>2, ClientIsPoolStep, RunIsPoolStep DEF Next, Terminated
<1>3. QED
  BY <1>1, <1>2, TypeCorrect, Counting, WakeUpOnce, StopIsComplete, PTL
     DEF Spec, IsTaskPool, TP!Spec
=============================================================================
