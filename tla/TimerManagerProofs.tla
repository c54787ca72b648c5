------------------------- MODULE TimerManagerProofs -------------------------
(***************************************************************************)
(* Proofs about TimerManager for every number of timers, clients and       *)
(* threads, every clock and every width of the integers.                   *)
(***************************************************************************)
EXTENDS TimerManager, TLAPS

-----------------------------------------------------------------------------
(* Arithmetic modulo Word.                                                 *)

\* A remainder is below the modulus, and not above what is divided.
LEMMA ModRange ==
    ASSUME NEW x \in Int
    PROVE  /\ x % Word \in 0..(Word - 1)
           /\ x >= 0 => x % Word <= x
<1>1. Word \in Int /\ Word > 0
  BY WidthAssumption
<1>2. x % Word \in 0..(Word - 1)
  BY <1>1
<1>3. ASSUME x >= 0  PROVE x % Word <= x
  BY <1>1, <1>3
<1>4. QED
  BY <1>2, <1>3

\* Reducing a term first makes no difference.
LEMMA ModShift ==
    ASSUME NEW x \in Int, NEW y \in Int
    PROVE  ((x % Word) + y) % Word = (x + y) % Word
<1>1. Word \in Int /\ Word > 0
  BY WidthAssumption
<1>2. QED
  BY <1>1

-----------------------------------------------------------------------------
(* Types.                                                                  *)

\* Initially every component has its type.
LEMMA InitTypeOK == Init => TypeOK
<1> SUFFICES ASSUME Init  PROVE TypeOK
  OBVIOUS
<1>1. StartTime \in Nat /\ StartTime \in StartTime..MaxTime /\ 0 \in 0..(Word - 1)
  BY ClockAssumption, WidthAssumption
<1>2. timer \in [Timers -> [next: 0..(Word - 1), ms: Delays \cup {0}, cb: BOOLEAN]]
  BY <1>1 DEF Init
<1>3. QED
  BY <1>1, <1>2 DEF Init, TypeOK

\* What a Timer object holds.
TimerRecord == [next: 0..(Word - 1), ms: Delays \cup {0}, cb: BOOLEAN]

\* Delays are natural numbers.
LEMMA DelayType == \A ms \in Delays \cup {0} : ms \in Nat
<1>1. \A ms \in 0..(Word - 1) : ms \in Nat
  BY WidthAssumption
<1>2. QED
  BY <1>1, DelayAssumption

\* A Timer object with a new expiry, or without its callback, is still one.
LEMMA RecordUpdates ==
    ASSUME NEW r \in TimerRecord
    PROVE  /\ \A n \in 0..(Word - 1) : [r EXCEPT !.next = n] \in TimerRecord
           /\ [r EXCEPT !.cb = FALSE] \in TimerRecord
  BY DEF TimerRecord

\* A delay that fits the word leads to an expiry that fits it.
LEMMA ExpiryType ==
    ASSUME TypeOK, NEW ms \in Delays \cup {0}
    PROVE  Expiry(ms) \in 0..(Word - 1)
<1>1. now + ms \in Int
  BY ClockAssumption, DelayAssumption DEF TypeOK
<1>2. QED
  BY <1>1, ModRange DEF Expiry

\* A wait ends at a natural number or never.
LEMMA WaitForType ==
    ASSUME TypeOK, NEW th \in Threads, NEW ms \in Int, WaitFor(th, ms)
    PROVE  deadline' \in [Threads -> Nat \cup {Never}]
<1>1. now \in Nat /\ MaxWait \in Nat
  BY ClockAssumption, DelayAssumption DEF TypeOK
<1>2. (IF ms < 0 THEN Never ELSE now + (IF MaxWait < ms THEN MaxWait ELSE ms))
         \in Nat \cup {Never}
  BY <1>1
<1>3. QED
  BY <1>2 DEF WaitFor, TypeOK

\* The conversion to int yields an integer.
LEMMA ToIntType ==
    ASSUME NEW n \in Int
    PROVE  ToInt(n) \in Int
  BY WidthAssumption DEF ToInt

\* Putting a timer of the model into the set keeps the types.
LEMMA AddTimerTypeOK ==
    ASSUME TypeOK, NEW c \in Clients, NEW t \in Timers, NEW tm,
           NEW others \in SUBSET Timers, AddTimer(c, t, tm, others)
    PROVE  /\ m_timers' \subseteq Timers
           /\ m_tickled' \in BOOLEAN
           /\ known' \subseteq Timers
           /\ client' \in [Clients -> {"free", "insert", "tickle"}]
           /\ held' \in [Clients -> Timers \cup {NoTimer}]
           /\ \A d \in Clients : client'[d] = "free" <=> held'[d] = NoTimer
<1> DEFINE at_front == ~m_tickled /\ \A u \in others \ {t} : Before(tm, t, u)
<1>1. /\ m_timers' = others \cup {t}
      /\ m_tickled' = (m_tickled \/ at_front)
      /\ IF at_front
           THEN /\ client' = [client EXCEPT ![c] = "tickle"]
                /\ held' = [held EXCEPT ![c] = t]
                /\ UNCHANGED known
           ELSE /\ client' = [client EXCEPT ![c] = "free"]
                /\ held' = [held EXCEPT ![c] = NoTimer]
                /\ known' = known \cup {t}
  BY DEF AddTimer
<1> HIDE DEF at_front
<1>2. CASE at_front
  <2>1. t # NoTimer
    BY TimerAssumption
  <2>2. /\ client' = [client EXCEPT ![c] = "tickle"]
        /\ held' = [held EXCEPT ![c] = t]
    BY <1>1, <1>2
  <2>3. \A d \in Clients : client'[d] = "free" <=> held'[d] = NoTimer
    BY <2>1, <2>2 DEF TypeOK
  <2>4. QED
    BY <1>1, <1>2, <2>2, <2>3 DEF TypeOK
<1>3. CASE ~at_front
  BY <1>1, <1>3 DEF TypeOK
<1>4. QED
  BY <1>2, <1>3

\* Every step keeps the types.
LEMMA NextTypeOK == TypeOK /\ [Next]_vars => TypeOK'
<1> SUFFICES ASSUME TypeOK, [Next]_vars  PROVE TypeOK'
  OBVIOUS
<1> USE DEF clientVars, threadVars
<1>1. CASE UNCHANGED vars
  BY <1>1 DEF TypeOK, vars
<1>2. CASE Tick
  BY <1>2, ClockAssumption DEF TypeOK, Tick
<1>3. ASSUME NEW c \in Clients, NewTimer(c)  PROVE TypeOK'
  <2>1. PICK t \in Timers \ known, ms \in Delays :
          /\ timer' = [timer EXCEPT ![t] = [next |-> Expiry(ms), ms |-> ms, cb |-> TRUE]]
          /\ held' = [held EXCEPT ![c] = t]
    BY <1>3 DEF NewTimer
  <2>2. [next |-> Expiry(ms), ms |-> ms, cb |-> TRUE]
          \in [next: 0..(Word - 1), ms: Delays \cup {0}, cb: BOOLEAN]
    BY ExpiryType
  <2>3. timer' \in [Timers -> [next: 0..(Word - 1), ms: Delays \cup {0}, cb: BOOLEAN]]
    BY <2>1, <2>2 DEF TypeOK
  <2>4. QED
    BY <1>3, <2>1, <2>3, TimerAssumption DEF TypeOK, NewTimer
<1>4. ASSUME NEW c \in Clients, Insert(c)  PROVE TypeOK'
  <2>1. held[c] \in Timers /\ m_timers \in SUBSET Timers
    BY <1>4 DEF TypeOK, Insert
  <2>2. AddTimer(c, held[c], timer, m_timers)
    BY <1>4 DEF Insert
  <2>3. QED
    BY <1>4, <2>1, <2>2, AddTimerTypeOK DEF TypeOK, Insert
<1>5. ASSUME NEW c \in Clients, TickleFront(c)  PROVE TypeOK'
  BY <1>5 DEF TypeOK, TickleFront, tickle
<1>6. ASSUME NEW c \in Clients, NEW t \in Timers, Cancel(c, t)  PROVE TypeOK'
  BY <1>6 DEF TypeOK, Cancel
<1>7. ASSUME NEW c \in Clients, NEW t \in Timers, Refresh(c, t)  PROVE TypeOK'
  BY <1>7, ExpiryType DEF TypeOK, Refresh
<1>8. ASSUME NEW c \in Clients, NEW t \in Timers, NEW ms \in Delays,
             NEW from_now \in BOOLEAN, Reset(c, t, ms, from_now)
      PROVE  TypeOK'
  <2> DEFINE start == IF from_now THEN now ELSE timer[t].next - timer[t].ms
             tm    == [timer EXCEPT ![t].ms = ms, ![t].next = (start + ms) % Word]
  <2>1. start + ms \in Int
    <3>1. now \in Int /\ ms \in Int /\ timer[t].next \in Int /\ timer[t].ms \in Int
      BY ClockAssumption, DelayType, WidthAssumption DEF TypeOK
    <3>2. QED
      BY <3>1
  <2>2. (start + ms) % Word \in 0..(Word - 1)
    BY <2>1, ModRange
  <2>3. timer' = tm /\ AddTimer(c, t, tm, m_timers \ {t})
    BY <1>8 DEF Reset
  <2>4. tm \in [Timers -> [next: 0..(Word - 1), ms: Delays \cup {0}, cb: BOOLEAN]]
    <3>1. timer \in [Timers -> [next: 0..(Word - 1), ms: Delays \cup {0}, cb: BOOLEAN]]
      BY DEF TypeOK
    <3> DEFINE tm1 == [timer EXCEPT ![t].ms = ms]
    <3>2. tm1 \in [Timers -> [next: 0..(Word - 1), ms: Delays \cup {0}, cb: BOOLEAN]]
      BY <3>1
    <3>3. tm = [tm1 EXCEPT ![t].next = (start + ms) % Word]
      OBVIOUS
    <3> HIDE DEF tm1, tm
    <3>4. QED
      BY <2>2, <3>2, <3>3
  <2>5. m_timers \ {t} \in SUBSET Timers
    BY DEF TypeOK
  <2> HIDE DEF tm
  <2>6. QED
    BY <1>8, <2>3, <2>4, <2>5, AddTimerTypeOK DEF TypeOK, Reset
<1>9. ASSUME NEW th \in Threads, RunCallback(th)  PROVE TypeOK'
  BY <1>9 DEF TypeOK, RunCallback, Ran
<1>10. ASSUME NEW th \in Threads, EnterIdle(th)  PROVE TypeOK'
  BY <1>10 DEF TypeOK, EnterIdle
<1>11. ASSUME NEW th \in Threads, GetNextTimer(th)  PROVE TypeOK'
  <2>1. \E ms \in Int : WaitFor(th, ms)
    <3>1. MaxWait \in Int
      BY DelayAssumption
    <3>2. \A t \in Timers : nextTimeout(t) \in Int
      BY ClockAssumption, WidthAssumption DEF TypeOK, nextTimeout
    <3>3. QED
      BY <1>11, <3>1, <3>2, ToIntType DEF GetNextTimer
  <2>2. deadline' \in [Threads -> Nat \cup {Never}]
    BY <2>1, WaitForType
  <2>3. QED
    BY <1>11, <2>2 DEF TypeOK, GetNextTimer
<1>12. ASSUME NEW th \in Threads, NEW b \in BOOLEAN, Wake(th, b), edge' \in BOOLEAN
       PROVE  TypeOK'
  BY <1>12, ClockAssumption DEF TypeOK, Wake
<1>13. ASSUME NEW th \in Threads,
              WakeTimeout(th) \/ WakeTickle(th) \/ WakeOther(th)
       PROVE  TypeOK'
  BY <1>12, <1>13 DEF TypeOK, WakeTimeout, WakeTickle, WakeOther
<1>14. ASSUME NEW th \in Threads, ReadClock(th)  PROVE TypeOK'
  BY <1>14, ClockAssumption DEF TypeOK, ReadClock
<1>15. ASSUME NEW th \in Threads, CheckEmpty(th)  PROVE TypeOK'
  BY <1>15 DEF TypeOK, CheckEmpty
<1>16. ASSUME NEW th \in Threads, Collect(th)  PROVE TypeOK'
  <2>1. Expired(th) \subseteq m_timers
    BY DEF Expired
  <2>2. timer' \in [Timers -> TimerRecord]
    <3>1. ASSUME NEW t \in Timers
          PROVE  /\ timer[t] \in TimerRecord
                 /\ [timer[t] EXCEPT !.next = (now_ms[th] + timer[t].ms) % Word] \in TimerRecord
                 /\ [timer[t] EXCEPT !.cb = FALSE] \in TimerRecord
      <4>1. timer[t] \in TimerRecord /\ now_ms[th] \in Nat
        BY DEF TypeOK, TimerRecord
      <4>2. timer[t].ms \in Int
        BY <4>1, DelayType DEF TimerRecord
      <4>3. (now_ms[th] + timer[t].ms) % Word \in 0..(Word - 1)
        BY <4>1, <4>2, ModRange
      <4>4. QED
        BY <4>1, <4>3, RecordUpdates
    <3>2. QED
      BY <1>16, <3>1 DEF Collect
  <2>3. QED
    BY <1>16, <2>1, <2>2 DEF TypeOK, Collect, TimerRecord
<1>17. ASSUME NEW th \in Threads, ScheduleCallback(th)  PROVE TypeOK'
  <2>1. edge' \in BOOLEAN
    BY <1>17 DEF TypeOK, ScheduleCallback, tickle
  <2>2. queued' \in [Timers -> Nat] /\ cbs' \in [Threads -> SUBSET Timers]
    BY <1>17 DEF TypeOK, ScheduleCallback
  <2>3. QED
    BY <1>17, <2>1, <2>2 DEF TypeOK, ScheduleCallback
<1>18. ASSUME NEW th \in Threads, LeaveIdle(th)  PROVE TypeOK'
  BY <1>18, ClockAssumption DEF TypeOK, LeaveIdle
<1>19. QED
  BY <1>1, <1>2, <1>3, <1>4, <1>5, <1>6, <1>7, <1>8, <1>9, <1>10, <1>11, <1>13,
     <1>14, <1>15, <1>16, <1>17, <1>18 DEF Next, Client, Serve

\* Every reachable state is well typed.
THEOREM TypeCorrect == Spec => []TypeOK
  BY InitTypeOK, NextTypeOK, PTL DEF Spec

-----------------------------------------------------------------------------
(* The expiry of a timer.                                                  *)

\* Initially no time has passed and every expiry is zero.
LEMMA InitStarted == Init => StartedInPast
<1> SUFFICES ASSUME Init  PROVE StartedInPast
  OBVIOUS
<1>1. (0 + 0) % Word = 0
  BY WidthAssumption
<1>2. now \in Nat /\ 0 \in 0..now
  BY ClockAssumption DEF Init
<1>3. \A t \in Timers : timer[t].next = (0 + timer[t].ms) % Word
  BY <1>1 DEF Init
<1>4. \A th \in Threads : now_ms[th] <= now
  BY ClockAssumption DEF Init
<1>5. QED
  BY <1>2, <1>3, <1>4 DEF StartedInPast

\* Nothing changes when neither the clocks nor the timers do.
LEMMA StartedKept ==
    ASSUME StartedInPast, UNCHANGED <<now, timer, now_ms>>
    PROVE  StartedInPast'
  BY DEF StartedInPast

\* One timer may be given an expiry that starts at any moment up to now.
LEMMA StartedUpdate ==
    ASSUME TypeOK, StartedInPast, UNCHANGED <<now, now_ms>>,
           NEW t \in Timers, NEW start \in 0..now,
           timer'[t].next = (start + timer'[t].ms) % Word,
           \A u \in Timers \ {t} : timer'[u] = timer[u]
    PROVE  StartedInPast'
<1>1. \A u \in Timers : \E s \in 0..now : timer'[u].next = (s + timer'[u].ms) % Word
  <2>1. TAKE u \in Timers
  <2>2. CASE u = t
    BY <2>2
  <2>3. CASE u # t
    BY <2>3 DEF StartedInPast
  <2>4. QED
    BY <2>2, <2>3
<1>2. QED
  BY <1>1 DEF StartedInPast

\* Every step starts timers in the past.
LEMMA NextStarted == TypeOK /\ StartedInPast /\ [Next]_vars => StartedInPast'
<1> SUFFICES ASSUME TypeOK, StartedInPast, [Next]_vars  PROVE StartedInPast'
  OBVIOUS
<1> USE DEF clientVars, threadVars
<1>0. now \in Nat /\ StartTime <= now /\ now \in 0..now
  BY ClockAssumption DEF TypeOK
<1>1. CASE UNCHANGED vars
  BY <1>1, StartedKept DEF vars
<1>2. CASE Tick
  <2>1. /\ now' = now + 1
        /\ timer' = timer
        /\ now_ms' = now_ms
    BY <1>2 DEF Tick
  <2>2. \A th \in Threads : now_ms[th] \in Nat
    BY DEF TypeOK
  <2>3. 0..now \subseteq 0..now'
    BY <1>0, <2>1
  <2>4. QED
    BY <1>0, <2>1, <2>2, <2>3 DEF StartedInPast
<1>3. ASSUME NEW c \in Clients, NewTimer(c)  PROVE StartedInPast'
  <2>1. PICK t \in Timers \ known, ms \in Delays :
          timer' = [timer EXCEPT ![t] = [next |-> Expiry(ms), ms |-> ms, cb |-> TRUE]]
    BY <1>3 DEF NewTimer
  <2>2. /\ timer'[t].next = (now + timer'[t].ms) % Word
        /\ \A u \in Timers \ {t} : timer'[u] = timer[u]
    BY <2>1 DEF TypeOK, Expiry
  <2>3. QED
    BY <1>0, <1>3, <2>2, StartedUpdate DEF NewTimer
<1>4. ASSUME NEW c \in Clients, NEW t \in Timers, Cancel(c, t)  PROVE StartedInPast'
  <2>1. timer' = [timer EXCEPT ![t].cb = FALSE]
    BY <1>4 DEF Cancel
  <2>2. timer \in [Timers -> TimerRecord]
    BY DEF TypeOK, TimerRecord
  <2>3. \A u \in Timers : timer'[u].next = timer[u].next /\ timer'[u].ms = timer[u].ms
    BY <2>1, <2>2 DEF TimerRecord
  <2>4. QED
    BY <1>4, <2>3 DEF Cancel, StartedInPast
<1>5. ASSUME NEW c \in Clients, NEW t \in Timers, Refresh(c, t)  PROVE StartedInPast'
  <2>1. timer' = [timer EXCEPT ![t].next = Expiry(timer[t].ms)]
    BY <1>5 DEF Refresh
  <2>2. timer \in [Timers -> TimerRecord]
    BY DEF TypeOK, TimerRecord
  <2>3. /\ timer'[t].next = (now + timer'[t].ms) % Word
        /\ \A u \in Timers \ {t} : timer'[u] = timer[u]
    BY <2>1, <2>2 DEF TimerRecord, Expiry
  <2>4. QED
    BY <1>0, <1>5, <2>3, StartedUpdate DEF Refresh
<1>6. ASSUME NEW c \in Clients, NEW t \in Timers, NEW ms \in Delays,
             NEW from_now \in BOOLEAN, Reset(c, t, ms, from_now)
      PROVE  StartedInPast'
  <2> DEFINE start == IF from_now THEN now ELSE timer[t].next - timer[t].ms
  <2>1. timer \in [Timers -> TimerRecord]
    BY DEF TypeOK, TimerRecord
  <2>2. timer' = [timer EXCEPT ![t].ms = ms, ![t].next = (start + ms) % Word]
    BY <1>6 DEF Reset
  <2>3. timer[t].ms \in Nat /\ ms \in Nat
    BY <2>1, DelayType DEF TimerRecord
  <2>4. \E s \in 0..now : (start + ms) % Word = (s + ms) % Word
    <3>1. CASE from_now
      BY <1>0, <3>1
    <3>2. CASE ~from_now
      <4>1. PICK s \in 0..now : timer[t].next = (s + timer[t].ms) % Word
        BY DEF StartedInPast
      <4>2. s + timer[t].ms \in Int /\ ms - timer[t].ms \in Int /\ s \in Int
        BY <1>0, <2>3
      <4>3. (timer[t].next + (ms - timer[t].ms)) % Word
              = ((s + timer[t].ms) + (ms - timer[t].ms)) % Word
        BY <4>1, <4>2, ModShift
      <4>4. timer[t].next \in Int
        BY <2>1, WidthAssumption DEF TimerRecord
      <4>5. start + ms = timer[t].next + (ms - timer[t].ms)
        BY <2>3, <3>2, <4>4
      <4>6. (s + timer[t].ms) + (ms - timer[t].ms) = s + ms
        BY <2>3, <4>2
      <4>7. QED
        BY <4>3, <4>5, <4>6
    <3>3. QED
      BY <3>1, <3>2
  <2> HIDE DEF start
  <2>5. /\ timer'[t].next = (start + ms) % Word
        /\ timer'[t].ms = ms
        /\ \A u \in Timers \ {t} : timer'[u] = timer[u]
    BY <2>1, <2>2 DEF TimerRecord
  <2>6. QED
    BY <1>6, <2>4, <2>5, StartedUpdate DEF Reset
<1>7. ASSUME NEW th \in Threads, ReadClock(th)  PROVE StartedInPast'
  BY <1>0, <1>7 DEF TypeOK, ReadClock, StartedInPast
<1>8. ASSUME NEW th \in Threads, LeaveIdle(th)  PROVE StartedInPast'
  BY <1>0, <1>8 DEF TypeOK, LeaveIdle, StartedInPast
<1>9. ASSUME NEW th \in Threads, Collect(th)  PROVE StartedInPast'
  <2>1. now_ms[th] \in 0..now
    BY <1>0 DEF TypeOK, StartedInPast
  <2>2. ASSUME NEW t \in Timers
        PROVE  \E s \in 0..now : timer'[t].next = (s + timer'[t].ms) % Word
    <3>1. timer[t] \in TimerRecord
      BY DEF TypeOK, TimerRecord
    <3>2. CASE t \in Expired(th) \cap Recurring
      <4>1. timer'[t] = [timer[t] EXCEPT !.next = (now_ms[th] + timer[t].ms) % Word]
        BY <1>9, <3>2 DEF Collect
      <4>2. timer'[t].next = (now_ms[th] + timer'[t].ms) % Word
        BY <3>1, <4>1 DEF TimerRecord
      <4>3. QED
        BY <2>1, <4>2
    <3>3. CASE t \notin Expired(th) \cap Recurring
      <4>1. timer'[t] = timer[t] \/ timer'[t] = [timer[t] EXCEPT !.cb = FALSE]
        BY <1>9, <3>3 DEF Collect
      <4>2. timer'[t].next = timer[t].next /\ timer'[t].ms = timer[t].ms
        BY <3>1, <4>1 DEF TimerRecord
      <4>3. QED
        BY <4>2 DEF StartedInPast
    <3>4. QED
      BY <3>2, <3>3
  <2>3. QED
    BY <1>9, <2>2 DEF Collect, StartedInPast
<1>10. ASSUME NEW c \in Clients, Insert(c) \/ TickleFront(c)  PROVE StartedInPast'
  BY <1>10, StartedKept DEF Insert, TickleFront
<1>11. ASSUME NEW th \in Threads,
              \/ RunCallback(th) \/ EnterIdle(th) \/ GetNextTimer(th)
              \/ WakeTimeout(th) \/ WakeTickle(th) \/ WakeOther(th)
              \/ CheckEmpty(th) \/ ScheduleCallback(th)
       PROVE  StartedInPast'
  BY <1>11, StartedKept DEF RunCallback, EnterIdle, GetNextTimer, WakeTimeout,
     WakeTickle, WakeOther, Wake, CheckEmpty, ScheduleCallback
<1>12. QED
  BY <1>1, <1>2, <1>3, <1>4, <1>5, <1>6, <1>7, <1>8, <1>9, <1>10, <1>11
     DEF Next, Client, Serve

\* No timer is ever further away than its own delay, whatever the width of the
\* clock: a timer that refresh() postpones without a tickle delays nobody else.
THEOREM WithinDelay == Spec => []NextWithinDelay
<1>1. TypeOK /\ StartedInPast => NextWithinDelay
  <2> SUFFICES ASSUME TypeOK, StartedInPast, NEW t \in m_timers
               PROVE  timer[t].next <= now + timer[t].ms
    BY DEF NextWithinDelay
  <2>1. t \in Timers /\ now \in Nat
    BY ClockAssumption DEF TypeOK
  <2>2. PICK start \in 0..now : timer[t].next = (start + timer[t].ms) % Word
    BY <2>1 DEF StartedInPast
  <2>3. timer[t].ms \in Nat
    BY <2>1, DelayType DEF TypeOK
  <2>4. start + timer[t].ms >= 0 /\ start + timer[t].ms \in Int
    BY <2>1, <2>3
  <2>5. timer[t].next <= start + timer[t].ms /\ timer[t].next \in Int
    BY <2>2, <2>4, ModRange, WidthAssumption
  <2>6. QED
    BY <2>1, <2>3, <2>5
<1>2. Spec => []StartedInPast
  BY InitStarted, NextStarted, TypeCorrect, PTL DEF Spec
<1>3. QED
  BY <1>1, <1>2, TypeCorrect, PTL

-----------------------------------------------------------------------------
(* Where a timer and its callback are.                                     *)

Placed == HeldTimers /\ CallbackIffListed

\* Initially there are no timers.
LEMMA InitPlaced == Init => Placed
  BY DEF Init, Placed, HeldTimers, CallbackIffListed

\* Nothing changes while a step leaves the timers and the clients alone.
LEMMA PlacedKept ==
    ASSUME Placed, UNCHANGED <<m_timers, known, client, held>>,
           \A t \in Timers : timer'[t].cb = timer[t].cb,
           TypeOK
    PROVE  Placed'
<1>1. \A c \in Clients : client[c] = "insert" => held[c] \in Timers
  BY DEF TypeOK
<1>2. HeldTimers'
  BY <1>1 DEF Placed, HeldTimers
<1>3. CallbackIffListed'
  BY DEF Placed, CallbackIffListed
<1>4. QED
  BY <1>2, <1>3 DEF Placed

\* Inserting a timer that the caller holds, or one that is in the set already,
\* keeps every timer in its place.
LEMMA PlacedAdd ==
    ASSUME TypeOK, Placed, NEW c \in Clients, NEW t \in Timers, NEW tm,
           NEW others, others \cup {t} = m_timers \cup {t},
           AddTimer(c, t, tm, others),
           \A u \in Timers : timer'[u].cb = timer[u].cb,
           timer[t].cb,
           \/ client[c] = "insert" /\ held[c] = t
           \/ client[c] = "free" /\ t \in known /\ t \in m_timers
    PROVE  Placed'
<1>1. /\ m_timers' = m_timers \cup {t}
      /\ \/ /\ client' = [client EXCEPT ![c] = "tickle"]
            /\ held' = [held EXCEPT ![c] = t]
            /\ known' = known
         \/ /\ client' = [client EXCEPT ![c] = "free"]
            /\ held' = [held EXCEPT ![c] = NoTimer]
            /\ known' = known \cup {t}
  BY DEF AddTimer
<1>2. \A d \in Clients : client'[d] = "insert" =>
         d # c /\ client[d] = "insert" /\ held'[d] = held[d] /\ held[d] # t
  BY <1>1 DEF TypeOK, Placed, HeldTimers
<1>3. \A d \in Clients : held'[d] \in {t, NoTimer, held[d]}
  BY <1>1 DEF TypeOK
<1>4. NoTimer \notin Timers
  BY TimerAssumption
<1>5. ASSUME NEW d \in Clients, client'[d] = "insert"
      PROVE  /\ held'[d] \in Timers \ (known' \cup m_timers')
             /\ timer'[held'[d]].cb
             /\ \A e \in Clients : held'[e] = held'[d] => e = d
  BY <1>1, <1>2, <1>3, <1>4, <1>5 DEF Placed, HeldTimers
<1>6. \A u \in m_timers' : u \in known' \/ \E d \in Clients : held'[d] = u
  <2>1. TAKE u \in m_timers'
  <2>2. CASE u = t
    BY <1>1, <2>2 DEF TypeOK
  <2>3. CASE u # t
    <3>1. u \in m_timers /\ u \in Timers
      BY <1>1, <2>3 DEF TypeOK
    <3>2. CASE u \in known
      BY <1>1, <3>2
    <3>3. CASE u \notin known
      <4>1. PICK d \in Clients : held[d] = u
        BY <3>1, <3>3 DEF Placed, HeldTimers
      <4>2. d # c
        BY <1>4, <2>3, <3>1, <4>1 DEF TypeOK
      <4>3. held'[d] = u
        BY <1>1, <4>1, <4>2 DEF TypeOK
      <4>4. QED
        BY <4>3
    <3>4. QED
      BY <3>2, <3>3
  <2>4. QED
    BY <2>2, <2>3
<1>7. CallbackIffListed'
  <2> SUFFICES ASSUME NEW u \in Timers,
                      \A d \in Clients : ~(client'[d] = "insert" /\ held'[d] = u)
               PROVE  timer'[u].cb <=> u \in m_timers'
    BY DEF CallbackIffListed
  <2>1. CASE u = t
    BY <1>1, <2>1
  <2>2. CASE u # t
    <3>1. \A d \in Clients : ~(client[d] = "insert" /\ held[d] = u)
      BY <1>1, <2>2 DEF TypeOK
    <3>2. QED
      BY <1>1, <2>2, <3>1 DEF Placed, CallbackIffListed
  <2>3. QED
    BY <2>1, <2>2
<1>8. QED
  BY <1>5, <1>6, <1>7 DEF Placed, HeldTimers

\* Every step keeps every timer in its place.
LEMMA NextPlaced == TypeOK /\ Placed /\ [Next]_vars => Placed'
<1> SUFFICES ASSUME TypeOK, Placed, [Next]_vars  PROVE Placed'
  OBVIOUS
<1> USE DEF clientVars, threadVars
<1>0. timer \in [Timers -> TimerRecord]
  BY DEF TypeOK, TimerRecord
<1>1. CASE UNCHANGED vars
  BY <1>1, PlacedKept DEF vars
<1>2. CASE Tick
  BY <1>2, PlacedKept DEF Tick
<1>3. ASSUME NEW c \in Clients, NewTimer(c)  PROVE Placed'
  <2>1. PICK t \in Timers \ known, ms \in Delays :
          /\ \A d \in Clients : held[d] # t
          /\ timer' = [timer EXCEPT ![t] = [next |-> Expiry(ms), ms |-> ms, cb |-> TRUE]]
          /\ held' = [held EXCEPT ![c] = t]
    BY <1>3 DEF NewTimer
  <2>2. /\ client[c] = "free"
        /\ client' = [client EXCEPT ![c] = "insert"]
        /\ UNCHANGED <<m_timers, known>>
    BY <1>3 DEF NewTimer
  <2>3. t \notin m_timers
    BY <2>1 DEF Placed, HeldTimers
  <2>4. timer'[t].cb /\ \A u \in Timers \ {t} : timer'[u] = timer[u]
    BY <1>0, <2>1
  <2>5. held[c] = NoTimer
    BY <2>2 DEF TypeOK
  <2>6. /\ held'[c] = t
        /\ client'[c] = "insert"
        /\ \A d \in Clients \ {c} : held'[d] = held[d] /\ client'[d] = client[d]
    BY <2>1, <2>2 DEF TypeOK
  <2>7. ASSUME NEW d \in Clients, client'[d] = "insert"
        PROVE  /\ held'[d] \in Timers \ (known' \cup m_timers')
               /\ timer'[held'[d]].cb
               /\ \A e \in Clients : held'[e] = held'[d] => e = d
    <3>1. CASE d = c
      BY <2>1, <2>2, <2>3, <2>4, <2>6, <3>1
    <3>2. CASE d # c
      <4>1. client[d] = "insert" /\ held'[d] = held[d] /\ held[d] # t
        BY <2>1, <2>6, <2>7, <3>2
      <4>2. QED
        BY <2>1, <2>2, <2>4, <2>6, <4>1 DEF Placed, HeldTimers
    <3>3. QED
      BY <3>1, <3>2
  <2>8. \A u \in m_timers' : u \in known' \/ \E d \in Clients : held'[d] = u
    BY <2>2, <2>5, <2>6, TimerAssumption DEF Placed, HeldTimers, TypeOK
  <2>9. CallbackIffListed'
    BY <2>2, <2>4, <2>6 DEF Placed, CallbackIffListed
  <2>10. QED
    BY <2>7, <2>8, <2>9 DEF Placed, HeldTimers
<1>4. ASSUME NEW c \in Clients, Insert(c)  PROVE Placed'
  <2>1. /\ client[c] = "insert"
        /\ AddTimer(c, held[c], timer, m_timers)
        /\ timer' = timer
    BY <1>4 DEF Insert
  <2>2. held[c] \in Timers /\ timer[held[c]].cb
    BY <2>1 DEF Placed, HeldTimers
  <2>3. QED
    BY <2>1, <2>2, PlacedAdd
<1>5. ASSUME NEW c \in Clients, TickleFront(c)  PROVE Placed'
  <2>1. /\ client[c] = "tickle"
        /\ client' = [client EXCEPT ![c] = "free"]
        /\ held' = [held EXCEPT ![c] = NoTimer]
        /\ known' = known \cup {held[c]}
        /\ UNCHANGED <<timer, m_timers>>
    BY <1>5 DEF TickleFront
  <2>2. \A d \in Clients \ {c} : held'[d] = held[d] /\ client'[d] = client[d]
    BY <2>1 DEF TypeOK
  <2>3. client'[c] = "free" /\ held'[c] = NoTimer
    BY <2>1 DEF TypeOK
  <2>4. ASSUME NEW d \in Clients, client'[d] = "insert"
        PROVE  /\ held'[d] \in Timers \ (known' \cup m_timers')
               /\ timer'[held'[d]].cb
               /\ \A e \in Clients : held'[e] = held'[d] => e = d
    <3>1. d # c /\ client[d] = "insert" /\ held'[d] = held[d]
      BY <2>2, <2>3, <2>4
    <3>2. held[c] # held[d] /\ held[d] \in Timers
      BY <3>1 DEF Placed, HeldTimers
    <3>3. QED
      BY <2>1, <2>2, <2>3, <3>1, <3>2, TimerAssumption DEF Placed, HeldTimers
  <2>5. \A u \in m_timers' : u \in known' \/ \E d \in Clients : held'[d] = u
    BY <2>1, <2>2 DEF Placed, HeldTimers
  <2>6. CallbackIffListed'
    BY <2>1, <2>2 DEF Placed, CallbackIffListed
  <2>7. QED
    BY <2>4, <2>5, <2>6 DEF Placed, HeldTimers
<1>6. ASSUME NEW c \in Clients, NEW t \in Timers, Cancel(c, t)  PROVE Placed'
  <2>1. /\ t \in known
        /\ timer' = [timer EXCEPT ![t].cb = FALSE]
        /\ m_timers' = m_timers \ {t}
        /\ UNCHANGED <<known, client, held>>
    BY <1>6 DEF Cancel
  <2>2. ~timer'[t].cb /\ \A u \in Timers \ {t} : timer'[u] = timer[u]
    BY <1>0, <2>1 DEF TimerRecord
  <2>3. HeldTimers'
    BY <2>1, <2>2 DEF Placed, HeldTimers
  <2>4. CallbackIffListed'
    BY <2>1, <2>2 DEF Placed, CallbackIffListed
  <2>5. QED
    BY <2>3, <2>4 DEF Placed
<1>7. ASSUME NEW c \in Clients, NEW t \in Timers, Refresh(c, t)  PROVE Placed'
  <2>1. timer' = [timer EXCEPT ![t].next = Expiry(timer[t].ms)]
    BY <1>7 DEF Refresh
  <2>2. \A u \in Timers : timer'[u].cb = timer[u].cb
    BY <1>0, <2>1 DEF TimerRecord
  <2>3. QED
    BY <1>7, <2>2, PlacedKept DEF Refresh
<1>8. ASSUME NEW c \in Clients, NEW t \in Timers, NEW ms \in Delays,
             NEW from_now \in BOOLEAN, Reset(c, t, ms, from_now)
      PROVE  Placed'
  <2> DEFINE start == IF from_now THEN now ELSE timer[t].next - timer[t].ms
             tm    == [timer EXCEPT ![t].ms = ms, ![t].next = (start + ms) % Word]
  <2>1. /\ client[c] = "free" /\ t \in known /\ timer[t].cb /\ t \in m_timers
        /\ timer' = tm
        /\ AddTimer(c, t, tm, m_timers \ {t})
    BY <1>8 DEF Reset
  <2> HIDE DEF start
  <2>2. \A u \in Timers : tm[u].cb = timer[u].cb
    BY <1>0 DEF TimerRecord
  <2> HIDE DEF tm
  <2>3. (m_timers \ {t}) \cup {t} = m_timers \cup {t}
    OBVIOUS
  <2>4. QED
    BY <2>1, <2>2, <2>3, PlacedAdd
<1>9. ASSUME NEW th \in Threads, Collect(th)  PROVE Placed'
  <2>1. Expired(th) \subseteq m_timers
    BY DEF Expired
  <2>2. /\ m_timers' = {t \in m_timers : t \in Expired(th) => t \in Recurring}
        /\ UNCHANGED <<known, client, held>>
    BY <1>9 DEF Collect
  <2>3. \A t \in Timers : timer'[t].cb =
           IF t \in Expired(th) \ Recurring THEN FALSE ELSE timer[t].cb
    <3>1. TAKE t \in Timers
    <3>2. timer[t] \in TimerRecord
      BY <1>0
    <3>3. CASE t \in Expired(th) \ Recurring
      <4>1. timer'[t] = [timer[t] EXCEPT !.cb = FALSE]
        BY <1>9, <3>3 DEF Collect
      <4>2. QED
        BY <3>2, <3>3, <4>1 DEF TimerRecord
    <3>4. CASE t \notin Expired(th) \ Recurring
      <4>1. \/ timer'[t] = timer[t]
            \/ timer'[t] = [timer[t] EXCEPT !.next = (now_ms[th] + timer[t].ms) % Word]
        BY <1>9, <3>4 DEF Collect
      <4>2. QED
        BY <3>2, <3>4, <4>1 DEF TimerRecord
    <3>5. QED
      BY <3>3, <3>4
  <2>4. HeldTimers'
    BY <2>1, <2>2, <2>3 DEF Placed, HeldTimers
  <2>5. CallbackIffListed'
    <3> SUFFICES ASSUME NEW t \in Timers,
                        \A d \in Clients : ~(client[d] = "insert" /\ held[d] = t)
                 PROVE  timer'[t].cb <=> t \in m_timers'
      BY <2>2 DEF CallbackIffListed
    <3>1. timer[t].cb <=> t \in m_timers
      BY DEF Placed, CallbackIffListed
    <3>2. CASE t \in Expired(th) \ Recurring
      BY <2>2, <2>3, <3>2
    <3>3. CASE t \notin Expired(th) \ Recurring
      BY <2>2, <2>3, <3>1, <3>3
    <3>4. QED
      BY <3>2, <3>3
  <2>6. QED
    BY <2>4, <2>5 DEF Placed
<1>10. ASSUME NEW th \in Threads,
              \/ RunCallback(th) \/ EnterIdle(th) \/ GetNextTimer(th)
              \/ WakeTimeout(th) \/ WakeTickle(th) \/ WakeOther(th)
              \/ ReadClock(th) \/ CheckEmpty(th) \/ ScheduleCallback(th)
              \/ LeaveIdle(th)
       PROVE  Placed'
  BY <1>10, PlacedKept DEF RunCallback, EnterIdle, GetNextTimer, WakeTimeout,
     WakeTickle, WakeOther, Wake, ReadClock, CheckEmpty, ScheduleCallback, LeaveIdle
<1>11. QED
  BY <1>1, <1>2, <1>3, <1>4, <1>5, <1>6, <1>7, <1>8, <1>9, <1>10
     DEF Next, Client, Serve

LEMMA AlwaysPlaced == Spec => []Placed
  BY InitPlaced, NextPlaced, TypeCorrect, PTL DEF Spec

\* cancel() never erases end(): a timer outside its constructor has its callback
\* exactly while it is in the set.
THEOREM CallbackListed == Spec => []CallbackIffListed
<1>1. Placed => CallbackIffListed
  BY DEF Placed
<1>2. QED
  BY <1>1, AlwaysPlaced, PTL

-----------------------------------------------------------------------------
(* Expiry against cancellation.                                            *)

\* A timer that its client does not have yet.
Unborn(t) == t \notin known /\ \A c \in Clients : held[c] # t

\* Initially no callback has been handed out.
LEMMA InitSomewhere == Init => CallbackSomewhere
<1> SUFFICES ASSUME Init  PROVE CallbackSomewhere
  OBVIOUS
<1>1. /\ \A t \in Timers : queued[t] = 0 /\ fate[t] = "pending"
      /\ \A th \in Threads : cbs[th] = {}
  BY DEF Init
<1>2. QED
  BY <1>1 DEF CallbackSomewhere

\* A callback stays where it is in a step that hands out none and gives none to
\* a timer its client had already.
LEMMA SomewhereKept ==
    ASSUME TypeOK, CallbackSomewhere, UNCHANGED <<queued, cbs, fate>>,
           \A t \in Timers : Unborn(t)' => Unborn(t),
           \A t \in Timers : timer'[t].cb => timer[t].cb \/ Unborn(t)
    PROVE  CallbackSomewhere'
  BY DEF CallbackSomewhere, Unborn

\* addTimer() makes no timer unborn again.
LEMMA UnbornAdd ==
    ASSUME TypeOK, NEW c \in Clients, NEW t \in Timers, NEW tm, NEW others,
           AddTimer(c, t, tm, others),
           held[c] = t \/ held[c] = NoTimer,
           NEW u \in Timers, Unborn(u)'
    PROVE  Unborn(u)
<1>1. \/ held' = [held EXCEPT ![c] = t] /\ known' = known
      \/ held' = [held EXCEPT ![c] = NoTimer] /\ known' = known \cup {t}
  BY DEF AddTimer
<1>2. u # t
  BY <1>1 DEF TypeOK, Unborn
<1>3. u \notin known /\ \A d \in Clients \ {c} : held[d] # u
  BY <1>1 DEF TypeOK, Unborn
<1>4. held[c] # u
  BY <1>2, TimerAssumption
<1>5. QED
  BY <1>3, <1>4 DEF Unborn

\* Every step keeps a callback in one place.
LEMMA NextSomewhere ==
    TypeOK /\ Placed /\ CallbackSomewhere /\ [Next]_vars => CallbackSomewhere'
<1> SUFFICES ASSUME TypeOK, Placed, CallbackSomewhere, [Next]_vars
             PROVE  CallbackSomewhere'
  OBVIOUS
<1> USE DEF clientVars, threadVars
<1>0. timer \in [Timers -> TimerRecord]
  BY DEF TypeOK, TimerRecord
<1>1. CASE UNCHANGED vars
  BY <1>1, SomewhereKept DEF vars, Unborn
<1>2. CASE Tick
  BY <1>2, SomewhereKept DEF Tick, Unborn
<1>3. ASSUME NEW c \in Clients, NewTimer(c)  PROVE CallbackSomewhere'
  <2>1. PICK t \in Timers \ known, ms \in Delays :
          /\ \A d \in Clients : held[d] # t
          /\ timer' = [timer EXCEPT ![t] = [next |-> Expiry(ms), ms |-> ms, cb |-> TRUE]]
          /\ held' = [held EXCEPT ![c] = t]
    BY <1>3 DEF NewTimer
  <2>2. Unborn(t) /\ \A u \in Timers \ {t} : timer'[u] = timer[u]
    BY <2>1 DEF TypeOK, Unborn
  <2>3. held[c] = NoTimer /\ UNCHANGED <<known, queued, cbs, fate>>
    BY <1>3 DEF NewTimer, TypeOK
  <2>4. ASSUME NEW u \in Timers, Unborn(u)'  PROVE Unborn(u)
    <3>1. u \notin known /\ \A d \in Clients \ {c} : held[d] # u
      BY <2>1, <2>3, <2>4 DEF TypeOK, Unborn
    <3>2. QED
      BY <2>3, <3>1, TimerAssumption DEF Unborn
  <2>5. QED
    BY <2>2, <2>3, <2>4, SomewhereKept
<1>4. ASSUME NEW c \in Clients, Insert(c)  PROVE CallbackSomewhere'
  <2>1. /\ client[c] = "insert"
        /\ AddTimer(c, held[c], timer, m_timers)
        /\ UNCHANGED <<timer, queued, cbs, fate>>
    BY <1>4 DEF Insert
  <2>2. held[c] \in Timers
    BY <2>1 DEF Placed, HeldTimers
  <2>3. QED
    BY <2>1, <2>2, UnbornAdd, SomewhereKept
<1>5. ASSUME NEW c \in Clients, TickleFront(c)  PROVE CallbackSomewhere'
  <2>1. /\ held' = [held EXCEPT ![c] = NoTimer]
        /\ known' = known \cup {held[c]}
        /\ UNCHANGED <<timer, queued, cbs, fate>>
    BY <1>5 DEF TickleFront
  <2>2. ASSUME NEW u \in Timers, Unborn(u)'  PROVE Unborn(u)
    BY <2>1, <2>2 DEF TypeOK, Unborn
  <2>3. QED
    BY <2>1, <2>2, SomewhereKept
<1>6. ASSUME NEW c \in Clients, NEW t \in Timers, Cancel(c, t)
      PROVE  CallbackSomewhere'
  <2>1. /\ t \in known /\ timer[t].cb
        /\ timer' = [timer EXCEPT ![t].cb = FALSE]
        /\ fate' = [fate EXCEPT ![t] = "cancelled"]
        /\ UNCHANGED <<queued, cbs, known, held>>
    BY <1>6 DEF Cancel
  <2>2. \A u \in Timers : timer'[u].cb => timer[u].cb /\ u # t
    BY <1>0, <2>1 DEF TimerRecord
  <2>3. \A u \in Timers \ {t} : fate'[u] = fate[u]
    BY <2>1 DEF TypeOK
  <2>4. t \notin Recurring => queued[t] = 0 /\ \A th \in Threads : t \notin cbs[th]
    BY <2>1 DEF CallbackSomewhere
  <2>5. QED
    BY <2>1, <2>2, <2>3, <2>4 DEF CallbackSomewhere
<1>7. ASSUME NEW c \in Clients, NEW t \in Timers, Refresh(c, t)
      PROVE  CallbackSomewhere'
  <2>1. timer' = [timer EXCEPT ![t].next = Expiry(timer[t].ms)]
    BY <1>7 DEF Refresh
  <2>2. \A u \in Timers : timer'[u].cb => timer[u].cb
    BY <1>0, <2>1 DEF TimerRecord
  <2>3. QED
    BY <1>7, <2>2, SomewhereKept DEF Refresh, Unborn
<1>8. ASSUME NEW c \in Clients, NEW t \in Timers, NEW ms \in Delays,
             NEW from_now \in BOOLEAN, Reset(c, t, ms, from_now)
      PROVE  CallbackSomewhere'
  <2> DEFINE start == IF from_now THEN now ELSE timer[t].next - timer[t].ms
             tm    == [timer EXCEPT ![t].ms = ms, ![t].next = (start + ms) % Word]
  <2>1. /\ client[c] = "free"
        /\ timer' = tm
        /\ AddTimer(c, t, tm, m_timers \ {t})
        /\ UNCHANGED <<queued, cbs, fate>>
    BY <1>8 DEF Reset
  <2>2. held[c] = NoTimer
    BY <2>1 DEF TypeOK
  <2> HIDE DEF start
  <2>3. \A u \in Timers : tm[u].cb = timer[u].cb
    BY <1>0 DEF TimerRecord
  <2> HIDE DEF tm
  <2>4. QED
    BY <2>1, <2>2, <2>3, UnbornAdd, SomewhereKept
<1>9. ASSUME NEW th \in Threads, Collect(th)  PROVE CallbackSomewhere'
  <2>1. Expired(th) \subseteq m_timers
    BY DEF Expired
  <2>2. /\ cbs' = [cbs EXCEPT ![th] = Expired(th)]
        /\ \A t \in Timers :
              fate'[t] = IF t \in Expired(th) \ Recurring THEN "handed" ELSE fate[t]
        /\ UNCHANGED <<queued, known, held>>
    BY <1>9 DEF Collect
  <2>3. cbs'[th] = Expired(th) /\ \A x \in Threads \ {th} : cbs'[x] = cbs[x]
    BY <2>2 DEF TypeOK
  <2>4. ASSUME NEW t \in Expired(th)
        PROVE  t \in Timers /\ timer[t].cb /\ ~Unborn(t)
    <3>1. t \in m_timers /\ t \in Timers
      BY <2>1 DEF TypeOK
    <3>2. \A c \in Clients : ~(client[c] = "insert" /\ held[c] = t)
      BY <3>1 DEF Placed, HeldTimers
    <3>3. QED
      BY <3>1, <3>2 DEF Placed, HeldTimers, CallbackIffListed, Unborn
  <2>5. ASSUME NEW t \in Timers
        PROVE  /\ timer'[t].cb => timer[t].cb
               /\ t \in Expired(th) \ Recurring => ~timer'[t].cb
    <3>1. timer[t] \in TimerRecord
      BY <1>0
    <3>2. timer'[t] = IF t \notin Expired(th) THEN timer[t]
                      ELSE IF t \in Recurring
                        THEN [timer[t] EXCEPT !.next = (now_ms[th] + timer[t].ms) % Word]
                        ELSE [timer[t] EXCEPT !.cb = FALSE]
      BY <1>9 DEF Collect
    <3>3. QED
      BY <3>1, <3>2 DEF TimerRecord
  <2>6. ASSUME NEW t \in Timers
        PROVE  /\ Unborn(t)' => /\ fate'[t] = "pending"
                                /\ queued'[t] = 0 /\ \A x \in Threads : t \notin cbs'[x]
               /\ timer'[t].cb => fate'[t] = "pending"
    <3>1. Unborn(t)' => Unborn(t) /\ t \notin Expired(th)
      BY <2>2, <2>4 DEF Unborn
    <3>2. Unborn(t)' => /\ fate'[t] = "pending"
                        /\ queued'[t] = 0 /\ \A x \in Threads : t \notin cbs'[x]
      BY <2>2, <2>3, <3>1 DEF CallbackSomewhere, Unborn
    <3>3. timer'[t].cb => fate'[t] = "pending"
      BY <2>2, <2>5 DEF CallbackSomewhere
    <3>4. QED
      BY <3>2, <3>3
  <2>7. ASSUME NEW t \in Timers \ Recurring
        PROVE  /\ queued'[t] # 0 => fate'[t] = "handed"
               /\ \A x \in Threads : t \in cbs'[x] => fate'[t] = "handed"
               /\ queued'[t] <= 1
               /\ queued'[t] = 1 => \A x \in Threads : t \notin cbs'[x]
               /\ \A x, y \in Threads : t \in cbs'[x] /\ t \in cbs'[y] => x = y
    <3>1. CASE t \in Expired(th)
      <4>1. queued[t] = 0 /\ \A x \in Threads : t \notin cbs[x]
        BY <2>4, <3>1 DEF CallbackSomewhere
      <4>2. fate'[t] = "handed" /\ queued'[t] = 0
        BY <2>2, <3>1, <4>1
      <4>3. QED
        BY <2>3, <4>1, <4>2
    <3>2. CASE t \notin Expired(th)
      <4>1. \A x \in Threads : t \in cbs'[x] => t \in cbs[x]
        BY <2>3, <3>2
      <4>2. fate'[t] = fate[t]
        BY <2>2, <3>2
      <4>3. QED
        BY <2>2, <4>1, <4>2 DEF CallbackSomewhere
    <3>3. QED
      BY <3>1, <3>2
  <2>8. QED
    BY <2>6, <2>7 DEF CallbackSomewhere, Unborn
<1>10. ASSUME NEW th \in Threads, ScheduleCallback(th)  PROVE CallbackSomewhere'
  <2>1. PICK t \in cbs[th] :
          /\ cbs' = [cbs EXCEPT ![th] = @ \ {t}]
          /\ queued' = [queued EXCEPT ![t] = @ + 1]
    BY <1>10 DEF ScheduleCallback
  <2>2. t \in Timers
    BY DEF TypeOK
  <2>3. /\ queued'[t] = queued[t] + 1
        /\ \A u \in Timers \ {t} : queued'[u] = queued[u]
        /\ cbs'[th] = cbs[th] \ {t}
        /\ \A x \in Threads \ {th} : cbs'[x] = cbs[x]
        /\ UNCHANGED <<timer, known, held, fate>>
    BY <1>10, <2>1, <2>2 DEF TypeOK, ScheduleCallback
  <2>4. \A u \in Timers, x \in Threads : u \in cbs'[x] => u \in cbs[x]
    BY <2>3
  <2>5. ~Unborn(t)
    BY <2>2 DEF CallbackSomewhere, Unborn
  <2>6. ASSUME NEW u \in Timers
        PROVE  /\ Unborn(u)' => /\ fate'[u] = "pending"
                                /\ queued'[u] = 0 /\ \A x \in Threads : u \notin cbs'[x]
               /\ timer'[u].cb => fate'[u] = "pending"
    <3>1. Unborn(u)' => Unborn(u) /\ u # t
      BY <2>3, <2>5 DEF Unborn
    <3>2. QED
      BY <2>3, <2>4, <3>1 DEF CallbackSomewhere, Unborn
  <2>7. ASSUME NEW u \in Timers \ Recurring
        PROVE  /\ queued'[u] # 0 => fate'[u] = "handed"
               /\ \A x \in Threads : u \in cbs'[x] => fate'[u] = "handed"
               /\ queued'[u] <= 1
               /\ queued'[u] = 1 => \A x \in Threads : u \notin cbs'[x]
               /\ \A x, y \in Threads : u \in cbs'[x] /\ u \in cbs'[y] => x = y
    <3>1. CASE u = t
      <4>1. fate[t] = "handed" /\ queued[t] \in Nat /\ queued[t] <= 1 /\ queued[t] # 1
        BY <2>2, <2>7, <3>1 DEF CallbackSomewhere, TypeOK
      <4>2. queued'[t] = 1
        BY <2>3, <4>1
      <4>3. \A x \in Threads : t \notin cbs'[x]
        BY <2>2, <2>3, <2>7, <3>1 DEF CallbackSomewhere
      <4>4. QED
        BY <2>3, <3>1, <4>1, <4>2, <4>3
    <3>2. CASE u # t
      BY <2>3, <2>4, <3>2 DEF CallbackSomewhere
    <3>3. QED
      BY <3>1, <3>2
  <2>8. QED
    BY <2>6, <2>7 DEF CallbackSomewhere, Unborn
<1>11. ASSUME NEW th \in Threads, RunCallback(th)  PROVE CallbackSomewhere'
  <2>1. PICK t \in Timers :
          /\ queued[t] > 0
          /\ queued' = [queued EXCEPT ![t] = @ - 1]
          /\ fate' = [fate EXCEPT ![t] = IF t \in Recurring THEN @ ELSE "ran"]
    BY <1>11 DEF RunCallback, Ran
  <2>2. UNCHANGED <<timer, cbs, known, held>>
    BY <1>11 DEF RunCallback
  <2>3. /\ queued'[t] = queued[t] - 1
        /\ \A u \in Timers \ {t} : queued'[u] = queued[u] /\ fate'[u] = fate[u]
        /\ t \in Recurring => fate'[t] = fate[t]
        /\ queued[t] \in Nat
    BY <2>1 DEF TypeOK
  <2>4. /\ ~Unborn(t)
        /\ t \notin Recurring => /\ queued'[t] = 0
                                 /\ fate[t] = "handed"
                                 /\ \A th2 \in Threads : t \notin cbs[th2]
    <3>1. t \notin Recurring => queued[t] = 1
      BY <2>1, <2>3 DEF CallbackSomewhere
    <3>2. QED
      BY <2>1, <2>3, <3>1 DEF CallbackSomewhere, Unborn
  <2>5. \A u \in Timers :
           /\ Unborn(u)' => /\ fate'[u] = "pending"
                            /\ queued'[u] = 0 /\ \A x \in Threads : u \notin cbs'[x]
           /\ timer'[u].cb => fate'[u] = "pending"
    BY <2>2, <2>3, <2>4 DEF CallbackSomewhere, Unborn
  <2>6. \A u \in Timers \ Recurring :
           /\ queued'[u] # 0 => fate'[u] = "handed"
           /\ \A x \in Threads : u \in cbs'[x] => fate'[u] = "handed"
           /\ queued'[u] <= 1
           /\ queued'[u] = 1 => \A x \in Threads : u \notin cbs'[x]
           /\ \A x, y \in Threads : u \in cbs'[x] /\ u \in cbs'[y] => x = y
    BY <2>2, <2>3, <2>4 DEF CallbackSomewhere
  <2>7. QED
    BY <2>5, <2>6 DEF CallbackSomewhere, Unborn
<1>12. ASSUME NEW th \in Threads,
              \/ EnterIdle(th) \/ GetNextTimer(th) \/ WakeTimeout(th)
              \/ WakeTickle(th) \/ WakeOther(th) \/ ReadClock(th)
              \/ CheckEmpty(th) \/ LeaveIdle(th)
       PROVE  CallbackSomewhere'
  BY <1>12, SomewhereKept DEF EnterIdle, GetNextTimer, WakeTimeout, WakeTickle,
     WakeOther, Wake, ReadClock, CheckEmpty, LeaveIdle, Unborn
<1>13. QED
  BY <1>1, <1>2, <1>3, <1>4, <1>5, <1>6, <1>7, <1>8, <1>9, <1>10, <1>11, <1>12
     DEF Next, Client, Serve

\* A callback is handed out only while its timer is pending, so never after a
\* cancel() that returned true and, when the timer does not recur, never twice;
\* it runs only what was handed out and has not run: however many threads
\* expire and cancel a timer, one wins.
THEOREM ExpiryExcludesCancel == Spec => FireOrCancel
<1> DEFINE Step ==
      \A t \in Timers :
        /\ (\E th \in Threads : t \in cbs'[th] \ cbs[th]) => fate[t] = "pending"
        /\ timer[t].cb /\ ~timer'[t].cb => fate[t] = "pending"
        /\ queued'[t] < queued[t] /\ t \notin Recurring => fate[t] = "handed"
<1>1. TypeOK /\ Placed /\ CallbackSomewhere /\ [Next]_vars => [Step]_vars
  <2> SUFFICES ASSUME TypeOK, Placed, CallbackSomewhere, Next, NEW t \in Timers
               PROVE  /\ (\E th \in Threads : t \in cbs'[th] \ cbs[th]) => fate[t] = "pending"
                      /\ timer[t].cb /\ ~timer'[t].cb => fate[t] = "pending"
                      /\ queued'[t] < queued[t] /\ t \notin Recurring => fate[t] = "handed"
    OBVIOUS
  <2> USE DEF clientVars, threadVars
  <2>1. timer[t].cb /\ ~timer'[t].cb => fate[t] = "pending"
    BY DEF CallbackSomewhere
  <2>2. queued[t] \in Nat /\ (queued[t] # 0 /\ t \notin Recurring => fate[t] = "handed")
    BY DEF CallbackSomewhere, TypeOK
  <2>3. ASSUME NEW th \in Threads, Collect(th)
        PROVE  /\ (\E x \in Threads : t \in cbs'[x] \ cbs[x]) => fate[t] = "pending"
               /\ queued' = queued
    <3>1. /\ cbs' = [cbs EXCEPT ![th] = Expired(th)] /\ queued' = queued
          /\ Expired(th) \subseteq m_timers
      BY <2>3 DEF Collect, Expired
    <3>2. ASSUME NEW x \in Threads, t \in cbs'[x] \ cbs[x]  PROVE t \in m_timers
      BY <3>1, <3>2 DEF TypeOK
    <3>3. t \in m_timers => timer[t].cb
      BY DEF Placed, HeldTimers, CallbackIffListed
    <3>4. QED
      BY <3>1, <3>2, <3>3 DEF CallbackSomewhere
  <2>4. ASSUME NEW th \in Threads, ScheduleCallback(th)
        PROVE  /\ \A x \in Threads : cbs'[x] \subseteq cbs[x]
               /\ ~(queued'[t] < queued[t])
    <3>1. PICK u \in cbs[th] : /\ cbs' = [cbs EXCEPT ![th] = @ \ {u}]
                               /\ queued' = [queued EXCEPT ![u] = @ + 1]
      BY <2>4 DEF ScheduleCallback
    <3>2. queued'[t] \in {queued[t], queued[t] + 1}
      BY <3>1 DEF TypeOK
    <3>3. QED
      BY <2>2, <3>1, <3>2 DEF TypeOK
  <2>5. ASSUME NEW th \in Threads, RunCallback(th)
        PROVE  /\ cbs' = cbs
               /\ queued'[t] < queued[t] => queued[t] # 0
    <3>1. PICK u \in Timers : queued[u] > 0 /\ queued' = [queued EXCEPT ![u] = @ - 1]
      BY <2>5 DEF RunCallback
    <3>2. queued'[t] = queued[t] \/ queued[t] # 0
      BY <3>1 DEF TypeOK
    <3>3. QED
      BY <2>2, <2>5, <3>2 DEF RunCallback
  <2>6. CASE UNCHANGED <<cbs, queued>>
    BY <2>1, <2>2, <2>6
  <2>7. \/ UNCHANGED <<cbs, queued>>
        \/ \E th \in Threads : Collect(th) \/ ScheduleCallback(th) \/ RunCallback(th)
    <3>1. ASSUME NEW c \in Clients, Client(c)  PROVE UNCHANGED <<cbs, queued>>
      <4>1. NewTimer(c) \/ Insert(c) \/ TickleFront(c) => UNCHANGED <<cbs, queued>>
        BY DEF NewTimer, Insert, TickleFront
      <4>2. ASSUME NEW u \in Timers
            PROVE  /\ Cancel(c, u) \/ Refresh(c, u) => UNCHANGED <<cbs, queued>>
                   /\ \A ms \in Delays, from_now \in BOOLEAN :
                         Reset(c, u, ms, from_now) => UNCHANGED <<cbs, queued>>
        BY DEF Cancel, Refresh, Reset
      <4>3. QED
        BY <3>1, <4>1, <4>2 DEF Client
    <3>2. ASSUME NEW th \in Threads, Serve(th) \/ WakeOther(th)
          PROVE  \/ UNCHANGED <<cbs, queued>>
                 \/ Collect(th) \/ ScheduleCallback(th) \/ RunCallback(th)
      BY <3>2 DEF Serve, EnterIdle, GetNextTimer, WakeTimeout, WakeTickle, WakeOther,
                  Wake, ReadClock, CheckEmpty, LeaveIdle
    <3>3. Tick => UNCHANGED <<cbs, queued>>
      BY DEF Tick
    <3>4. QED
      BY <3>1, <3>2, <3>3 DEF Next
  <2>8. QED
    BY <2>1, <2>2, <2>3, <2>4, <2>5, <2>6, <2>7
<1>2. Spec => []CallbackSomewhere
  BY InitSomewhere, NextSomewhere, TypeCorrect, AlwaysPlaced, PTL DEF Spec
<1>3. [][Step]_vars => FireOrCancel
  BY DEF FireOrCancel
<1>4. QED
  BY <1>1, <1>2, <1>3, TypeCorrect, AlwaysPlaced, PTL DEF Spec

-----------------------------------------------------------------------------
(* Sleeping threads.                                                       *)

\* A scheduler has a thread (scheduler.cc:24); a delay fits the int that
\* becomes the timeout of epoll_wait() (iomanager.cc:473), and the clock does
\* not reach the end of the word while a timer waits.
SleepAssumption ==
    /\ Threads # {}
    /\ \A ms \in Delays \cup {0} : ms < IntRange \div 2 /\ MaxTime + ms < Word

AllWait == \A th \in Threads : pc[th] = "wait"

\* Somebody will wake one of the threads.
Announced == edge \/ \E c \in Clients : client[c] = "tickle"

\* Thread th wakes up by itself before the first of the timers is late.
InTime(th) ==
    /\ deadline[th] # Never
    /\ \A t \in m_timers : deadline[th] <= now \/ deadline[th] <= timer[t].next

\* NobodyOversleeps is not inductive: an insertion at the front is silent while
\* m_tickled is set.  When all threads sleep the flag is set only if a tickle
\* is still to come.
Watched ==
    AllWait =>
        /\ m_tickled => Announced
        /\ m_timers # {} => Announced \/ \E th \in Threads : InTime(th)

\* Clients do nothing to the scheduler's threads.
LEMMA ClientLeaves ==
    ASSUME NEW c \in Clients, Client(c)
    PROVE  UNCHANGED <<now, m_previouseTime, pc, now_ms, cbs, deadline, drains>>
<1>1. ASSUME NEW t \in Timers, NEW ms \in Delays, NEW from_now \in BOOLEAN,
             Reset(c, t, ms, from_now)
      PROVE  UNCHANGED <<now, m_previouseTime, pc, now_ms, cbs, deadline, drains>>
  BY <1>1 DEF Reset, threadVars
<1>2. ASSUME NEW t \in Timers, Cancel(c, t) \/ Refresh(c, t)
      PROVE  UNCHANGED <<now, m_previouseTime, pc, now_ms, cbs, deadline, drains>>
  BY <1>2 DEF Cancel, Refresh, threadVars
<1>3. ASSUME NewTimer(c) \/ Insert(c) \/ TickleFront(c)
      PROVE  UNCHANGED <<now, m_previouseTime, pc, now_ms, cbs, deadline, drains>>
  BY <1>3 DEF NewTimer, Insert, TickleFront, threadVars
<1>4. QED
  BY <1>1, <1>2, <1>3 DEF Client

\* Below half of its range the conversion to int changes nothing.
LEMMA ToIntSmall ==
    ASSUME NEW n \in Nat, n < IntRange \div 2
    PROVE  ToInt(n) = n
<1>1. IntRange \in Nat /\ IntRange > 0
  BY WidthAssumption
<1>2. n < IntRange
  BY <1>1
<1>3. n % IntRange = n
  BY <1>1, <1>2
<1>4. QED
  BY <1>3 DEF ToInt

\* A thread that has asked for the next timeout sleeps no longer than that, and
\* not for ever.
LEMMA GetsInTime ==
    ASSUME TypeOK, NextWithinDelay, SleepAssumption, NEW th \in Threads, GetNextTimer(th)
    PROVE  /\ InTime(th)'
           /\ \A x \in Threads \ {th} : deadline'[x] = deadline[x]
<1>1. /\ now \in Nat /\ MaxWait \in Nat /\ Never \notin Int
      /\ timer \in [Timers -> TimerRecord] /\ m_timers \subseteq Timers
      /\ deadline \in [Threads -> Nat \cup {Never}]
  BY ClockAssumption, DelayAssumption, NeverAssumption DEF TypeOK, TimerRecord
<1>2. \A t \in Timers : timer[t].next \in Int /\ timer[t].ms \in Delays \cup {0}
  BY <1>1, WidthAssumption DEF TimerRecord
<1>3. UNCHANGED <<now, timer, m_timers>>
  BY DEF GetNextTimer
<1>4. CASE m_timers = {} /\ WaitFor(th, MaxWait)
  <2>1. (IF MaxWait < 0 THEN Never ELSE now + (IF MaxWait < MaxWait THEN MaxWait ELSE MaxWait))
           = now + MaxWait
    BY <1>1
  <2>2. deadline' = [deadline EXCEPT ![th] = now + MaxWait]
    BY <1>4, <2>1 DEF WaitFor
  <2>3. QED
    BY <1>1, <1>3, <1>4, <2>2 DEF InTime
<1>5. ASSUME NEW t \in Timers, Earliest(t), WaitFor(th, ToInt(nextTimeout(t)))
      PROVE  InTime(th)' /\ \A x \in Threads \ {th} : deadline'[x] = deadline[x]
  <2> DEFINE n == nextTimeout(t)
             d == now + (IF MaxWait < n THEN MaxWait ELSE n)
  <2>1. t \in m_timers /\ \A u \in m_timers : timer[t].next <= timer[u].next
    BY <1>1, <1>2, <1>5 DEF Earliest, Before
  <2>2. timer[t].next <= now + timer[t].ms
    BY <2>1 DEF NextWithinDelay
  <2>3. timer[t].ms \in Nat /\ timer[t].ms < IntRange \div 2 /\ IntRange \div 2 \in Int
    BY <1>2, DelayType, WidthAssumption DEF SleepAssumption
  <2>4. n \in Nat /\ n < IntRange \div 2
    BY <1>1, <1>2, <2>2, <2>3 DEF nextTimeout
  <2>5. ToInt(n) = n
    BY <2>4, ToIntSmall
  <2>6. d \in Nat /\ (d <= now \/ d <= timer[t].next)
    BY <1>1, <1>2 DEF nextTimeout
  <2> HIDE DEF n
  <2>7. deadline' = [deadline EXCEPT ![th] = d]
    <3>1. WaitFor(th, n)
      BY <1>5, <2>5 DEF n
    <3>2. ~(n < 0)
      BY <2>4
    <3>3. QED
      BY <3>1, <3>2 DEF WaitFor
  <2> HIDE DEF d
  <2>8. deadline'[th] = d /\ d # Never
    BY <1>1, <2>6, <2>7
  <2>9. \A u \in m_timers : d <= now \/ d <= timer[u].next
    BY <1>1, <1>2, <2>1, <2>6
  <2>10. QED
    BY <1>1, <1>3, <2>7, <2>8, <2>9 DEF InTime
<1>6. QED
  BY <1>4, <1>5 DEF GetNextTimer

\* Nobody need be woken when timers are only removed or postponed.
LEMMA WatchedKept ==
    ASSUME TypeOK, Watched, AllWait' => AllWait, Announced => Announced',
           m_tickled' => m_tickled, m_timers' \subseteq m_timers, deadline' = deadline,
           now' \in Int, now <= now',
           \A t \in m_timers' : timer'[t].next \in Int /\ timer[t].next <= timer'[t].next
    PROVE  Watched'
<1> SUFFICES ASSUME AllWait'
             PROVE  /\ m_tickled' => Announced'
                    /\ m_timers' # {} => Announced' \/ \E th \in Threads : InTime(th)'
  BY DEF Watched
<1>1. now \in Int /\ \A t \in m_timers : timer[t].next \in Int
  BY ClockAssumption, WidthAssumption DEF TypeOK
<1>2. ASSUME NEW th \in Threads, InTime(th)
      PROVE  InTime(th)'
  <2>1. deadline[th] \in Nat
    BY <1>2 DEF TypeOK, InTime
  <2>2. QED
    BY <1>1, <1>2, <2>1 DEF InTime
<1>3. QED
  BY <1>2 DEF Watched

\* addTimer() inserts a timer in front with an announcement, or behind another
\* one, or while an announcement is under way.
LEMMA WatchedAdd ==
    ASSUME TypeOK, Watched, NEW c \in Clients, NEW t \in Timers, client[c] # "tickle",
           NEW others, others \subseteq m_timers, AddTimer(c, t, timer', others),
           timer' \in [Timers -> TimerRecord],
           \A u \in Timers \ {t} : timer'[u] = timer[u],
           UNCHANGED <<now, pc, deadline, edge>>
    PROVE  Watched'
<1> DEFINE at_front == ~m_tickled /\ \A u \in others \ {t} : Before(timer', t, u)
<1>1. /\ m_timers' = others \cup {t}
      /\ m_tickled' = (m_tickled \/ at_front)
      /\ \A d \in Clients \ {c} : client'[d] = client[d]
      /\ at_front => client'[c] = "tickle"
  BY DEF AddTimer, TypeOK
<1>2. Announced => Announced'
  BY <1>1 DEF Announced
<1>3. at_front => Announced'
  BY <1>1 DEF Announced
<1>4. SUFFICES ASSUME AllWait, ~at_front, ~Announced'
               PROVE  ~m_tickled' /\ \E th \in Threads : InTime(th)'
  BY <1>3 DEF Watched, AllWait
<1>5. ~m_tickled
  BY <1>2, <1>4 DEF Watched
<1>6. PICK u \in others \ {t} : ~Before(timer', t, u)
  BY <1>4, <1>5
<1> HIDE DEF at_front
<1>7. u \in m_timers /\ u \in Timers
  BY <1>6 DEF TypeOK
<1>8. PICK th \in Threads : InTime(th)
  BY <1>2, <1>4, <1>7 DEF Watched
<1>9. \A x \in Timers : timer'[x].next \in Int
  BY WidthAssumption DEF TimerRecord
<1>10. timer'[u].next <= timer'[t].next /\ timer'[u].next = timer[u].next
  BY <1>6, <1>7, <1>9 DEF Before
<1>11. deadline[th] \in Nat /\ now \in Int
  BY <1>8, ClockAssumption DEF TypeOK, InTime
<1>12. deadline[th] <= now \/ deadline[th] <= timer'[u].next
  BY <1>7, <1>8, <1>10 DEF InTime
<1>13. \A x \in m_timers' : deadline[th] <= now \/ deadline[th] <= timer'[x].next
  <2>1. TAKE x \in m_timers'
  <2>2. CASE x = t
    BY <1>7, <1>9, <1>10, <1>11, <1>12, <2>2
  <2>3. CASE x # t
    BY <1>1, <1>8, <2>3 DEF InTime, TypeOK
  <2>4. QED
    BY <2>2, <2>3
<1>14. InTime(th)'
  BY <1>8, <1>13 DEF InTime
<1>15. QED
  BY <1>1, <1>4, <1>5, <1>14

\* Every step leaves the sleeping threads watched.
LEMMA NextWatched ==
    ASSUME SleepAssumption, TypeOK, NextWithinDelay, HeldTimers, Watched, [Next]_vars
    PROVE  Watched'
<1> USE DEF clientVars, threadVars
<1>0. /\ now \in Nat /\ now <= MaxTime /\ MaxTime \in Nat
      /\ timer \in [Timers -> TimerRecord] /\ m_timers \subseteq Timers
  BY ClockAssumption DEF TypeOK, TimerRecord
<1>01. \A t \in m_timers : timer[t].next \in Int
  BY <1>0, WidthAssumption DEF TimerRecord
<1>1. CASE UNCHANGED vars \/ Tick
  BY <1>0, <1>01, <1>1, WatchedKept DEF Tick, vars, AllWait, Announced
<1>2. ASSUME NEW c \in Clients, NewTimer(c)  PROVE Watched'
  <2>1. PICK t \in Timers \ known, ms \in Delays :
          /\ \A d \in Clients : held[d] # t
          /\ timer' = [timer EXCEPT ![t] = [next |-> Expiry(ms), ms |-> ms, cb |-> TRUE]]
    BY <1>2 DEF NewTimer
  <2>2. t \notin m_timers
    BY <2>1 DEF HeldTimers
  <2>3. \A u \in m_timers : timer'[u] = timer[u]
    BY <1>0, <2>1, <2>2
  <2>4. client[c] = "free" /\ client' = [client EXCEPT ![c] = "insert"]
    BY <1>2 DEF NewTimer
  <2>5. Announced => Announced'
    BY <1>2, <2>4 DEF NewTimer, Announced, TypeOK
  <2>6. QED
    BY <1>0, <1>01, <1>2, <2>3, <2>5, WatchedKept DEF NewTimer, AllWait
<1>3. ASSUME NEW c \in Clients, Insert(c)  PROVE Watched'
  <2>1. held[c] \in Timers
    BY <1>3 DEF Insert, TypeOK
  <2>2. QED
    BY <1>0, <1>3, <2>1, WatchedAdd DEF Insert
<1>4. ASSUME NEW c \in Clients, TickleFront(c)  PROVE Watched'
  <2>1. AllWait => IdleThreads # {}
    BY DEF AllWait, IdleThreads, SleepAssumption
  <2>2. AllWait' => edge'
    BY <1>4, <2>1 DEF TickleFront, tickle, AllWait
  <2>3. QED
    BY <2>2 DEF Watched, Announced
<1>5. ASSUME NEW c \in Clients, NEW t \in Timers, Cancel(c, t)  PROVE Watched'
  <2>1. /\ timer' = [timer EXCEPT ![t].cb = FALSE]
        /\ m_timers' \subseteq m_timers
        /\ UNCHANGED <<now, pc, deadline, m_tickled, client, edge>>
    BY <1>5 DEF Cancel
  <2>2. \A u \in Timers : timer'[u].next = timer[u].next
    BY <1>0, <2>1 DEF TimerRecord
  <2>3. QED
    BY <1>0, <1>01, <2>1, <2>2, WatchedKept DEF AllWait, Announced
<1>6. ASSUME NEW c \in Clients, NEW t \in Timers, Refresh(c, t)  PROVE Watched'
  <2>1. /\ timer' = [timer EXCEPT ![t].next = Expiry(timer[t].ms)]
        /\ t \in m_timers
        /\ UNCHANGED <<now, pc, deadline, m_tickled, m_timers, client, edge>>
    BY <1>6 DEF Refresh
  <2>2. timer[t].ms \in Nat /\ MaxTime + timer[t].ms < Word
    BY <1>0, DelayType DEF SleepAssumption, TimerRecord
  <2>3. (now + timer[t].ms) % Word = now + timer[t].ms
    BY <1>0, <2>2, WidthAssumption
  <2>4. /\ timer'[t].next = now + timer[t].ms
        /\ \A u \in Timers \ {t} : timer'[u] = timer[u]
    BY <1>0, <2>1, <2>3 DEF TimerRecord, Expiry
  <2>5. timer[t].next <= timer'[t].next /\ timer'[t].next \in Int
    BY <1>0, <2>1, <2>2, <2>4 DEF NextWithinDelay
  <2>6. \A u \in m_timers : timer'[u].next \in Int /\ timer[u].next <= timer'[u].next
    BY <1>0, <1>01, <2>4, <2>5
  <2>7. QED
    BY <1>0, <2>1, <2>6, WatchedKept DEF AllWait, Announced
<1>7. ASSUME NEW c \in Clients, NEW t \in Timers, NEW ms \in Delays,
             NEW from_now \in BOOLEAN, Reset(c, t, ms, from_now)
      PROVE  Watched'
  <2>1. timer' \in [Timers -> TimerRecord]
    BY <1>7, NextTypeOK DEF Next, Client, TypeOK, TimerRecord
  <2>2. /\ AddTimer(c, t, timer', m_timers \ {t})
        /\ client[c] # "tickle"
        /\ UNCHANGED <<now, pc, deadline, edge>>
    BY <1>7 DEF Reset
  <2>3. \A u \in Timers \ {t} : timer'[u] = timer[u]
    BY <1>0, <1>7 DEF Reset
  <2>4. QED
    BY <2>1, <2>2, <2>3, WatchedAdd
<1>8. ASSUME NEW th \in Threads, GetNextTimer(th)  PROVE Watched'
  <2>1. InTime(th)' /\ ~m_tickled'
    BY <1>8, GetsInTime DEF GetNextTimer
  <2>2. QED
    BY <2>1 DEF Watched
<1>9. ASSUME NEW th \in Threads,
             \/ RunCallback(th) \/ EnterIdle(th) \/ ReadClock(th) \/ CheckEmpty(th)
             \/ Collect(th) \/ ScheduleCallback(th) \/ LeaveIdle(th)
             \/ WakeTimeout(th) \/ WakeTickle(th) \/ WakeOther(th)
      PROVE  Watched'
  <2>1. pc'[th] # "wait"
    BY <1>9 DEF TypeOK, RunCallback, EnterIdle, ReadClock, CheckEmpty, Collect,
       ScheduleCallback, LeaveIdle, WakeTimeout, WakeTickle, WakeOther, Wake
  <2>2. QED
    BY <2>1 DEF Watched, AllWait
<1>10. QED
  BY <1>1, <1>2, <1>3, <1>4, <1>5, <1>6, <1>7, <1>8, <1>9 DEF Next, Client, Serve

\* While all threads sleep, one wakes up in time for the first timer: m_tickled
\* is reset by getNextTimer() under a read lock only (timer.cc:160), in a race
\* with addTimer(), and yet suppresses no tickle that is needed.
THEOREM SomebodyWakes ==
    ASSUME SleepAssumption
    PROVE  Spec => []NobodyOversleeps
<1>1. Init => Watched
  BY DEF Init, Watched, AllWait, SleepAssumption
<1>2. Watched => NobodyOversleeps
  BY DEF Watched, NobodyOversleeps, AllWait, Announced, InTime
<1>3. TypeOK /\ NextWithinDelay /\ Placed /\ Watched /\ [Next]_vars => Watched'
  BY NextWatched DEF Placed
<1>4. QED
  BY <1>1, <1>2, <1>3, TypeCorrect, WithinDelay, AlwaysPlaced, PTL DEF Spec

\* A thread never blocks without a limit (iomanager.cc:469): a delay of at least
\* half of int's range is the only way to make it do so.
THEOREM WaitsAreLimited ==
    ASSUME SleepAssumption
    PROVE  Spec => []WaitIsLimited
<1>1. Init => WaitIsLimited
  BY DEF Init, WaitIsLimited
<1>2. ASSUME TypeOK, NextWithinDelay, WaitIsLimited, [Next]_vars
      PROVE  WaitIsLimited'
  <2>1. ASSUME NEW th \in Threads, GetNextTimer(th)  PROVE WaitIsLimited'
    <3>1. InTime(th)' /\ \A x \in Threads \ {th} : deadline'[x] = deadline[x]
      BY <1>2, <2>1, GetsInTime
    <3>2. \A x \in Threads \ {th} : pc'[x] = pc[x]
      BY <1>2, <2>1 DEF GetNextTimer, TypeOK
    <3>3. QED
      BY <1>2, <3>1, <3>2 DEF InTime, WaitIsLimited
  <2>2. ASSUME NEW th \in Threads, NEW b, Wake(th, b)  PROVE WaitIsLimited'
    BY <1>2, <2>2 DEF Wake, WaitIsLimited, TypeOK
  <2>3. ASSUME UNCHANGED deadline, \A x \in Threads : pc'[x] = "wait" => pc[x] = "wait"
        PROVE  WaitIsLimited'
    BY <1>2, <2>3 DEF WaitIsLimited
  <2>4. ASSUME NEW th \in Threads,
               \/ RunCallback(th) \/ EnterIdle(th) \/ ReadClock(th) \/ CheckEmpty(th)
               \/ Collect(th) \/ ScheduleCallback(th) \/ LeaveIdle(th)
        PROVE  WaitIsLimited'
    <3>1. deadline' = deadline /\ \A x \in Threads : pc'[x] = "wait" => pc[x] = "wait"
      BY <1>2, <2>4 DEF TypeOK, RunCallback, EnterIdle, ReadClock, CheckEmpty, Collect,
         ScheduleCallback, LeaveIdle, threadVars
    <3>2. QED
      BY <2>3, <3>1
  <2>5. CASE UNCHANGED vars \/ Tick \/ \E c \in Clients : Client(c)
    <3>1. UNCHANGED <<pc, deadline>>
      BY <2>5, ClientLeaves DEF vars, Tick, threadVars
    <3>2. QED
      BY <2>3, <3>1
  <2>6. QED
    BY <1>2, <2>1, <2>2, <2>4, <2>5 DEF Next, Serve, WakeTimeout, WakeTickle, WakeOther
<1>3. QED
  BY <1>1, <1>2, TypeCorrect, WithinDelay, PTL DEF Spec

-----------------------------------------------------------------------------
(* The rollover test.                                                      *)

\* What a thread has read of the clock is not older than the manager, and
\* m_previouseTime is such a reading.
Read(n) == n \in StartTime..now

ClocksRead == Read(m_previouseTime) /\ \A th \in Threads : Read(now_ms[th])

\* Clock readings are readings for ever.
LEMMA NextRead ==
    ASSUME TypeOK, ClocksRead, [Next]_vars
    PROVE  ClocksRead'
<1> USE DEF clientVars, threadVars
<1>0. now \in Nat /\ StartTime \in Nat /\ StartTime <= now
  BY ClockAssumption DEF TypeOK
<1>1. CASE Tick
  <2>1. \A n : Read(n) => Read(n)'
    BY <1>0, <1>1 DEF Tick, Read
  <2>2. QED
    BY <1>1, <2>1 DEF Tick, ClocksRead, Read
<1>2. CASE UNCHANGED vars \/ \E c \in Clients : Client(c)
  <2>1. UNCHANGED <<now, now_ms, m_previouseTime>>
    BY <1>2, ClientLeaves DEF vars
  <2>2. QED
    BY <2>1 DEF ClocksRead, Read
<1>3. ASSUME NEW th \in Threads, ReadClock(th) \/ LeaveIdle(th) \/ Collect(th)
      PROVE  ClocksRead'
  BY <1>0, <1>3 DEF ReadClock, LeaveIdle, Collect, ClocksRead, Read, TypeOK
<1>4. ASSUME NEW th \in Threads,
             \/ RunCallback(th) \/ EnterIdle(th) \/ GetNextTimer(th) \/ CheckEmpty(th)
             \/ ScheduleCallback(th)
             \/ WakeTimeout(th) \/ WakeTickle(th) \/ WakeOther(th)
      PROVE  ClocksRead'
  <2>1. UNCHANGED <<now, now_ms, m_previouseTime>>
    BY <1>4 DEF RunCallback, EnterIdle, GetNextTimer, CheckEmpty, ScheduleCallback,
       WakeTimeout, WakeTickle, WakeOther, Wake
  <2>2. QED
    BY <2>1 DEF ClocksRead, Read
<1>5. QED
  BY <1>1, <1>2, <1>3, <1>4 DEF Next, Serve

\* No thread takes more than an hour from reading the clock in listExpiredCb()
\* to the lock.
Prompt == \A th \in Threads : pc[th] = "collect" => now - now_ms[th] <= Hour

\* listExpiredCb() collects a callback only when its time has come
\* (timer.cc:211), if the manager is made after the first hour of the clock and
\* threads are prompt: the test for a clock that went back never fires then,
\* in whatever order threads read the clock and take the lock.
THEOREM NothingIsEarly ==
    ASSUME StartTime >= Hour
    PROVE  Spec /\ []Prompt => NeverEarly
<1>1. ASSUME TypeOK, ClocksRead, Prompt, NEW th \in Threads, Collect(th)
      PROVE  \A t \in cbs'[th] : timer[t].next <= now
  <2>1. /\ now \in Nat /\ StartTime \in Nat /\ Hour \in Nat
        /\ m_previouseTime \in StartTime..now /\ now_ms[th] \in StartTime..now
        /\ now - now_ms[th] <= Hour
    BY <1>1, ClockAssumption, DelayAssumption DEF TypeOK, ClocksRead, Read, Prompt, Collect
  <2>2. (m_previouseTime - Hour) % Word <= m_previouseTime - Hour
    BY <2>1, ModRange
  <2>3. (m_previouseTime - Hour) % Word \in Int
    BY <2>1, WidthAssumption
  <2>4. ~rollover(th)
    BY <2>1, <2>2, <2>3 DEF rollover
  <2>5. cbs'[th] = {t \in m_timers : timer[t].next <= now_ms[th]}
    BY <1>1, <2>4 DEF Collect, Expired, TypeOK
  <2>6. \A t \in m_timers : timer[t].next \in Int
    BY <1>1, WidthAssumption DEF TypeOK
  <2>7. QED
    BY <2>1, <2>5, <2>6
<1>2. ASSUME TypeOK, ClocksRead, Prompt, [Next]_vars, NEW th \in Threads,
             NEW t \in cbs'[th] \ cbs[th]
      PROVE  timer[t].next <= now
  <2>1. CASE Collect(th)
    BY <1>1, <1>2, <2>1
  <2>2. CASE ~Collect(th)
    <3>1. ASSUME NEW x \in Threads, ScheduleCallback(x)  PROVE cbs'[th] \subseteq cbs[th]
      BY <1>2, <3>1 DEF ScheduleCallback, TypeOK
    <3>2. ASSUME NEW x \in Threads, Collect(x), x # th  PROVE cbs'[th] = cbs[th]
      BY <1>2, <3>2 DEF Collect, TypeOK
    <3>3. ASSUME NEW x \in Threads,
                 \/ RunCallback(x) \/ EnterIdle(x) \/ GetNextTimer(x) \/ ReadClock(x)
                 \/ CheckEmpty(x) \/ LeaveIdle(x)
                 \/ WakeTimeout(x) \/ WakeTickle(x) \/ WakeOther(x)
          PROVE  cbs' = cbs
      BY <3>3 DEF RunCallback, EnterIdle, GetNextTimer, ReadClock, CheckEmpty, LeaveIdle,
         WakeTimeout, WakeTickle, WakeOther, Wake, threadVars
    <3>4. ASSUME UNCHANGED vars \/ Tick \/ \E c \in Clients : Client(c)
          PROVE  cbs' = cbs
      BY <3>4, ClientLeaves DEF vars, Tick, threadVars
    <3>5. cbs'[th] \subseteq cbs[th]
      BY <1>2, <2>2, <3>1, <3>2, <3>3, <3>4 DEF Next, Serve
    <3>6. QED
      BY <1>2, <3>5
  <2>3. QED
    BY <2>1, <2>2
<1>3. Init => ClocksRead
  BY ClockAssumption DEF Init, ClocksRead, Read
<1>4. TypeOK /\ ClocksRead /\ Prompt /\ [Next]_vars
        => [\A th \in Threads : \A t \in cbs'[th] \ cbs[th] : timer[t].next <= now]_vars
  BY <1>2
<1>5. QED
  BY <1>3, <1>4, NextRead, TypeCorrect, PTL DEF Spec, NeverEarly
=============================================================================
