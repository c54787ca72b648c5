---------------------------- MODULE SupportProofs ----------------------------
(***************************************************************************)
(* Proofs about what all other parts use: Locks, for every number of       *)
(* threads, guards and strays; Log, for every number of threads, events    *)
(* and accidents to the file; Config, for every number of threads,         *)
(* contents of the file, and edits of it; and LogFormatter, for every      *)
(* pattern.                                                                *)
(***************************************************************************)
EXTENDS Locks, FiniteSetTheorems, SequenceTheorems, WellFoundedInduction, TLAPS

-----------------------------------------------------------------------------
(* The start of a thread.                                                  *)

\* Everything TypeOK says but for the read locks that are counted.
Types ==
    /\ object \in [Threads -> {"none", "waits", "ready", "joining", "gone"}]
    /\ thread \in [Threads -> {"none", "new", "named", "taken", "runs", "ended"}]
    /\ m_id \subseteq Threads /\ m_cb \subseteq Threads
    /\ m_semaphore \in [Threads -> 0..1]
    /\ kind \in {"Mutex", "RWMutex"}
    /\ writer \subseteq Threads
    /\ guard \in [Threads -> [at : {"none", "lock", "in", "open"},
                              mode : {"read", "write"}, m_locked : BOOLEAN]]
    /\ scopes \in [Threads -> 0..MaxScopes]
    /\ strays \in 0..MaxStrays
    /\ misuse \in BOOLEAN

\* The semaphore is posted once, when the id is stored and the callback taken,
\* and the constructor returns after that.
Handshake ==
    /\ ~misuse
    /\ \A t \in Threads :
         /\ object[t] = "none" => thread[t] = "none"
         /\ thread[t] \in {"named", "taken", "runs", "ended"} => t \in m_id
         /\ thread[t] \in {"taken", "runs", "ended"} => t \notin m_cb
         /\ m_semaphore[t] # 0 => object[t] = "waits" /\ thread[t] \in {"runs", "ended"}
         /\ object[t] \in {"ready", "joining", "gone"} => thread[t] \in {"runs", "ended"}

LEMMA InitStart ==
    ASSUME MaxScopes \in Nat, MaxStrays \in Nat, Init
    PROVE  Types /\ Handshake
<1>1. guard \in [Threads -> [at : {"none", "lock", "in", "open"},
                             mode : {"read", "write"}, m_locked : BOOLEAN]]
  BY DEF Init, NoGuard
<1>2. /\ scopes \in [Threads -> 0..MaxScopes]
      /\ strays \in 0..MaxStrays
      /\ m_semaphore \in [Threads -> 0..1]
  BY DEF Init
<1>3. /\ object \in [Threads -> {"none", "waits", "ready", "joining", "gone"}]
      /\ thread \in [Threads -> {"none", "new", "named", "taken", "runs", "ended"}]
      /\ m_id \subseteq Threads /\ m_cb \subseteq Threads
      /\ kind \in {"Mutex", "RWMutex"} /\ writer \subseteq Threads
      /\ misuse \in BOOLEAN
  BY DEF Init
<1>4. Types
  BY <1>1, <1>2, <1>3 DEF Types
<1>5. Handshake
  BY DEF Init, Handshake
<1>6. QED
  BY <1>4, <1>5

LEMMA StartKeeps ==
    ASSUME MaxScopes \in Nat, MaxStrays \in Nat, Types, Handshake, NEW t \in Threads, Start(t)
    PROVE  Types' /\ Handshake'
<1> USE DEF Types, Handshake, locking, Touch
<1>1. CASE Construct(t)
  BY <1>1 DEF Construct
<1>2. CASE StoreId(t)
  BY <1>2 DEF StoreId
<1>3. CASE TakeCallback(t)
  BY <1>3 DEF TakeCallback
<1>4. CASE Notify(t)
  BY <1>4 DEF Notify
<1>5. CASE Wait(t)
  <2>1. m_semaphore[t] = 1
    BY <1>5 DEF Wait
  <2>2. m_semaphore' = [m_semaphore EXCEPT ![t] = 0]
    BY <1>5, <2>1 DEF Wait
  <2>3. QED
    BY <1>5, <2>1, <2>2 DEF Wait
<1>6. CASE SetName(t)
  BY <1>6 DEF SetName
<1>7. CASE End(t)
  BY <1>7 DEF End
<1>8. CASE Join(t)
  BY <1>8 DEF Join
<1>9. CASE Destroy(t)
  BY <1>9 DEF Destroy
<1>10. QED
  BY <1>1, <1>2, <1>3, <1>4, <1>5, <1>6, <1>7, <1>8, <1>9 DEF Start

-----------------------------------------------------------------------------
(* The guards.                                                             *)

ReadersIn == {t \in Threads : guard[t].at = "in" /\ guard[t].mode = "read"}

WritersIn == {t \in Threads : guard[t].at = "in" /\ guard[t].mode = "write"}

\* What holds of the lock even when guards begin with a stray m_locked: only
\* threads inside hold it, and it counts no more readers than there are inside.
Counts ==
    /\ IsFiniteSet(ReadersIn)
    /\ readers \in 0..Cardinality(ReadersIn)
    /\ writer \subseteq WritersIn
    /\ kind = "Mutex" => ReadersIn = {}
    /\ \A t \in Threads : kind = "Mutex" /\ guard[t].at # "none" => guard[t].mode = "write"
    /\ \A t \in Threads : guard[t].at = "in" => guard[t].m_locked
    /\ \A t \in Threads : guard[t].at = "open" => ~guard[t].m_locked

\* Without a stray guard the lock is held by exactly those inside.
Exact ==
    /\ readers = Cardinality(ReadersIn)
    /\ writer = WritersIn
    /\ writer = {} \/ readers = 0
    /\ \A t, u \in writer : t = u
    /\ \A t \in Threads : guard[t].at = "lock" => ~guard[t].m_locked

\* One element more, one element less.
LEMMA AddOne ==
    ASSUME NEW S, IsFiniteSet(S), NEW x, x \notin S, NEW T, T = S \cup {x}
    PROVE  IsFiniteSet(T) /\ Cardinality(T) = Cardinality(S) + 1
<1>1. IsFiniteSet(S \cup {x}) /\ Cardinality(S \cup {x}) = Cardinality(S) + 1
  BY FS_AddElement
<1>2. QED
  BY <1>1

LEMMA RemoveOne ==
    ASSUME NEW S, IsFiniteSet(S), NEW x, x \in S, NEW T, T = S \ {x}
    PROVE  IsFiniteSet(T) /\ Cardinality(T) = Cardinality(S) - 1
<1>1. IsFiniteSet(S \ {x}) /\ Cardinality(S \ {x}) = Cardinality(S) - 1
  BY FS_RemoveElement
<1>2. QED
  BY <1>1

LEMMA InitGuards == Init => Counts /\ Exact
<1> SUFFICES ASSUME Init PROVE Counts /\ Exact
  OBVIOUS
<1>1. ReadersIn = {} /\ WritersIn = {}
  BY DEF Init, NoGuard, ReadersIn, WritersIn
<1>2. \A t \in Threads : guard[t].at = "none"
  BY DEF Init, NoGuard
<1>3. IsFiniteSet(ReadersIn) /\ Cardinality(ReadersIn) = 0
  BY <1>1, FS_EmptySet
<1>4. QED
  BY <1>1, <1>2, <1>3 DEF Init, Counts, Exact

\* Only the thread that moves enters or leaves.
LEMMA OneMoves ==
    ASSUME Types, NEW t \in Threads,
           \A u \in Threads : u # t => guard'[u] = guard[u]
    PROVE  /\ \A u \in Threads : u # t => (u \in ReadersIn' <=> u \in ReadersIn)
           /\ \A u \in Threads : u # t => (u \in WritersIn' <=> u \in WritersIn)
           /\ ReadersIn' = IF guard'[t].at = "in" /\ guard'[t].mode = "read"
                             THEN ReadersIn \cup {t} ELSE ReadersIn \ {t}
           /\ WritersIn' = IF guard'[t].at = "in" /\ guard'[t].mode = "write"
                             THEN WritersIn \cup {t} ELSE WritersIn \ {t}
BY DEF ReadersIn, WritersIn

LEMMA EnterKeeps ==
    ASSUME MaxScopes \in Nat, MaxStrays \in Nat, Types, Counts, strays = 0 => Exact,
           NEW t \in Threads, NEW mode \in {"read", "write"}, NEW stray \in BOOLEAN,
           Enter(t, mode, stray)
    PROVE  Types' /\ Counts' /\ (strays' = 0 => Exact')
<1>1. /\ guard' = [guard EXCEPT ![t] = [at |-> "lock", mode |-> mode, m_locked |-> stray]]
      /\ mode \in Modes /\ guard[t].at = "none"
      /\ UNCHANGED <<starting, kind, writer, readers>>
      /\ stray => strays < MaxStrays
      /\ strays' = IF stray THEN strays + 1 ELSE strays
      /\ scopes[t] < MaxScopes
      /\ scopes' = [scopes EXCEPT ![t] = scopes[t] + 1]
  BY DEF Enter
<1>2. /\ guard'[t] = [at |-> "lock", mode |-> mode, m_locked |-> stray]
      /\ \A u \in Threads : u # t => guard'[u] = guard[u]
  BY <1>1 DEF Types
<1>3. ReadersIn' = ReadersIn /\ WritersIn' = WritersIn
  BY <1>1, <1>2 DEF ReadersIn, WritersIn
<1>4. strays' \in 0..MaxStrays /\ scopes' \in [Threads -> 0..MaxScopes]
  BY <1>1 DEF Types
<1>5. Types'
  BY <1>1, <1>4 DEF Types, starting
<1>6. Counts'
  BY <1>1, <1>2, <1>3 DEF Counts, Modes
<1>7. strays' = 0 => strays = 0 /\ ~stray
  BY <1>1 DEF Types
<1>8. strays' = 0 => Exact'
  BY <1>1, <1>2, <1>3, <1>7 DEF Exact
<1>9. QED
  BY <1>5, <1>6, <1>8

LEMMA LockKeeps ==
    ASSUME Types, Counts, strays = 0 => Exact, NEW t \in Threads, Lock(t)
    PROVE  Types' /\ Counts' /\ (strays' = 0 => Exact')
<1>1. /\ guard[t].at = "lock"
      /\ guard' = [guard EXCEPT ![t].at = "in", ![t].m_locked = TRUE]
      /\ UNCHANGED <<starting, kind, scopes, strays>>
  BY DEF Lock
<1>2. /\ guard'[t].at = "in" /\ guard'[t].m_locked /\ guard'[t].mode = guard[t].mode
      /\ \A u \in Threads : u # t => guard'[u] = guard[u]
      /\ guard' \in [Threads -> [at : {"none", "lock", "in", "open"},
                                 mode : {"read", "write"}, m_locked : BOOLEAN]]
  BY <1>1 DEF Types
<1>3. t \notin ReadersIn /\ t \notin WritersIn /\ Cardinality(ReadersIn) \in Nat
  BY <1>1, FS_CardinalityType DEF ReadersIn, WritersIn, Counts
<1>4. writer' \subseteq Threads
  BY DEF Lock, Acquire, Types
<1>5. Types'
  BY <1>1, <1>2, <1>4 DEF Types, starting
<1>6. CASE guard[t].mode = "read"
  <2>1. /\ ReadersIn' = ReadersIn \cup {t} /\ WritersIn' = WritersIn \ {t}
    BY <1>2, <1>6, OneMoves
  <2>2. IsFiniteSet(ReadersIn') /\ Cardinality(ReadersIn') = Cardinality(ReadersIn) + 1
    BY <1>3, <2>1, AddOne DEF Counts
  <2>3. WritersIn' = WritersIn
    BY <1>3, <2>1
  <2>4. /\ readers' \in {readers, readers + 1} /\ writer' = writer
        /\ ~guard[t].m_locked => readers' = readers + 1 /\ writer = {}
    BY <1>6 DEF Lock, Acquire
  <2>5. kind # "Mutex"
    BY <1>1, <1>6 DEF Counts
  <2>6. readers' \in 0..Cardinality(ReadersIn')
    BY <1>3, <2>2, <2>4 DEF Counts
  <2>7. Counts'
    BY <1>1, <1>2, <2>2, <2>3, <2>4, <2>5, <2>6 DEF Counts
  <2>8. strays' = 0 => Exact'
    <3> SUFFICES ASSUME strays = 0 PROVE Exact'
      BY <1>1
    <3>1. readers' = Cardinality(ReadersIn') /\ writer' = WritersIn' /\ writer' = {}
      BY <1>1, <2>2, <2>3, <2>4 DEF Exact
    <3>2. QED
      BY <1>2, <3>1 DEF Exact
  <2>9. QED
    BY <1>5, <2>7, <2>8
<1>7. CASE guard[t].mode = "write"
  <2>1. /\ ReadersIn' = ReadersIn \ {t} /\ WritersIn' = WritersIn \cup {t}
    BY <1>2, <1>7, OneMoves
  <2>2. ReadersIn' = ReadersIn
    BY <1>3, <2>1
  <2>3. /\ readers' = readers /\ writer' \in {writer, {t}}
        /\ ~guard[t].m_locked => writer' = {t} /\ writer = {} /\ readers = 0
    BY <1>7 DEF Lock, Acquire
  <2>4. Counts'
    <3>1. IsFiniteSet(ReadersIn)' /\ readers' \in 0..Cardinality(ReadersIn')
      BY <2>2, <2>3 DEF Counts
    <3>2. writer' \subseteq WritersIn'
      BY <2>1, <2>3 DEF Counts
    <3>3. kind' = "Mutex" => ReadersIn' = {}
      BY <1>1, <2>2 DEF Counts
    <3>4. \A u \in Threads :
            /\ kind' = "Mutex" /\ guard'[u].at # "none" => guard'[u].mode = "write"
            /\ guard'[u].at = "in" => guard'[u].m_locked
            /\ guard'[u].at = "open" => ~guard'[u].m_locked
      BY <1>1, <1>2, <1>7 DEF Counts
    <3>5. QED
      BY <3>1, <3>2, <3>3, <3>4 DEF Counts
  <2>5. strays' = 0 => Exact'
    <3> SUFFICES ASSUME strays = 0 PROVE Exact'
      BY <1>1
    <3>1. writer' = {t} /\ WritersIn' = {t} /\ readers' = 0 /\ readers = 0
      BY <1>1, <2>1, <2>3 DEF Exact
    <3>2. readers' = Cardinality(ReadersIn')
      BY <2>2, <3>1 DEF Exact
    <3>3. QED
      BY <1>2, <3>1, <3>2 DEF Exact
  <2>6. QED
    BY <1>5, <2>4, <2>5
<1>8. QED
  BY <1>6, <1>7 DEF Types

\* unlock() and the destructor.
LEMMA ReleaseKeeps ==
    ASSUME Types, Counts, strays = 0 => Exact, NEW t \in Threads,
           Unlock(t) \/ Leave(t)
    PROVE  Types' /\ Counts' /\ (strays' = 0 => Exact')
<1>1. /\ guard[t].at \in {"in", "open"} /\ GiveBack(t)
      /\ UNCHANGED <<starting, kind, scopes, strays>>
  BY DEF Unlock, Leave
<1>2. /\ guard'[t].at \in {"none", "open"} /\ ~guard'[t].m_locked
      /\ guard'[t].mode = guard[t].mode \/ guard'[t].mode = "write"
      /\ \A u \in Threads : u # t => guard'[u] = guard[u]
      /\ guard' \in [Threads -> [at : {"none", "lock", "in", "open"},
                                 mode : {"read", "write"}, m_locked : BOOLEAN]]
  <2>1. CASE Unlock(t)
    BY <2>1 DEF Types, Unlock
  <2>2. CASE Leave(t)
    <3>1. NoGuard \in [at : {"none", "lock", "in", "open"},
                       mode : {"read", "write"}, m_locked : BOOLEAN]
      BY DEF NoGuard
    <3>2. guard' = [guard EXCEPT ![t] = NoGuard]
      BY <2>2 DEF Leave
    <3>3. /\ guard'[t] = NoGuard
          /\ \A u \in Threads : u # t => guard'[u] = guard[u]
      BY <3>2 DEF Types
    <3>4. guard' \in [Threads -> [at : {"none", "lock", "in", "open"},
                                  mode : {"read", "write"}, m_locked : BOOLEAN]]
      BY <3>1, <3>2 DEF Types
    <3>5. QED
      BY <3>3, <3>4 DEF NoGuard
  <2>3. QED
    BY <2>1, <2>2
<1>3. ReadersIn' = ReadersIn \ {t} /\ WritersIn' = WritersIn \ {t}
  BY <1>2, OneMoves
<1>4. writer' \subseteq writer
  BY <1>1 DEF GiveBack, Release
<1>5. Types'
  BY <1>1, <1>2, <1>4 DEF Types, starting
<1>6. Cardinality(ReadersIn) \in Nat
  BY FS_CardinalityType DEF Counts
<1>7. CASE guard[t].at = "open"
  <2>1. ReadersIn' = ReadersIn /\ WritersIn' = WritersIn
    BY <1>3, <1>7 DEF ReadersIn, WritersIn
  <2>2. UNCHANGED <<writer, readers>>
    BY <1>1, <1>7 DEF GiveBack, Counts
  <2>3. Counts'
    BY <1>1, <1>2, <2>1, <2>2 DEF Counts
  <2>4. strays' = 0 => Exact'
    BY <1>1, <1>2, <2>1, <2>2 DEF Exact
  <2>5. QED
    BY <1>5, <2>3, <2>4
<1>8. CASE guard[t].at = "in"
  <2>1. /\ writer' = IF kind = "Mutex" THEN {} ELSE writer \ {t}
        /\ readers' = IF t \notin writer /\ readers > 0 THEN readers - 1 ELSE readers
    BY <1>1, <1>8 DEF GiveBack, Release, Counts
  <2>2. writer' \subseteq WritersIn'
    BY <1>3, <2>1 DEF Counts
  <2>3. CASE guard[t].mode = "read"
    <3>1. t \in ReadersIn /\ t \notin WritersIn /\ t \notin writer /\ kind # "Mutex"
      BY <1>8, <2>3 DEF ReadersIn, WritersIn, Counts
    <3>2. IsFiniteSet(ReadersIn') /\ Cardinality(ReadersIn') = Cardinality(ReadersIn) - 1
      BY <1>3, <3>1, RemoveOne DEF Counts
    <3>3. Cardinality(ReadersIn') \in Nat
      BY <3>2, FS_CardinalityType
    <3>4. readers' = IF readers > 0 THEN readers - 1 ELSE readers
      BY <2>1, <3>1
    <3>5. readers' \in 0..Cardinality(ReadersIn')
      BY <1>6, <3>2, <3>3, <3>4 DEF Counts
    <3>6. Counts'
      BY <1>1, <1>2, <2>2, <3>1, <3>2, <3>5 DEF Counts
    <3>7. strays' = 0 => Exact'
      <4> SUFFICES ASSUME strays = 0 PROVE Exact'
        BY <1>1
      <4>1. readers' = Cardinality(ReadersIn')
        BY <1>6, <3>2, <3>3, <3>4 DEF Exact
      <4>2. readers # 0
        BY <1>6, <3>2, <3>3 DEF Exact
      <4>3. writer = {} /\ WritersIn = {}
        BY <4>2 DEF Exact
      <4>4. writer' = {} /\ WritersIn' = {}
        BY <1>3, <1>4, <4>3
      <4>5. QED
        BY <1>2, <4>1, <4>4 DEF Exact
    <3>8. QED
      BY <1>5, <3>6, <3>7
  <2>4. CASE guard[t].mode = "write"
    <3>1. t \in WritersIn /\ t \notin ReadersIn
      BY <1>8, <2>4 DEF ReadersIn, WritersIn
    <3>2. ReadersIn' = ReadersIn
      BY <1>3, <3>1
    <3>3. readers' \in 0..Cardinality(ReadersIn')
      BY <1>6, <2>1, <3>2 DEF Counts
    <3>4. Counts'
      BY <1>1, <1>2, <2>2, <3>2, <3>3 DEF Counts
    <3>5. strays' = 0 => Exact'
      <4> SUFFICES ASSUME strays = 0 PROVE Exact'
        BY <1>1
      <4>1. t \in writer /\ writer = {t} /\ WritersIn = {t} /\ readers = 0
        BY <3>1 DEF Exact
      <4>2. writer' = {} /\ WritersIn' = {} /\ readers' = readers
        BY <1>3, <2>1, <4>1
      <4>3. readers' = Cardinality(ReadersIn')
        BY <3>2, <4>2 DEF Exact
      <4>4. QED
        BY <1>2, <4>2, <4>3 DEF Exact
    <3>6. QED
      BY <1>5, <3>4, <3>5
  <2>5. QED
    BY <2>3, <2>4 DEF Types
<1>9. QED
  BY <1>1, <1>7, <1>8

LEMMA LockAgainKeeps ==
    ASSUME Types, Counts, strays = 0 => Exact, NEW t \in Threads, LockAgain(t)
    PROVE  Types' /\ Counts' /\ (strays' = 0 => Exact')
<1>1. /\ guard[t].at = "open"
      /\ guard' = [guard EXCEPT ![t].at = "lock"]
      /\ UNCHANGED <<starting, kind, writer, readers, scopes, strays>>
  BY DEF LockAgain
<1>2. /\ guard'[t].at = "lock" /\ guard'[t].m_locked = guard[t].m_locked
      /\ guard'[t].mode = guard[t].mode
      /\ \A u \in Threads : u # t => guard'[u] = guard[u]
      /\ guard' \in [Threads -> [at : {"none", "lock", "in", "open"},
                                 mode : {"read", "write"}, m_locked : BOOLEAN]]
  BY <1>1 DEF Types
<1>3. ReadersIn' = ReadersIn /\ WritersIn' = WritersIn
  BY <1>1, <1>2 DEF ReadersIn, WritersIn
<1>4. Types'
  BY <1>1, <1>2 DEF Types, starting
<1>5. Counts'
  BY <1>1, <1>2, <1>3 DEF Counts
<1>6. strays' = 0 => Exact'
  BY <1>1, <1>2, <1>3 DEF Exact, Counts
<1>7. QED
  BY <1>4, <1>5, <1>6

-----------------------------------------------------------------------------
(* The invariant.                                                          *)

Inv == Types /\ Handshake /\ Counts /\ (strays = 0 => Exact)

LEMMA NextInv ==
    ASSUME MaxScopes \in Nat, MaxStrays \in Nat, Inv, [Next]_vars
    PROVE  Inv'
<1>1. ASSUME NEW t \in Threads, Start(t)
      PROVE  Inv'
  <2>1. UNCHANGED locking
    BY <1>1 DEF Start, Construct, StoreId, TakeCallback, Notify, Wait, SetName, End, Join, Destroy
  <2>2. Counts' /\ (strays' = 0 => Exact')
    BY <2>1 DEF Inv, Counts, Exact, ReadersIn, WritersIn, locking
  <2>3. QED
    BY <1>1, <2>2, StartKeeps DEF Inv
<1>2. ASSUME NEW t \in Threads, Guard(t)
      PROVE  Inv'
  <2>1. UNCHANGED starting
    BY <1>2 DEF Guard, Enter, Lock, Unlock, LockAgain, Leave
  <2>2. Handshake'
    BY <2>1 DEF Inv, Handshake, starting
  <2>3. Types' /\ Counts' /\ (strays' = 0 => Exact')
    BY <1>2, EnterKeeps, LockKeeps, ReleaseKeeps, LockAgainKeeps DEF Guard, Inv
  <2>4. QED
    BY <2>2, <2>3 DEF Inv
<1>3. CASE UNCHANGED vars
  BY <1>3 DEF Inv, Types, Handshake, Counts, Exact, ReadersIn, WritersIn, vars, starting, locking
<1>4. QED
  BY <1>1, <1>2, <1>3 DEF Next

\* The invariant the theorems below are read off.
THEOREM Invariance ==
    ASSUME MaxScopes \in Nat, MaxStrays \in Nat
    PROVE  Spec => []Inv
<1>1. Init => Inv
  BY InitStart, InitGuards DEF Inv
<1>2. Inv /\ [Next]_vars => Inv'
  BY NextInv
<1>3. QED
  BY <1>1, <1>2, PTL DEF Spec

\* TypeOK, strays or not: the rwlock never counts more read locks than there
\* are threads, and the semaphore of a Thread is posted at most once.
THEOREM TypeCorrect ==
    ASSUME IsFiniteSet(Threads), MaxScopes \in Nat, MaxStrays \in Nat
    PROVE  Spec => []TypeOK
<1>1. Inv => TypeOK
  <2> SUFFICES ASSUME Inv PROVE readers \in 0..Cardinality(Threads)
    BY DEF Inv, Types, TypeOK
  <2>1. ReadersIn \subseteq Threads
    BY DEF ReadersIn
  <2>2. Cardinality(ReadersIn) <= Cardinality(Threads)
    BY <2>1, FS_Subset
  <2>3. Cardinality(ReadersIn) \in Nat /\ Cardinality(Threads) \in Nat
    BY FS_CardinalityType DEF Inv, Counts
  <2>4. QED
    BY <2>2, <2>3 DEF Inv, Counts
<1>2. QED
  BY <1>1, Invariance, PTL

\* GuardedIsExclusive of ScopedLockImpl, ReadScopedLockImpl, WriteScopedLockImpl
\* and the constructor of Thread, for any number of threads and guards.
THEOREM Exclusion ==
    ASSUME MaxScopes \in Nat, MaxStrays \in Nat
    PROVE  Spec => []GuardedIsExclusive
<1>1. Inv => WritersAreAlone
  <2> SUFFICES ASSUME Inv, strays = 0, NEW t \in Threads, NEW u \in Threads, t # u,
                      guard[t].at = "in", guard[t].mode = "write", guard[u].at = "in"
               PROVE  FALSE
    BY DEF WritersAreAlone
  <2>1. t \in writer /\ readers = 0
    BY DEF Inv, Exact, WritersIn
  <2>2. CASE guard[u].mode = "write"
    BY <2>1, <2>2 DEF Inv, Exact, WritersIn
  <2>3. CASE guard[u].mode = "read"
    <3>1. u \in ReadersIn
      BY <2>3 DEF ReadersIn
    <3>2. Cardinality(ReadersIn) # 0
      BY <3>1, FS_EmptySet DEF Inv, Counts
    <3>3. QED
      BY <2>1, <3>2 DEF Inv, Exact
  <2>4. QED
    BY <2>2, <2>3 DEF Inv, Types
<1>2. Inv => StartIsOrdered
  BY DEF Inv, Types, Handshake, StartIsOrdered
<1>3. QED
  BY <1>1, <1>2, Invariance, PTL DEF GuardedIsExclusive

-----------------------------------------------------------------------------
(* Log.                                                                    *)

CONSTANTS Levels, MaxTime, MaxEvents, MaxAccidents

VARIABLES clock, path, since, m_filestream, m_lastTime, m_reopenError, m_level,
          m_appenders, call, events, accidents, spoiled, broken, late

Logging == INSTANCE Log

Calls == [at : {"none", "logger", "check", "reopen", "stamp", "test", "write"},
          time : Nat, level : Levels \cup {0}]

LogTypes ==
    /\ clock \in Nat /\ since \in Nat /\ m_lastTime \in Nat
    /\ path \in [gen : Nat, writable : BOOLEAN, full : BOOLEAN]
    /\ m_filestream \in [open : BOOLEAN, gen : Nat, failed : BOOLEAN]
    /\ m_reopenError \in BOOLEAN /\ spoiled \in BOOLEAN /\ late \in BOOLEAN
    /\ call \in [Threads -> Calls]

\* Events are made and the file changes in the past.
Past == since <= clock /\ m_lastTime <= clock /\ \A t \in Threads : call[t].time <= clock

\* The stream writes to the file that has the name.
Current ==
    /\ m_filestream.open /\ ~m_filestream.failed /\ ~m_reopenError
    /\ m_filestream.gen = path.gen

\* The file has been opened after its last change, if an event later than that
\* has opened it, or if one three seconds later has come past the opening.
Followed ==
    ~spoiled =>
        /\ m_filestream.open <=> ~m_filestream.failed
        /\ path.writable =>
             /\ m_lastTime > since => Current
             /\ \A t \in Threads :
                  /\ call[t].at = "stamp" /\ call[t].time > since => Current
                  /\ call[t].at \in {"test", "write"} /\ call[t].time >= since + 3 => Current

LogInv == LogTypes /\ Past /\ Followed /\ ~late

\* The stream and the file stay, and no thread comes further than before.
LEMMA ElsewhereKeeps ==
    ASSUME LogInv, UNCHANGED <<since, m_filestream, m_lastTime, m_reopenError, spoiled, late>>,
           clock' \in Nat, clock' >= clock,
           path' \in [gen : Nat, writable : BOOLEAN, full : BOOLEAN],
           path'.gen = path.gen, path'.writable = path.writable,
           call' \in [Threads -> Calls],
           \A t \in Threads :
              \/ call'[t] = call[t]
              \/ call'[t].at \notin {"stamp", "test", "write"} /\ call'[t].time <= clock
    PROVE  LogInv'
<1>1. LogTypes'
  BY DEF LogInv, LogTypes
<1>2. Past'
  <2>1. ASSUME NEW t \in Threads  PROVE call'[t].time <= clock'
    <3>1. call'[t].time <= clock /\ call'[t].time \in Nat
      BY DEF LogInv, Past, Calls
    <3>2. QED
      BY <3>1 DEF LogInv, LogTypes
  <2>2. QED
    BY <2>1 DEF LogInv, LogTypes, Past
<1>3. Followed'
  <2>1. Current' <=> Current
    BY DEF Current
  <2>2. QED
    BY <2>1 DEF LogInv, Followed
<1>4. QED
  BY <1>1, <1>2, <1>3 DEF LogInv

\* One thread goes on to place a with its event.
LEMMA ToFacts ==
    ASSUME LogInv, NEW t \in Threads,
           NEW a \in {"reopen", "stamp", "test", "write"}, Logging!To(t, a)
    PROVE  /\ call' \in [Threads -> Calls]
           /\ call'[t].at = a /\ call'[t].time = call[t].time
           /\ \A u \in Threads \ {t} : call'[u] = call[u]
           /\ \A u \in Threads : call'[u].time = call[u].time
<1>1. call'[t] = [call[t] EXCEPT !.at = a] /\ \A u \in Threads \ {t} : call'[u] = call[u]
  BY DEF Logging!To, LogInv, LogTypes
<1>2. call'[t].at = a /\ call'[t].time = call[t].time /\ call'[t] \in Calls
  BY <1>1 DEF LogInv, LogTypes, Calls
<1>3. call' \in [Threads -> Calls]
  BY <1>1, <1>2 DEF Logging!To, LogInv, LogTypes
<1>4. QED
  BY <1>1, <1>2, <1>3

LEMMA DoneFacts ==
    ASSUME LogInv, NEW t \in Threads, Logging!Done(t)
    PROVE  /\ call' \in [Threads -> Calls]
           /\ call'[t].at = "none" /\ call'[t].time = 0
           /\ \A u \in Threads \ {t} : call'[u] = call[u]
<1>1. call'[t] = Logging!NoEvent /\ \A u \in Threads \ {t} : call'[u] = call[u]
  BY DEF Logging!Done, LogInv, LogTypes
<1>2. Logging!NoEvent \in Calls
  BY DEF Logging!NoEvent, Calls
<1>3. call' \in [Threads -> Calls]
  BY <1>2 DEF Logging!Done, LogInv, LogTypes
<1>4. QED
  BY <1>1, <1>3 DEF Logging!NoEvent

LEMMA OutsideKeeps ==
    ASSUME LogInv,
           \/ Logging!Tick \/ Logging!Rotate \/ Logging!Fill
           \/ Logging!DelAppender \/ Logging!AddAppender
           \/ \E level \in Levels : Logging!SetLevel(level)
    PROVE  LogInv'
<1>1. CASE Logging!Tick
  <2>1. clock' = clock + 1 /\ clock \in Nat /\ path' = path /\ call' = call
        /\ UNCHANGED <<since, m_filestream, m_lastTime, m_reopenError, spoiled, late>>
    BY <1>1 DEF Logging!Tick, Logging!appender, Logging!ghosts, LogInv, LogTypes
  <2>2. QED
    BY <2>1, ElsewhereKeeps DEF LogInv, LogTypes
<1>2. CASE Logging!Rotate
  <2>1. /\ since' = clock
        /\ UNCHANGED <<clock, m_filestream, m_lastTime, m_reopenError, call, spoiled, late>>
        /\ path' \in [gen : Nat, writable : BOOLEAN, full : BOOLEAN]
    <3>1. path \in [gen : Nat, writable : BOOLEAN, full : BOOLEAN]
      BY DEF LogInv, LogTypes
    <3>2. \/ path' = [path EXCEPT !.gen = path.gen + 1]
          \/ path' = [path EXCEPT !.writable = ~path.writable]
      BY <1>2 DEF Logging!Rotate
    <3>3. path' \in [gen : Nat, writable : BOOLEAN, full : BOOLEAN]
      <4>1. path.gen + 1 \in Nat /\ (~path.writable) \in BOOLEAN
        BY <3>1
      <4>2. CASE path' = [path EXCEPT !.gen = path.gen + 1]
        BY <3>1, <4>1, <4>2
      <4>3. CASE path' = [path EXCEPT !.writable = ~path.writable]
        BY <3>1, <4>1, <4>3
      <4>4. QED
        BY <3>2, <4>2, <4>3
    <3>4. QED
      BY <1>2, <3>3 DEF Logging!Rotate, Logging!Accident, Logging!appender
  <2>2. LogTypes' /\ Past'
    BY <2>1 DEF LogInv, LogTypes, Past
  <2>3. ~(m_lastTime' > since')
    BY <2>1 DEF LogInv, LogTypes, Past
  <2>4. \A t \in Threads : ~(call'[t].time > since') /\ ~(call'[t].time >= since' + 3)
    BY <2>1 DEF LogInv, LogTypes, Past, Calls
  <2>5. Followed'
    BY <2>1, <2>3, <2>4 DEF LogInv, Followed
  <2>6. QED
    BY <2>1, <2>2, <2>5 DEF LogInv
<1>3. CASE Logging!Fill
  <2>1. /\ path' = [path EXCEPT !.full = ~@]
        /\ UNCHANGED <<clock, call, since, m_filestream, m_lastTime, m_reopenError, spoiled, late>>
    BY <1>3 DEF Logging!Fill, Logging!Accident, Logging!appender
  <2>2. /\ path' \in [gen : Nat, writable : BOOLEAN, full : BOOLEAN]
        /\ path'.gen = path.gen /\ path'.writable = path.writable
    BY <2>1 DEF LogInv, LogTypes
  <2>3. QED
    BY <2>1, <2>2, ElsewhereKeeps DEF LogInv, LogTypes
<1>4. CASE \/ Logging!DelAppender \/ Logging!AddAppender
           \/ \E level \in Levels : Logging!SetLevel(level)
  <2>1. UNCHANGED <<clock, path, call, since, m_filestream, m_lastTime, m_reopenError,
                    spoiled, late>>
    BY <1>4 DEF Logging!DelAppender, Logging!AddAppender, Logging!SetLevel,
       Logging!Accident, Logging!appender
  <2>2. QED
    BY <2>1, ElsewhereKeeps DEF LogInv, LogTypes
<1>5. QED
  BY <1>1, <1>2, <1>3, <1>4

LEMMA BeginKeeps ==
    ASSUME LogInv, NEW t \in Threads,
           (\E level \in Levels : Logging!Make(t, level)) \/ Logging!Walk(t)
    PROVE  LogInv'
<1>1. UNCHANGED <<clock, path, since, m_filestream, m_lastTime, m_reopenError, spoiled, late>>
  BY DEF Logging!Make, Logging!Walk, Logging!outside, Logging!appender, Logging!ghosts
<1>2. clock \in Nat /\ call[t] \in Calls /\ call[t].time <= clock
  BY DEF LogInv, LogTypes, Past
<1>3. /\ \A u \in Threads \ {t} : call'[u] = call[u]
      /\ call'[t] \in Calls
      /\ call'[t].at \in {"none", "logger", "check"} /\ call'[t].time <= clock
      /\ call' = [u \in Threads |-> call'[u]]
  <2>1. ASSUME NEW level \in Levels, Logging!Make(t, level)
        PROVE  call' = [call EXCEPT ![t] = [at |-> "logger", time |-> clock, level |-> level]]
    BY <2>1 DEF Logging!Make
  <2>2. ASSUME Logging!Walk(t)
        PROVE  \/ call' = [call EXCEPT ![t] = [call[t] EXCEPT !.at = "check", !.level = 0]]
               \/ call' = [call EXCEPT ![t] = Logging!NoEvent]
    BY <2>2 DEF Logging!Walk, LogInv, LogTypes
  <2>3. \E e \in Calls : call' = [call EXCEPT ![t] = e] /\ e.at \in {"none", "logger", "check"}
                          /\ e.time <= clock
    <3>1. \A level \in Levels : [at |-> "logger", time |-> clock, level |-> level] \in Calls
      BY <1>2 DEF Calls
    <3>2. LET e == [call[t] EXCEPT !.at = "check", !.level = 0]
          IN e \in Calls /\ e.at = "check" /\ e.time = call[t].time
      BY <1>2 DEF Calls
    <3>3. Logging!NoEvent \in Calls /\ Logging!NoEvent.at = "none" /\ Logging!NoEvent.time <= clock
      BY <1>2 DEF Calls, Logging!NoEvent
    <3>4. ASSUME NEW level \in Levels, Logging!Make(t, level)
          PROVE  call' = [call EXCEPT ![t] = [at |-> "logger", time |-> clock, level |-> level]]
                 /\ clock <= clock
      BY <1>2, <2>1, <3>4
    <3>5. CASE \E level \in Levels : Logging!Make(t, level)
      BY <3>1, <3>4, <3>5
    <3>6. CASE Logging!Walk(t)
      BY <1>2, <2>2, <3>2, <3>3, <3>6
    <3>7. QED
      BY <3>5, <3>6
  <2>4. QED
    BY <2>3 DEF LogInv, LogTypes
<1>4. call' \in [Threads -> Calls]
  BY <1>3 DEF LogInv, LogTypes
<1>5. QED
  BY <1>1, <1>2, <1>3, <1>4, ElsewhereKeeps DEF LogInv, LogTypes

LEMMA AppendKeeps ==
    ASSUME LogInv, NEW t \in Threads,
           Logging!Check(t) \/ Logging!Reopen(t) \/ Logging!Stamp(t)
    PROVE  LogInv'
<1>1. CASE Logging!Check(t)
  <2>1. /\ UNCHANGED <<clock, path, since, m_filestream, m_lastTime, m_reopenError, spoiled, late>>
        /\ Logging!To(t, IF call[t].time >= m_lastTime + 3 THEN "reopen" ELSE "test")
    BY <1>1 DEF Logging!Check, Logging!Period, Logging!outside, Logging!appender, Logging!ghosts
  <2>2. CASE call[t].time >= m_lastTime + 3
    <3>1. Logging!To(t, "reopen")
      BY <2>1, <2>2
    <3>2. call'[t].time <= clock
      BY <3>1, ToFacts DEF LogInv, Past
    <3>3. QED
      BY <2>1, <3>1, <3>2, ToFacts, ElsewhereKeeps DEF LogInv, LogTypes
  <2>3. CASE ~(call[t].time >= m_lastTime + 3)
    <3>1. Logging!To(t, "test")
      BY <2>1, <2>3
    <3>2. LogTypes' /\ Past'
      BY <2>1, <3>1, ToFacts DEF LogInv, LogTypes, Past
    <3>3. call[t].time >= since + 3 => m_lastTime > since
      BY <2>3 DEF LogInv, LogTypes, Calls
    <3>4. Current' <=> Current
      BY <2>1 DEF Current
    <3>5. Followed'
      BY <2>1, <3>1, <3>3, <3>4, ToFacts DEF LogInv, Followed
    <3>6. QED
      BY <2>1, <3>2, <3>5 DEF LogInv
  <2>4. QED
    BY <2>2, <2>3
<1>2. CASE Logging!Reopen(t)
  <2>1. /\ UNCHANGED <<clock, path, since, m_lastTime, spoiled, late>>
        /\ Logging!To(t, "stamp")
        /\ m_filestream' = Logging!Opened(m_filestream)
        /\ m_reopenError' = m_filestream'.failed
    BY <1>2 DEF Logging!Reopen, Logging!outside, Logging!ghosts
  <2>2. /\ m_filestream' \in [open : BOOLEAN, gen : Nat, failed : BOOLEAN]
        /\ (m_filestream.open <=> ~m_filestream.failed) =>
             /\ m_filestream'.open <=> ~m_filestream'.failed
             /\ path.writable => /\ m_filestream'.open /\ ~m_filestream'.failed
                                 /\ m_filestream'.gen = path.gen
    BY <2>1 DEF Logging!Opened, LogInv, LogTypes
  <2>3. LogTypes' /\ Past'
    BY <2>1, <2>2, ToFacts DEF LogInv, LogTypes, Past
  <2>4. ~spoiled /\ path.writable => Current'
    BY <2>1, <2>2 DEF LogInv, Followed, Current
  <2>5. Followed'
    BY <2>1, <2>2, <2>4 DEF LogInv, Followed
  <2>6. QED
    BY <2>1, <2>3, <2>5 DEF LogInv
<1>3. CASE Logging!Stamp(t)
  <2>1. /\ UNCHANGED <<clock, path, since, m_filestream, m_reopenError, spoiled, late>>
        /\ Logging!To(t, "test") /\ call[t].at = "stamp" /\ m_lastTime' = call[t].time
    BY <1>3 DEF Logging!Stamp, Logging!outside, Logging!ghosts
  <2>2. call[t].time \in Nat /\ since \in Nat /\ clock \in Nat
    BY DEF LogInv, LogTypes, Calls
  <2>3. LogTypes' /\ Past'
    BY <2>1, <2>2, ToFacts DEF LogInv, LogTypes, Past
  <2>4. Current' <=> Current
    BY <2>1 DEF Current
  <2>5. call[t].time >= since + 3 => call[t].time > since
    BY <2>2
  <2>6. Followed'
    BY <2>1, <2>4, <2>5, ToFacts DEF LogInv, Followed
  <2>7. QED
    BY <2>1, <2>3, <2>6 DEF LogInv
<1>4. QED
  BY <1>1, <1>2, <1>3

LEMMA WriteKeeps ==
    ASSUME LogInv, NEW t \in Threads, Logging!Test(t) \/ Logging!Write(t)
    PROVE  LogInv'
<1> USE DEF Logging!Period
<1>1. CASE Logging!Test(t)
  <2>1. /\ UNCHANGED <<clock, path, since, m_filestream, m_lastTime, m_reopenError, spoiled>>
        /\ call[t].at = "test"
        /\ IF m_reopenError THEN Logging!Done(t) ELSE Logging!To(t, "write")
        /\ late' = (late \/ (m_reopenError /\ Logging!Due(t)))
    BY <1>1 DEF Logging!Test, Logging!outside, Logging!appender
  <2>2. ~(m_reopenError /\ Logging!Due(t))
    BY <2>1 DEF LogInv, Followed, Current, Logging!Due
  <2>3. late' = late
    BY <2>1, <2>2 DEF LogInv, LogTypes
  <2>4. Current' <=> Current
    BY <2>1 DEF Current
  <2>5. /\ call' \in [Threads -> Calls]
        /\ \A u \in Threads \ {t} : call'[u] = call[u]
        /\ \/ call'[t].at = "none" /\ call'[t].time = 0
           \/ call'[t].at = "write" /\ call'[t].time = call[t].time
    BY <2>1, ToFacts, DoneFacts
  <2>6. LogTypes' /\ Past'
    BY <2>1, <2>3, <2>5 DEF LogInv, LogTypes, Past
  <2>7. Followed'
    BY <2>1, <2>4, <2>5 DEF LogInv, Followed
  <2>8. QED
    BY <2>3, <2>6, <2>7 DEF LogInv
<1>2. CASE Logging!Write(t)
  <2> DEFINE s == m_filestream
             fails == ~s.failed /\ (path.full \/ ~s.open)
             written == ~s.failed /\ ~fails /\ s.gen = path.gen
  <2>1. /\ UNCHANGED <<clock, path, since, m_lastTime, m_reopenError>>
        /\ call[t].at = "write"
        /\ m_filestream' = [s EXCEPT !.failed = s.failed \/ fails]
        /\ spoiled' = (spoiled \/ (fails /\ s.open))
        /\ late' = (late \/ (~written /\ Logging!Due(t)))
        /\ Logging!Done(t)
    BY <1>2 DEF Logging!Write, Logging!outside
  <2>2. ~(~written /\ Logging!Due(t))
    BY <2>1 DEF LogInv, Followed, Current, Logging!Due
  <2>3. late' = late
    BY <2>1, <2>2 DEF LogInv, LogTypes
  <2>4. /\ m_filestream' \in [open : BOOLEAN, gen : Nat, failed : BOOLEAN]
        /\ spoiled' \in BOOLEAN
    BY <2>1 DEF LogInv, LogTypes
  <2>5. LogTypes' /\ Past'
    BY <2>1, <2>3, <2>4, DoneFacts DEF LogInv, LogTypes, Past
  <2>6. ~spoiled' => ~spoiled /\ m_filestream' = m_filestream
    BY <2>1 DEF LogInv, LogTypes, Followed
  <2>7. m_filestream' = m_filestream => (Current' <=> Current)
    BY <2>1 DEF Current
  <2>8. Followed'
    BY <2>1, <2>6, <2>7, DoneFacts DEF LogInv, Followed
  <2>9. QED
    BY <2>3, <2>5, <2>8 DEF LogInv
<1>3. QED
  BY <1>1, <1>2

\* The inductive invariant of the appender holds in every reachable state.
THEOREM LogInvariance == Logging!Spec => []LogInv
<1>1. Logging!Init => LogInv
  <2> SUFFICES ASSUME Logging!Init PROVE LogInv
    OBVIOUS
  <2>1. Logging!NoEvent \in Calls /\ \A t \in Threads : call[t] = Logging!NoEvent
    BY DEF Logging!Init, Logging!NoEvent, Calls
  <2>2. LogTypes
    <3>1. /\ clock \in Nat /\ since \in Nat /\ m_lastTime \in Nat
          /\ path \in [gen : Nat, writable : BOOLEAN, full : BOOLEAN]
      <4>1. path \in [gen : {0}, writable : BOOLEAN, full : {FALSE}]
        BY DEF Logging!Init
      <4>2. path \in [gen : Nat, writable : BOOLEAN, full : BOOLEAN]
        <5>1. PICK w \in BOOLEAN : path = [gen |-> 0, writable |-> w, full |-> FALSE]
          BY <4>1
        <5>2. 0 \in Nat /\ FALSE \in BOOLEAN
          OBVIOUS
        <5>3. QED
          BY <5>1, <5>2
      <4>3. clock \in Nat /\ since \in Nat /\ m_lastTime \in Nat
        BY DEF Logging!Init, Logging!StartTime
      <4>4. QED
        BY <4>2, <4>3
    <3>2. m_filestream = [open |-> path.writable, gen |-> 0, failed |-> ~path.writable]
      BY DEF Logging!Init
    <3>3. m_filestream \in [open : BOOLEAN, gen : Nat, failed : BOOLEAN]
      <4>1. path.writable \in BOOLEAN /\ (~path.writable) \in BOOLEAN
        BY <3>1
      <4>2. QED
        BY <3>2, <4>1
    <3>4. m_reopenError \in BOOLEAN
      BY DEF Logging!Init
    <3>5. /\ spoiled \in BOOLEAN /\ late \in BOOLEAN
          /\ call = [t \in Threads |-> Logging!NoEvent]
      BY DEF Logging!Init
    <3>6. QED
      BY <2>1, <3>1, <3>3, <3>4, <3>5 DEF LogTypes
  <2>3. Past
    BY <2>1 DEF Logging!Init, Logging!StartTime, Logging!NoEvent, Past
  <2>4. Followed
    <3>1. /\ \A t \in Threads : call[t].at = "none"
          /\ ~(m_lastTime > since)
      BY <2>1 DEF Logging!Init, Logging!StartTime, Logging!NoEvent
    <3>2. m_filestream.open <=> ~m_filestream.failed
      <4>1. m_filestream = [open |-> path.writable, gen |-> 0, failed |-> ~path.writable]
        BY DEF Logging!Init
      <4>2. CASE path.writable = TRUE
        BY <4>1, <4>2
      <4>3. CASE path.writable = FALSE
        BY <4>1, <4>3
      <4>4. QED
        BY <4>2, <4>3 DEF Logging!Init
    <3>3. QED
      BY <3>1, <3>2 DEF Followed
  <2>5. QED
    BY <2>2, <2>3, <2>4 DEF Logging!Init, LogInv
<1>2. LogInv /\ [Logging!Next]_(Logging!vars) => LogInv'
  <2> SUFFICES ASSUME LogInv, [Logging!Next]_(Logging!vars) PROVE LogInv'
    OBVIOUS
  <2>1. CASE UNCHANGED Logging!vars
    <3>1. UNCHANGED <<clock, path, call, since, m_filestream, m_lastTime, m_reopenError,
                      spoiled, late>>
      BY <2>1 DEF Logging!vars, Logging!outside, Logging!appender, Logging!ghosts
    <3>2. QED
      BY <3>1, ElsewhereKeeps DEF LogInv, LogTypes
  <2>2. CASE Logging!Next
    BY <2>2, OutsideKeeps, BeginKeeps, AppendKeeps, WriteKeeps
       DEF Logging!Next, Logging!LogEvent
  <2>3. QED
    BY <2>1, <2>2
<1>3. QED
  BY <1>1, <1>2, PTL DEF Logging!Spec

\* LogReachesFile of FileLogAppender::log(), log.cpp:535: although the stream is
\* opened, stamped and written in separate sections, by any number of threads
\* with events of any age, an event that comes three seconds after the last
\* change of the file is in the file that has the name.
THEOREM EventsReachFile == Logging!Spec => []Logging!LogReachesFile
<1>1. LogInv => Logging!LogReachesFile
  BY DEF LogInv, Logging!LogReachesFile
<1>2. QED
  BY <1>1, LogInvariance, PTL

\* What LogInv does not say of the types: the bounds, and that a stream is open on
\* a file that there has been.
LogBounds ==
    /\ clock \in Logging!StartTime..MaxTime /\ since \in Logging!StartTime..MaxTime
    /\ path.gen <= accidents /\ m_filestream.gen <= path.gen
    /\ m_level \in Levels /\ m_appenders \in BOOLEAN
    /\ events \in 0..MaxEvents /\ accidents \in 0..MaxAccidents
    /\ broken \in BOOLEAN

\* Every reachable state of a logger and its file appender is well typed.
THEOREM LogTypeCorrect ==
    ASSUME MaxTime \in Nat, MaxTime >= Logging!StartTime, MaxEvents \in Nat,
           MaxAccidents \in Nat, Logging!INFO \in Levels
    PROVE  Logging!Spec => []Logging!TypeOK
<1> USE DEF Logging!StartTime
<1>1. Logging!Init => LogBounds
  <2> SUFFICES ASSUME Logging!Init PROVE LogBounds
    OBVIOUS
  <2>1. PICK w \in BOOLEAN : path = [gen |-> 0, writable |-> w, full |-> FALSE]
    BY DEF Logging!Init
  <2>2. m_filestream = [open |-> path.writable, gen |-> 0, failed |-> ~path.writable]
    BY DEF Logging!Init
  <2>3. path.gen = 0 /\ m_filestream.gen = 0
    BY <2>1, <2>2
  <2>4. /\ clock = Logging!StartTime /\ since = Logging!StartTime
        /\ m_level = Logging!INFO /\ m_appenders = TRUE
        /\ events = 0 /\ accidents = 0 /\ broken = FALSE
    BY DEF Logging!Init
  <2>5. m_level \in Levels
    BY <2>4
  <2>6. m_appenders \in BOOLEAN /\ broken \in BOOLEAN
    BY <2>4
  <2>7. clock \in Logging!StartTime..MaxTime /\ events \in 0..MaxEvents
        /\ accidents \in 0..MaxAccidents
    BY <2>4
  <2>8. QED
    BY <2>3, <2>4, <2>5, <2>6, <2>7 DEF LogBounds
<1>2. LogBounds /\ LogInv /\ [Logging!Next]_(Logging!vars) => LogBounds'
  <2> SUFFICES ASSUME LogBounds, LogInv, [Logging!Next]_(Logging!vars) PROVE LogBounds'
    OBVIOUS
  <2> USE DEF LogBounds
  <2>1. CASE UNCHANGED Logging!vars
    BY <2>1 DEF Logging!vars, Logging!outside, Logging!appender, Logging!logger,
       Logging!ghosts
  <2>2. CASE Logging!Tick
    BY <2>2 DEF Logging!Tick, Logging!appender, Logging!logger, Logging!ghosts
  <2>3. CASE Logging!Rotate
    <3>1. /\ path'.gen \in {path.gen, path.gen + 1}
          /\ path.gen \in Nat /\ m_filestream.gen \in Nat
      BY <2>3 DEF Logging!Rotate, LogInv, LogTypes
    <3>2. QED
      BY <2>3, <3>1 DEF Logging!Rotate, Logging!Accident, Logging!appender, Logging!logger
  <2>4. CASE Logging!Fill
    <3>1. path'.gen = path.gen /\ path.gen \in Nat /\ m_filestream.gen \in Nat
      BY <2>4 DEF Logging!Fill, LogInv, LogTypes
    <3>2. QED
      BY <2>4, <3>1 DEF Logging!Fill, Logging!Accident, Logging!appender, Logging!logger
  <2>5. CASE \/ Logging!DelAppender \/ Logging!AddAppender
             \/ \E level \in Levels : Logging!SetLevel(level)
    <3>1. path.gen \in Nat /\ m_filestream.gen \in Nat
      BY DEF LogInv, LogTypes
    <3>2. /\ UNCHANGED <<clock, path, since, m_filestream, events>>
          /\ accidents' = accidents + 1 /\ accidents < MaxAccidents
      BY <2>5 DEF Logging!DelAppender, Logging!AddAppender, Logging!SetLevel,
         Logging!Accident, Logging!appender
    <3>3. m_level' \in Levels
      BY <2>5 DEF Logging!DelAppender, Logging!AddAppender, Logging!SetLevel
    <3>4. m_appenders' \in BOOLEAN
      BY <2>5 DEF Logging!DelAppender, Logging!AddAppender, Logging!SetLevel
    <3>5. broken' \in BOOLEAN
      BY <2>5 DEF Logging!DelAppender, Logging!AddAppender, Logging!SetLevel
    <3>6. QED
      BY <3>1, <3>2, <3>3, <3>4, <3>5
  <2>6. ASSUME NEW t \in Threads, Logging!LogEvent(t)  PROVE LogBounds'
    <3>1. m_filestream'.gen \in {m_filestream.gen, path.gen}
      <4>1. CASE Logging!Reopen(t)
        BY <4>1 DEF Logging!Reopen, Logging!Opened, LogInv, LogTypes
      <4>2. CASE Logging!Write(t)
        BY <4>2 DEF Logging!Write, LogInv, LogTypes
      <4>3. CASE ~Logging!Reopen(t) /\ ~Logging!Write(t)
        BY <2>6, <4>3 DEF Logging!LogEvent, Logging!Make, Logging!Walk, Logging!Check,
           Logging!Stamp, Logging!Test, Logging!appender
      <4>4. QED
        BY <4>1, <4>2, <4>3
    <3>2. /\ UNCHANGED <<clock, path, since, m_level, m_appenders, accidents, broken>>
          /\ events' \in 0..MaxEvents
      BY <2>6 DEF Logging!LogEvent, Logging!Make, Logging!Walk, Logging!Check,
         Logging!Reopen, Logging!Stamp, Logging!Test, Logging!Write, Logging!outside,
         Logging!logger, Logging!ghosts
    <3>3. path.gen \in Nat
      BY DEF LogInv, LogTypes
    <3>4. QED
      BY <3>1, <3>2, <3>3
  <2>7. QED
    BY <2>1, <2>2, <2>3, <2>4, <2>5, <2>6 DEF Logging!Next
<1>3. LogBounds /\ LogInv => Logging!TypeOK
  <2> SUFFICES ASSUME LogBounds, LogInv PROVE Logging!TypeOK
    OBVIOUS
  <2>1. /\ path.gen \in Nat /\ m_filestream.gen \in Nat
        /\ path = [gen |-> path.gen, writable |-> path.writable, full |-> path.full]
        /\ m_filestream = [open |-> m_filestream.open, gen |-> m_filestream.gen,
                           failed |-> m_filestream.failed]
        /\ path.writable \in BOOLEAN /\ path.full \in BOOLEAN
        /\ m_filestream.open \in BOOLEAN /\ m_filestream.failed \in BOOLEAN
    BY DEF LogInv, LogTypes
  <2>2. path.gen \in 0..MaxAccidents /\ m_filestream.gen \in 0..MaxAccidents
    BY <2>1 DEF LogBounds
  <2>3. path \in [gen : 0..MaxAccidents, writable : BOOLEAN, full : BOOLEAN]
    BY <2>1, <2>2
  <2>4. m_filestream \in [open : BOOLEAN, gen : 0..MaxAccidents, failed : BOOLEAN]
    BY <2>1, <2>2
  <2>5. ASSUME NEW t \in Threads
        PROVE  /\ call[t].at \in {"none", "logger", "check", "reopen", "stamp", "test",
                                   "write"}
               /\ call[t].time \in 0..MaxTime
    <3>1. /\ call[t].at \in {"none", "logger", "check", "reopen", "stamp", "test", "write"}
          /\ call[t].time \in Nat /\ call[t].time <= clock
      BY DEF LogInv, LogTypes, Past, Calls
    <3>2. QED
      BY <3>1 DEF LogBounds
  <2>6. m_lastTime \in 0..MaxTime
    BY DEF LogInv, LogTypes, Past, LogBounds
  <2>7. QED
    BY <2>3, <2>4, <2>5, <2>6 DEF LogInv, LogTypes, LogBounds, Logging!TypeOK
<1>4. QED
  BY <1>1, <1>2, <1>3, LogInvariance, PTL DEF Logging!Spec

-----------------------------------------------------------------------------
(* Config.                                                                 *)

CONSTANTS Contents, Broken, Loggers, Root, GivenLevels, Targets, Daemon, MaxChanges

VARIABLES file, mtime, s_file2modifytime, m_val, registered, plain, m_cbs,
          m_loggers, crashed, changes, overlap, missed, own, given

Conf == INSTANCE Config

InSetValue(t) == call[t].at \in {"set", "listen", "fill", "store"}

ConfTypes ==
    /\ mtime \in Nat \ {0} /\ clock \in Nat \ {0}
    /\ DOMAIN call = Threads
    /\ \A t \in Threads : DOMAIN call[t] = {"at", "v", "todo", "gone"}
    /\ overlap \in BOOLEAN /\ missed \in BOOLEAN /\ own \in BOOLEAN

\* Calls of setValue() by loads of the file do not meet.
OneSets ==
    ~overlap /\ ~own =>
        \A t, u \in Threads : InSetValue(t) /\ InSetValue(u) => t = u

\* Once the time of the file is recorded a thread has still to read the file, or
\* what it says is in the call of setValue() under way, or else in the variables.
OnTheWay ==
    ~overlap /\ ~missed /\ ~own /\ s_file2modifytime = mtime /\ file # Broken =>
        \/ \E t \in Threads : call[t].at = "read"
        \/ /\ registered /\ "plain" \in file.fine => plain = file.plain
           /\ "logs" \in file.fine =>
                 /\ \A t \in Threads : InSetValue(t) => Conf!SameLogs(call[t].v, file.logs)
                 /\ (\A t \in Threads : ~InSetValue(t)) => Conf!SameLogs(m_val, file.logs)

ConfInv == ConfTypes /\ OneSets /\ OnTheWay

LEMMA SameTransitive ==
    ASSUME NEW u, NEW v, NEW w, Conf!SameLogs(u, v), Conf!SameLogs(u, w)
    PROVE  Conf!SameLogs(v, w)
  BY DEF Conf!SameLogs, Conf!Same

\* The clock, the file, the table of variables and the loggers.
LEMMA ConfOutsideKeeps ==
    ASSUME ConfInv,
           \/ Conf!Tick \/ Conf!Lookup \/ Conf!ClearListener
           \/ \E c \in Contents \cup {Broken} : Conf!Edit(c)
           \/ \E l \in Loggers : \/ Conf!UseLogger(l)
                                 \/ \E v \in GivenLevels : Conf!SetLevel(l, v)
                                 \/ \E a \in Targets : Conf!AddAppender(l, a)
    PROVE  ConfInv'
<1>1. CASE Conf!Tick
  <2>1. /\ clock' = clock + 1
        /\ UNCHANGED <<file, mtime, s_file2modifytime, m_val, registered, plain, call,
                       overlap, missed, own>>
    BY <1>1 DEF Conf!Tick, Conf!loaded, Conf!ghosts
  <2>2. QED
    BY <2>1 DEF ConfInv, ConfTypes, OneSets, OnTheWay, InSetValue, Conf!SameLogs, Conf!Same
<1>2. CASE \/ Conf!ClearListener
           \/ \E l \in Loggers : \/ Conf!UseLogger(l)
                                 \/ \E v \in GivenLevels : Conf!SetLevel(l, v)
                                 \/ \E a \in Targets : Conf!AddAppender(l, a)
  <2>1. UNCHANGED <<clock, file, mtime, s_file2modifytime, m_val, registered, plain, call,
                    overlap, missed, own>>
    BY <1>2 DEF Conf!ClearListener, Conf!UseLogger, Conf!SetLevel, Conf!AddAppender,
       Conf!Give, Conf!disk, Conf!loaded, Conf!ghosts
  <2>2. QED
    BY <2>1 DEF ConfInv, ConfTypes, OneSets, OnTheWay, InSetValue, Conf!SameLogs, Conf!Same
<1>3. CASE Conf!Lookup
  <2>1. /\ missed' = (missed \/ s_file2modifytime # 0)
        /\ UNCHANGED <<clock, file, mtime, s_file2modifytime, m_val, plain, call,
                       overlap, own>>
    BY <1>3 DEF Conf!Lookup, Conf!disk, Conf!loaded
  <2>2. ConfTypes' /\ OneSets'
    BY <2>1 DEF ConfInv, ConfTypes, OneSets, InSetValue
  <2>3. missed' \/ s_file2modifytime' # mtime'
    BY <2>1 DEF ConfInv, ConfTypes
  <2>4. QED
    BY <2>2, <2>3 DEF ConfInv, OnTheWay
<1>4. CASE \E c \in Contents \cup {Broken} : Conf!Edit(c)
  <2>1. /\ mtime' = clock
        /\ missed' = (missed \/ s_file2modifytime = clock)
        /\ UNCHANGED <<clock, s_file2modifytime, m_val, registered, plain, call,
                       overlap, own>>
    BY <1>4 DEF Conf!Edit, Conf!loaded
  <2>2. ConfTypes' /\ OneSets'
    BY <2>1 DEF ConfInv, ConfTypes, OneSets, InSetValue
  <2>3. missed' \/ s_file2modifytime' # mtime'
    BY <2>1 DEF ConfInv, ConfTypes
  <2>4. QED
    BY <2>2, <2>3 DEF ConfInv, OnTheWay
<1>5. QED
  BY <1>1, <1>2, <1>3, <1>4

\* LoadFromConfDir() and the program's own calls.
LEMMA LoadKeeps ==
    ASSUME ConfInv, NEW t \in Threads,
           \/ \E force \in BOOLEAN : Conf!SeeFile(t, force)
           \/ Conf!LoadFile(t)
           \/ \E c \in Contents : Conf!SetByProgram(t, c)
    PROVE  ConfInv'
<1>1. CASE \E force \in BOOLEAN : Conf!SeeFile(t, force)
  <2>1. PICK force \in BOOLEAN : Conf!SeeFile(t, force)
    BY <1>1
  <2>2. /\ missed' = (missed /\ ~force)
        /\ call' = [call EXCEPT ![t].at = "read"]
        /\ UNCHANGED <<clock, mtime, overlap, own>>
    BY <2>1 DEF Conf!SeeFile, Conf!disk
  <2>3. /\ DOMAIN call' = Threads
        /\ \A u \in Threads : DOMAIN call'[u] = {"at", "v", "todo", "gone"}
        /\ call'[t].at = "read"
        /\ \A u \in Threads \ {t} : call'[u] = call[u]
    BY <2>2 DEF ConfInv, ConfTypes
  <2>4. ConfTypes'
    BY <2>2, <2>3 DEF ConfInv, ConfTypes
  <2>5. OneSets'
    BY <2>2, <2>3 DEF ConfInv, OneSets, InSetValue
  <2>6. QED
    BY <2>3, <2>4, <2>5 DEF ConfInv, OnTheWay
<1>2. CASE Conf!LoadFile(t)
  <2>1. /\ call[t].at = "read"
        /\ IF file = Broken
           THEN /\ call' = [call EXCEPT ![t] = Conf!NoCall]
                /\ UNCHANGED plain
           ELSE /\ plain' = IF registered /\ "plain" \in file.fine THEN file.plain ELSE plain
                /\ call' = IF "logs" \in file.fine
                           THEN [call EXCEPT ![t].at = "set", ![t].v = file.logs]
                           ELSE [call EXCEPT ![t] = Conf!NoCall]
        /\ overlap' = (overlap \/ Conf!Others(t, Conf!Listening \cup {"set", "store"}))
        /\ UNCHANGED <<clock, file, mtime, s_file2modifytime, m_val, registered,
                       missed, own>>
    BY <1>2 DEF Conf!LoadFile, Conf!disk
  <2>2. ~overlap' => ~overlap /\ \A u \in Threads \ {t} : ~InSetValue(u)
    BY <2>1 DEF ConfInv, ConfTypes, Conf!Others, Conf!Listening, InSetValue
  <2>3. CASE file = Broken \/ "logs" \notin file.fine
    <3>1. /\ DOMAIN call' = Threads
          /\ \A u \in Threads : DOMAIN call'[u] = {"at", "v", "todo", "gone"}
          /\ call'[t].at = "none"
          /\ \A u \in Threads \ {t} : call'[u] = call[u]
      BY <2>1, <2>3 DEF ConfInv, ConfTypes, Conf!NoCall
    <3>2. ConfTypes'
      BY <2>1, <3>1 DEF ConfInv, ConfTypes, Conf!Others
    <3>3. OneSets'
      BY <2>1, <2>2, <3>1 DEF ConfInv, OneSets, InSetValue
    <3>5. file # Broken /\ registered /\ "plain" \in file.fine => plain' = file.plain
      BY <2>1
    <3>6. OnTheWay'
      BY <2>1, <2>3, <3>5 DEF OnTheWay
    <3>4. QED
      BY <3>2, <3>3, <3>6 DEF ConfInv
  <2>4. CASE file # Broken /\ "logs" \in file.fine
    <3>1. /\ DOMAIN call' = Threads
          /\ \A u \in Threads : DOMAIN call'[u] = {"at", "v", "todo", "gone"}
          /\ call'[t].at = "set" /\ call'[t].v = file.logs
          /\ \A u \in Threads \ {t} : call'[u] = call[u]
      BY <2>1, <2>4 DEF ConfInv, ConfTypes
    <3>2. ConfTypes'
      BY <2>1, <3>1 DEF ConfInv, ConfTypes, Conf!Others
    <3>3. OneSets'
      BY <2>1, <2>2, <3>1 DEF OneSets, InSetValue
    <3>4. Conf!SameLogs(file.logs, file.logs)
      BY DEF Conf!SameLogs, Conf!Same
    <3>5. ASSUME ~overlap'
          PROVE  /\ registered' /\ "plain" \in file'.fine => plain' = file'.plain
                 /\ \A u \in Threads : InSetValue(u)' => u = t
                 /\ InSetValue(t)'
      BY <2>1, <2>2, <2>4, <3>1, <3>5 DEF InSetValue
    <3>6. \A u \in Threads : u = t => Conf!SameLogs(call'[u].v, file'.logs)
      BY <2>1, <3>1, <3>4
    <3>7. OnTheWay'
      BY <3>5, <3>6 DEF OnTheWay, Conf!SameLogs, Conf!Same
    <3>8. QED
      BY <3>2, <3>3, <3>7 DEF ConfInv
  <2>5. QED
    BY <2>3, <2>4
<1>3. CASE \E c \in Contents : Conf!SetByProgram(t, c)
  <2>1. PICK c \in Contents : Conf!SetByProgram(t, c)
    BY <1>3
  <2>2. /\ own' = TRUE
        /\ call' = [call EXCEPT ![t].at = "set", ![t].v = c.logs]
        /\ UNCHANGED <<clock, mtime, overlap, missed>>
    BY <2>1 DEF Conf!SetByProgram, Conf!disk
  <2>3. ConfTypes'
    BY <2>2 DEF ConfInv, ConfTypes
  <2>4. QED
    BY <2>2, <2>3 DEF ConfInv, OneSets, OnTheWay
<1>4. QED
  BY <1>1, <1>2, <1>3

\* setValue().
LEMMA SetValueKeeps ==
    ASSUME ConfInv, NEW t \in Threads, Conf!SetValue(t)
    PROVE  ConfInv'
<1>1. /\ InSetValue(t)
      /\ UNCHANGED <<clock, file, mtime, s_file2modifytime, registered, plain, missed, own>>
  BY DEF Conf!SetValue, Conf!Compare, Conf!Listen, Conf!Define, Conf!Fill, Conf!Disable, Conf!Unlock, Conf!Store, InSetValue,
     Conf!disk, Conf!loaded, Conf!ghosts
<1>2. overlap' \in BOOLEAN /\ (~overlap' => ~overlap)
  BY DEF ConfInv, ConfTypes, Conf!SetValue, Conf!Compare, Conf!Listen, Conf!Define, Conf!Fill, Conf!Disable, Conf!Unlock,
     Conf!Store, Conf!Others, Conf!ghosts
<1>3. /\ DOMAIN call' = Threads
      /\ \A u \in Threads : DOMAIN call'[u] = {"at", "v", "todo", "gone"}
      /\ \A u \in Threads \ {t} : call'[u] = call[u]
  BY DEF ConfInv, ConfTypes, Conf!SetValue, Conf!Compare, Conf!Listen, Conf!Define, Conf!Fill, Conf!Disable, Conf!Unlock,
     Conf!Store, Conf!NoCall
<1>4. \/ /\ m_val' = m_val /\ call'[t].v = call[t].v /\ InSetValue(t)'
      \/ /\ m_val' = m_val /\ call'[t].at = "none"
         /\ Conf!SameLogs(call[t].v, m_val)
      \/ /\ m_val' = call[t].v /\ call'[t].at = "none"
  <2>1. CASE Conf!Compare(t)
    <3>1. CASE Conf!SameLogs(call[t].v, m_val)
      BY <2>1, <3>1 DEF ConfInv, ConfTypes, Conf!Compare, Conf!NoCall
    <3>2. CASE ~Conf!SameLogs(call[t].v, m_val)
      <4>1. PICK todo, gone :
               call' = [call EXCEPT ![t] = [@ EXCEPT !.at = "listen", !.todo = todo,
                                                     !.gone = gone]]
        BY <2>1, <3>2 DEF Conf!Compare
      <4>2. call'[t].at = "listen" /\ call'[t].v = call[t].v
        BY <4>1 DEF ConfInv, ConfTypes
      <4>3. QED
        BY <2>1, <4>2 DEF Conf!Compare, InSetValue
    <3>3. QED
      BY <3>1, <3>2
  <2>2. CASE Conf!Listen(t)
    <3>1. CASE Conf!Define(t)
      BY <3>1 DEF ConfInv, ConfTypes, Conf!Define, InSetValue
    <3>2. CASE Conf!Fill(t)
      BY <3>2 DEF ConfInv, ConfTypes, Conf!Fill, InSetValue
    <3>3. CASE Conf!Disable(t)
      BY <3>3 DEF ConfInv, ConfTypes, Conf!Disable, InSetValue
    <3>4. QED
      BY <2>2, <3>1, <3>2, <3>3 DEF Conf!Listen
  <2>3. CASE Conf!Unlock(t)
    BY <2>3 DEF ConfInv, ConfTypes, Conf!Unlock, InSetValue
  <2>4. CASE Conf!Store(t)
    BY <2>4 DEF ConfInv, ConfTypes, Conf!Store, Conf!NoCall
  <2>5. QED
    BY <2>1, <2>2, <2>3, <2>4 DEF Conf!SetValue
<1>5. ConfTypes'
  BY <1>1, <1>2, <1>3 DEF ConfInv, ConfTypes
<1>6. \A u \in Threads \ {t} : InSetValue(u)' <=> InSetValue(u)
  BY <1>3 DEF InSetValue
<1>7. OneSets'
  BY <1>1, <1>2, <1>6 DEF ConfInv, OneSets
<1>8. OnTheWay'
  <2>1. SUFFICES ASSUME ~overlap', ~missed', ~own', s_file2modifytime' = mtime',
                        file' # Broken,
                        \A u \in Threads : call'[u].at # "read"
                 PROVE  /\ registered' /\ "plain" \in file'.fine => plain' = file'.plain
                        /\ "logs" \in file'.fine =>
                              /\ \A u \in Threads : InSetValue(u)' =>
                                    Conf!SameLogs(call'[u].v, file'.logs)
                              /\ (\A u \in Threads : ~InSetValue(u)') =>
                                    Conf!SameLogs(m_val', file'.logs)
    BY DEF OnTheWay, Conf!SameLogs, Conf!Same
  <2>2. \A u \in Threads \ {t} : ~InSetValue(u)
    BY <1>1, <1>2, <2>1 DEF ConfInv, OneSets
  <2>3. \A u \in Threads : call[u].at # "read"
    BY <1>1, <1>3, <2>1 DEF InSetValue
  <2>4. /\ registered /\ "plain" \in file.fine => plain = file.plain
        /\ "logs" \in file.fine => Conf!SameLogs(call[t].v, file.logs)
    BY <1>1, <1>2, <2>1, <2>3 DEF ConfInv, OnTheWay
  <2>5. CASE m_val' = m_val /\ call'[t].v = call[t].v /\ InSetValue(t)'
    BY <1>1, <1>6, <2>2, <2>4, <2>5
  <2>6. CASE /\ m_val' = m_val /\ call'[t].at = "none"
             /\ Conf!SameLogs(call[t].v, m_val)
    <3>1. "logs" \in file'.fine => Conf!SameLogs(m_val', file'.logs)
      BY <1>1, <2>4, <2>6, SameTransitive
    <3>2. \A u \in Threads : ~InSetValue(u)'
      BY <1>6, <2>2, <2>6 DEF InSetValue
    <3>3. QED
      BY <1>1, <2>4, <3>1, <3>2
  <2>7. CASE m_val' = call[t].v /\ call'[t].at = "none"
    <3>1. \A u \in Threads : ~InSetValue(u)'
      BY <1>6, <2>2, <2>7 DEF InSetValue
    <3>2. QED
      BY <1>1, <2>4, <2>7, <3>1
  <2>8. QED
    BY <1>4, <2>5, <2>6, <2>7
<1>9. QED
  BY <1>5, <1>7, <1>8 DEF ConfInv

\* ValueFollowsFile, the half of LoggersFollowFile about LoadFromConfDir() and
\* setValue() (config.cc:98, config.h:429): although the time of the file is
\* recorded before it is read, and a value compared before it is stored, by any
\* number of threads, the variables are what the file says when no call is in
\* progress, except in the cases the property names.
THEOREM FileIsFollowed == Conf!Spec => []Conf!ValueFollowsFile
<1>1. Conf!Init => ConfInv
  <2> SUFFICES ASSUME Conf!Init PROVE ConfInv
    OBVIOUS
  <2>1. ConfTypes /\ \A t \in Threads : call[t].at = "none"
    <3>1. DOMAIN Conf!NoCall = {"at", "v", "todo", "gone"} /\ Conf!NoCall.at = "none"
      BY DEF Conf!NoCall
    <3>2. DOMAIN call = Threads /\ \A t \in Threads : call[t] = Conf!NoCall
      BY DEF Conf!Init
    <3>3. /\ mtime = 1 /\ clock = 1
          /\ overlap = FALSE /\ missed = FALSE /\ own = FALSE
      BY DEF Conf!Init
    <3>4. \A t \in Threads : DOMAIN call[t] = {"at", "v", "todo", "gone"} /\ call[t].at = "none"
      BY <3>1, <3>2
    <3>5. mtime \in Nat \ {0} /\ clock \in Nat \ {0}
      BY <3>3
    <3>6. overlap \in BOOLEAN /\ missed \in BOOLEAN /\ own \in BOOLEAN
      BY <3>3
    <3>7. QED
      BY <3>2, <3>4, <3>5, <3>6 DEF ConfTypes
  <2>2. s_file2modifytime # mtime
    BY DEF Conf!Init
  <2>3. QED
    BY <2>1, <2>2 DEF ConfInv, OneSets, OnTheWay, InSetValue
<1>2. ConfInv /\ [Conf!Next]_(Conf!vars) => ConfInv'
  <2> SUFFICES ASSUME ConfInv, [Conf!Next]_(Conf!vars) PROVE ConfInv'
    OBVIOUS
  <2>1. CASE UNCHANGED Conf!vars
    <3>1. UNCHANGED <<clock, file, mtime, s_file2modifytime, m_val, registered, plain,
                      call, overlap, missed, own>>
      BY <2>1 DEF Conf!vars, Conf!disk, Conf!loaded, Conf!ghosts
    <3>2. QED
      BY <3>1 DEF ConfInv, ConfTypes, OneSets, OnTheWay, InSetValue, Conf!SameLogs, Conf!Same
  <2>2. CASE Conf!Next
    BY <2>2, ConfOutsideKeeps, LoadKeeps, SetValueKeeps DEF Conf!Next
  <2>3. QED
    BY <2>1, <2>2
<1>3. ConfInv => Conf!ValueFollowsFile
  <2> SUFFICES ASSUME ConfInv, Conf!Quiet, ~overlap, ~missed, ~own,
                      s_file2modifytime = mtime, file # Broken
               PROVE  /\ "logs" \in file.fine => Conf!SameLogs(m_val, file.logs)
                      /\ registered /\ "plain" \in file.fine => plain = file.plain
    BY DEF Conf!ValueFollowsFile
  <2>1. \A t \in Threads : call[t].at = "none"
    BY DEF Conf!Quiet
  <2>2. QED
    BY <2>1 DEF ConfInv, OnTheWay, InSetValue
<1>4. QED
  BY <1>1, <1>2, <1>3, PTL DEF Conf!Spec

\* What YAML gives: a definition that is there has a level.
ContentsAssumption ==
    /\ Loggers \subseteq Int
    /\ \A c \in Contents :
          /\ c.logs \in [Loggers -> Conf!Definitions] /\ c.plain \in Nat
          /\ \A l \in Loggers : c.logs[l] = Conf!NoDef \/ c.logs[l].level # -1
    /\ GivenLevels \subseteq Nat

ConfCalls == [at : {"none", "read", "set", "listen", "fill", "store"},
              v : [Loggers -> Conf!Definitions],
              todo : SUBSET Loggers, gone : SUBSET Loggers]

Values == {c.logs : c \in Contents}

LoggerTypes ==
    /\ file \in Contents \cup {Broken}
    /\ call \in [Threads -> ConfCalls]
    /\ m_val \in Values \cup {Conf!NoLogs}
    /\ m_loggers \in [Loggers -> Conf!Definitions]
    /\ given \in [Loggers -> Conf!Definitions]
    /\ \A t \in Threads : InSetValue(t) => call[t].v \in Values
    /\ m_cbs \in BOOLEAN /\ crashed \in BOOLEAN /\ overlap \in BOOLEAN

InListen(t) == call[t].at \in {"listen", "fill", "store"}

\* Listeners run one at a time, as long as no overlap has been noticed.
OneListens ==
    ~overlap => \A t, u \in Threads : InListen(t) /\ InListen(u) => t = u

\* A logger that exists has a level, and one that does not is given what it will
\* be made with.
Made(l) == \/ m_loggers[l] = Conf!NoLogger /\ given[l] = Conf!NewLogger(l)
           \/ m_loggers[l].level \in Nat

\* A logger, as far as there is one or should be, follows the definition d.
Kept(l, d) ==
    m_loggers[l] # Conf!NoLogger \/ d # Conf!NoDef =>
        Conf!Follows(m_loggers[l], l, d, given[l])

\* A logger that has the level of its definition, but not yet the appenders.
Cleared(l, d) ==
    /\ m_loggers[l].level = IF given[l].level # -1 THEN given[l].level ELSE d.level
    /\ m_loggers[l].appenders = given[l].appenders

\* How far the listener is with logger l in the call of t.
Half(t, l) ==
    /\ l \in call[t].todo => call[t].v[l] # Conf!NoDef
    /\ call[t].at = "fill" /\ Conf!IsFirst(l, call[t].todo) => Cleared(l, call[t].v[l])
    /\ l \in call[t].gone => call[t].v[l] = Conf!NoDef /\ m_val[l] # Conf!NoDef
    /\ l \notin call[t].todo \cup call[t].gone => Kept(l, call[t].v[l])

\* A logger that the listener is through with follows the value that is being
\* set, and the others are among those it has still to do.
InHand ==
    ~overlap /\ m_cbs /\ ~crashed =>
        /\ \A l \in Loggers : Made(l)
        /\ \A t \in Threads :
              /\ InListen(t) => \A l \in Loggers : Half(t, l)
              /\ call[t].at = "store" => call[t].todo = {} /\ call[t].gone = {}
        /\ (\A t \in Threads : ~InListen(t)) => \A l \in Loggers : Kept(l, m_val[l])

LoggerInv == LoggerTypes /\ OneListens /\ InHand

LEMMA NoCallIsCall == Conf!NoCall \in ConfCalls /\ Conf!NoCall.at = "none"
  BY DEF Conf!NoCall, Conf!NoLogs, Conf!NoDef, Conf!NoAppenders, Conf!Definitions,
     ConfCalls

LEMMA LevelOfValue ==
    ASSUME ContentsAssumption, NEW v \in Values \cup {Conf!NoLogs}, NEW l \in Loggers
    PROVE  /\ v \in [Loggers -> Conf!Definitions]
           /\ v[l] # Conf!NoDef => v[l].level # -1
<1>1. Conf!NoDef \in Conf!Definitions
  BY DEF Conf!NoDef, Conf!NoAppenders, Conf!Definitions
<1>2. QED
  BY <1>1 DEF ContentsAssumption, Values, Conf!NoLogs

\* A logger keeps following when the definition changes in its appenders alone.
LEMMA FollowsSame ==
    ASSUME NEW l \in Loggers, NEW d, NEW e, Kept(l, d),
           Conf!Same(d, e), d # Conf!NoDef, e # Conf!NoDef
    PROVE  Kept(l, e)
  BY DEF Kept, Conf!Follows, Conf!Same

\* What a logger is made with, and appenders added to appenders.
LEMMA NewIsDefinition ==
    ASSUME NEW l
    PROVE  /\ Conf!NewLogger(l) \in Conf!Definitions /\ Conf!NewLogger(l).level = 600
           /\ Conf!NoGifts \in Conf!Definitions /\ Conf!NoGifts.level = -1
           /\ Conf!NoGifts.appenders = Conf!NoAppenders
           /\ Conf!NoLogger.level = -1 /\ Conf!NoAppenders \in [Targets -> Nat]
  BY DEF Conf!NewLogger, Conf!INFO, Conf!One, Conf!NoGifts, Conf!NoLogger, Conf!NoDef,
     Conf!NoAppenders, Conf!Definitions

LEMMA PlusIs ==
    ASSUME NEW x \in [Targets -> Nat], NEW y \in [Targets -> Nat]
    PROVE  /\ Conf!Plus(x, y) \in [Targets -> Nat] /\ Conf!Plus(x, y) = Conf!Plus(y, x)
           /\ Conf!Plus(x, Conf!NoAppenders) = x
           /\ \A z \in [Targets -> Nat] :
                 Conf!Plus(Conf!Plus(x, y), z) = Conf!Plus(x, Conf!Plus(y, z))
  BY DEF Conf!Plus, Conf!NoAppenders

LEMMA OneIs ==
    ASSUME NEW a
    PROVE  Conf!One(a) \in [Targets -> Nat]
  BY DEF Conf!One

LEMMA ShownIs ==
    ASSUME NEW d \in Conf!Definitions
    PROVE  Conf!Shown(d) \in [Targets -> Nat]
  BY DEF Conf!Shown, Conf!Definitions

\* The calls, the value and the loggers stay.
LEMMA LoggersStay ==
    ASSUME LoggerInv, UNCHANGED <<call, m_val, m_loggers, crashed, overlap, given>>,
           file' \in Contents \cup {Broken}, m_cbs' = m_cbs \/ m_cbs' = FALSE
    PROVE  LoggerInv'
<1>1. LoggerTypes'
  BY DEF LoggerInv, LoggerTypes, InSetValue
<1>2. OneListens'
  BY DEF LoggerInv, OneListens, InListen
<1>3. InHand'
  <2>1. CASE m_cbs' = m_cbs
    BY <2>1 DEF LoggerInv, InHand, Half, Made, Kept, Cleared, InListen, Conf!Follows
  <2>2. CASE m_cbs' = FALSE
    BY <2>2 DEF InHand
  <2>3. QED
    BY <2>1, <2>2
<1>4. QED
  BY <1>1, <1>2, <1>3 DEF LoggerInv

\* What the program makes of a logger keeps following what the logger followed.
IsGift(l, lg, g) ==
    /\ Made(l) => lg.level \in Nat
    /\ \A d \in Conf!Definitions :
          (d # Conf!NoDef => d.level # -1) /\ Made(l) =>
             /\ m_loggers[l] # Conf!NoLogger /\ Cleared(l, d) =>
                   /\ lg.level = IF g.level # -1 THEN g.level ELSE d.level
                   /\ lg.appenders = g.appenders
             /\ Kept(l, d) => Conf!Follows(lg, l, d, g)

LEMMA GiftKeeps ==
    ASSUME ContentsAssumption, LoggerInv, ~crashed, NEW l \in Loggers,
           NEW lg \in Conf!Definitions, NEW g \in Conf!Definitions, IsGift(l, lg, g),
           m_loggers' = [m_loggers EXCEPT ![l] = lg], given' = [given EXCEPT ![l] = g],
           UNCHANGED <<file, call, m_val, m_cbs, crashed, overlap>>
    PROVE  LoggerInv'
<1>1. /\ m_loggers' \in [Loggers -> Conf!Definitions] /\ given' \in [Loggers -> Conf!Definitions]
      /\ m_loggers'[l] = lg /\ given'[l] = g
      /\ \A k \in Loggers \ {l} : m_loggers'[k] = m_loggers[k] /\ given'[k] = given[k]
  BY DEF LoggerInv, LoggerTypes
<1>2. LoggerTypes' /\ OneListens'
  BY <1>1 DEF LoggerInv, LoggerTypes, OneListens, InSetValue, InListen
<1>3. SUFFICES ASSUME ~overlap, m_cbs
      PROVE  /\ \A k \in Loggers : Made(k)'
             /\ \A t \in Threads : InListen(t) => \A k \in Loggers : Half(t, k)'
             /\ (\A t \in Threads : ~InListen(t)) =>
                   \A k \in Loggers : Kept(k, m_val[k])'
  BY <1>2 DEF LoggerInv, InHand, InListen
<1>4. \A k \in Loggers : Made(k)
  BY <1>3 DEF LoggerInv, InHand
<1>5. ASSUME NEW k \in Loggers PROVE Made(k)'
  BY <1>1, <1>4 DEF Made, IsGift, Conf!NewLogger
<1>6. ASSUME NEW k \in Loggers, NEW d \in Conf!Definitions, Kept(k, d), d # Conf!NoDef => d.level # -1
      PROVE  Conf!Follows(m_loggers'[k], k, d, given'[k]) \/ (m_loggers'[k] = Conf!NoLogger /\ d = Conf!NoDef)
  <2>1. CASE k = l
    BY <1>1, <1>4, <1>6, <2>1 DEF IsGift
  <2>2. CASE k # l
    BY <1>1, <1>6, <2>2 DEF Kept
  <2>3. QED
    BY <2>1, <2>2
<1>7. ASSUME NEW t \in Threads, InListen(t), NEW k \in Loggers  PROVE Half(t, k)'
  <2> DEFINE d == call[t].v[k]
  <2>1. Half(t, k)
    BY <1>3, <1>7 DEF LoggerInv, InHand
  <2>2. call[t].v \in Values
    BY <1>7 DEF LoggerInv, LoggerTypes, InListen, InSetValue
  <2>3. d \in Conf!Definitions /\ (d # Conf!NoDef => d.level # -1)
    BY <2>2, LevelOfValue
  <2>4. ASSUME call[t].at = "fill", Conf!IsFirst(k, call[t].todo)
        PROVE  /\ m_loggers'[k].level = IF given'[k].level # -1 THEN given'[k].level ELSE d.level
               /\ m_loggers'[k].appenders = given'[k].appenders
    <3>1. Cleared(k, d) /\ d # Conf!NoDef
      BY <2>1, <2>4 DEF Half, Conf!IsFirst
    <3>2. CASE k = l
      <4>1. m_loggers[l] # Conf!NoLogger
        BY <1>4, <2>3, <3>1, <3>2, NewIsDefinition DEF Made, Cleared
      <4>2. QED
        BY <1>1, <1>4, <2>3, <3>1, <3>2, <4>1 DEF IsGift
    <3>3. CASE k # l
      BY <1>1, <3>1, <3>3 DEF Cleared
    <3>4. QED
      BY <3>2, <3>3
  <2>5. k \notin call[t].todo \cup call[t].gone =>
           \/ Conf!Follows(m_loggers'[k], k, d, given'[k])
           \/ m_loggers'[k] = Conf!NoLogger /\ d = Conf!NoDef
    BY <1>6, <2>1, <2>3 DEF Half
  <2>6. call' = call /\ m_val' = m_val
    OBVIOUS
  <2>7. QED
    BY <2>1, <2>4, <2>5, <2>6 DEF Half, Kept, Cleared, Conf!Follows
<1>8. ASSUME \A t \in Threads : ~InListen(t), NEW k \in Loggers
      PROVE  Kept(k, m_val[k])'
  <2>1. Kept(k, m_val[k])
    BY <1>3, <1>8 DEF LoggerInv, InHand
  <2>2. m_val[k] \in Conf!Definitions /\ (m_val[k] # Conf!NoDef => m_val[k].level # -1)
    BY LevelOfValue DEF LoggerInv, LoggerTypes
  <2>3. QED
    BY <1>6, <2>1, <2>2 DEF Kept, Conf!Follows
<1>9. QED
  BY <1>5, <1>7, <1>8

LEMMA LoggerOutsideKeeps ==
    ASSUME ContentsAssumption, LoggerInv, ~crashed,
           \/ Conf!Tick \/ Conf!Lookup \/ Conf!ClearListener
           \/ \E c \in Contents \cup {Broken} : Conf!Edit(c)
           \/ \E l \in Loggers : \/ Conf!UseLogger(l)
                                 \/ \E v \in GivenLevels : Conf!SetLevel(l, v)
                                 \/ \E a \in Targets : Conf!AddAppender(l, a)
    PROVE  LoggerInv'
<1>1. CASE \/ Conf!Tick \/ Conf!Lookup \/ Conf!ClearListener
           \/ \E c \in Contents \cup {Broken} : Conf!Edit(c)
  <2>1. /\ UNCHANGED <<call, m_val, m_loggers, crashed, overlap, given>>
        /\ file' \in Contents \cup {Broken}
        /\ m_cbs' = m_cbs \/ m_cbs' = FALSE
    BY <1>1 DEF Conf!Tick, Conf!Lookup, Conf!ClearListener, Conf!Edit, Conf!disk,
       Conf!ghosts, LoggerInv, LoggerTypes
  <2>2. QED
    BY <2>1, LoggersStay
<1>2. ASSUME NEW l \in Loggers, Conf!UseLogger(l)  PROVE LoggerInv'
  <2> DEFINE new == Conf!NewLogger(l)
  <2>1. /\ m_loggers' = [m_loggers EXCEPT ![l] = Conf!GetLogger(l)]
        /\ m_loggers[l] = Conf!NoLogger
        /\ UNCHANGED <<file, call, m_val, m_cbs, crashed, overlap, given>>
    BY <1>2 DEF Conf!UseLogger, Conf!GetLogger, Conf!disk, Conf!ghosts, LoggerInv,
       LoggerTypes
  <2>2. m_loggers' = [m_loggers EXCEPT ![l] = new]
    BY <2>1 DEF Conf!GetLogger
  <2>3. given[l] \in Conf!Definitions /\ given' = [given EXCEPT ![l] = given[l]]
    BY <2>1 DEF LoggerInv, LoggerTypes
  <2>4. new \in Conf!Definitions /\ new.level = 600
    BY NewIsDefinition
  <2>5. ASSUME NEW d \in Conf!Definitions, d # Conf!NoDef => d.level # -1, Made(l)
        PROVE  Kept(l, d) => Conf!Follows(new, l, d, given[l])
    <3>1. given[l] = new
      BY <2>1, <2>5, NewIsDefinition DEF Made
    <3>2. CASE d = Conf!NoDef
      BY <2>4, <3>1, <3>2, NewIsDefinition DEF Conf!Follows
    <3>3. CASE d # Conf!NoDef
      BY <2>1, <2>4, <3>1, <3>3, NewIsDefinition DEF Kept, Conf!Follows
    <3>4. QED
      BY <3>2, <3>3
  <2> DEFINE g == given[l]
  <2> HIDE DEF new, g
  <2>6. IsGift(l, new, g)
    BY <2>1, <2>4, <2>5 DEF IsGift, g
  <2>7. g \in Conf!Definitions /\ given' = [given EXCEPT ![l] = g]
    BY <2>3 DEF g
  <2>8. UNCHANGED <<file, call, m_val, m_cbs, crashed, overlap>>
    BY <2>1
  <2>9. QED
    BY Zenon, <2>2, <2>4, <2>6, <2>7, <2>8, GiftKeeps
<1>3. ASSUME NEW l \in Loggers, NEW v \in GivenLevels, Conf!SetLevel(l, v)  PROVE LoggerInv'
  <2> DEFINE lg == [m_loggers[l] EXCEPT !.level = v]
             g == [given[l] EXCEPT !.level = v]
  <2>1. /\ m_loggers' = [m_loggers EXCEPT ![l] = lg] /\ given' = [given EXCEPT ![l] = g]
        /\ UNCHANGED <<file, call, m_val, m_cbs, crashed, overlap>>
    BY <1>3 DEF Conf!SetLevel, Conf!Give, Conf!disk
  <2>2. v \in Nat /\ m_loggers[l] \in Conf!Definitions /\ given[l] \in Conf!Definitions
    BY DEF ContentsAssumption, LoggerInv, LoggerTypes
  <2>3. /\ lg \in Conf!Definitions /\ lg.level = v /\ lg.appenders = m_loggers[l].appenders
        /\ g \in Conf!Definitions /\ g.level = v /\ g.appenders = given[l].appenders
    BY <2>2 DEF Conf!Definitions
  <2>4. m_loggers[l] # Conf!NoLogger
    BY <1>3 DEF Conf!SetLevel, Conf!Give
  <2> HIDE DEF lg, g
  <2>5. ASSUME NEW d \in Conf!Definitions
        PROVE  /\ Cleared(l, d) => /\ lg.level = IF g.level # -1 THEN g.level ELSE d.level
                                   /\ lg.appenders = g.appenders
               /\ Kept(l, d) => Conf!Follows(lg, l, d, g)
    BY <2>2, <2>3, <2>4, NewIsDefinition DEF Cleared, Kept, Conf!Follows
  <2>6. IsGift(l, lg, g)
    BY <2>2, <2>3, <2>5 DEF IsGift
  <2>7. QED
    BY Zenon, <2>1, <2>3, <2>6, GiftKeeps
<1>4. ASSUME NEW l \in Loggers, NEW a \in Targets, Conf!AddAppender(l, a)  PROVE LoggerInv'
  <2> DEFINE o == Conf!One(a)
             lg == [m_loggers[l] EXCEPT !.appenders = Conf!Plus(@, o)]
             g == [given[l] EXCEPT !.appenders = Conf!Plus(@, o)]
  <2>1. /\ m_loggers' = [m_loggers EXCEPT ![l] = lg] /\ given' = [given EXCEPT ![l] = g]
        /\ UNCHANGED <<file, call, m_val, m_cbs, crashed, overlap>>
    BY <1>4 DEF Conf!AddAppender, Conf!Give, Conf!disk
  <2>2. m_loggers[l] \in Conf!Definitions /\ given[l] \in Conf!Definitions /\ o \in [Targets -> Nat]
    BY OneIs DEF LoggerInv, LoggerTypes
  <2>3. /\ m_loggers[l].appenders \in [Targets -> Nat] /\ given[l].appenders \in [Targets -> Nat]
    BY <2>2 DEF Conf!Definitions
  <2>4. m_loggers[l] # Conf!NoLogger
    BY <1>4 DEF Conf!AddAppender, Conf!Give
  <2> HIDE DEF o
  <2>5. /\ lg \in Conf!Definitions /\ lg.level = m_loggers[l].level
        /\ lg.appenders = Conf!Plus(m_loggers[l].appenders, o)
        /\ g \in Conf!Definitions /\ g.level = given[l].level
        /\ g.appenders = Conf!Plus(given[l].appenders, o)
    BY <2>2, <2>3, PlusIs DEF Conf!Definitions
  <2> HIDE DEF lg, g
  <2>6. ASSUME NEW d \in Conf!Definitions
        PROVE  /\ Cleared(l, d) => /\ lg.level = IF g.level # -1 THEN g.level ELSE d.level
                                   /\ lg.appenders = g.appenders
               /\ Kept(l, d) => Conf!Follows(lg, l, d, g)
    <3>1. Cleared(l, d) => /\ lg.level = IF g.level # -1 THEN g.level ELSE d.level
                           /\ lg.appenders = g.appenders
      BY <2>5 DEF Cleared
    <3>2. SUFFICES ASSUME Kept(l, d) PROVE Conf!Follows(lg, l, d, g)
      BY <3>1
    <3>3. Conf!Follows(m_loggers[l], l, d, given[l])
      BY <2>4, <3>2 DEF Kept
    <3>4. CASE d = Conf!NoDef
      BY <2>5, <3>3, <3>4 DEF Conf!Follows
    <3>5. CASE d # Conf!NoDef
      <4>1. PICK c \in Contents : /\ Conf!Same(c.logs[l], d)
                                  /\ m_loggers[l].appenders = Conf!Plus(Conf!Shown(c.logs[l]), given[l].appenders)
        BY <3>3, <3>5 DEF Conf!Follows
      <4>2. c.logs[l] \in Conf!Definitions
        BY DEF ContentsAssumption
      <4>3. Conf!Shown(c.logs[l]) \in [Targets -> Nat]
        BY <4>2, ShownIs
      <4>4. lg.appenders = Conf!Plus(Conf!Shown(c.logs[l]), g.appenders)
        BY <2>2, <2>3, <2>5, <4>1, <4>3, PlusIs
      <4>5. QED
        BY <2>5, <3>3, <3>5, <4>1, <4>4 DEF Conf!Follows
    <3>6. QED
      BY <3>4, <3>5
  <2>7. ASSUME Made(l)  PROVE m_loggers[l].level \in Nat
    BY <2>4, <2>7 DEF Made
  <2>8. IsGift(l, lg, g)
    BY <2>5, <2>6, <2>7 DEF IsGift
  <2>9. QED
    BY Zenon, <2>1, <2>5, <2>8, GiftKeeps
<1>5. QED
  BY <1>1, <1>2, <1>3, <1>4

\* A call goes on without coming into the listener.
LEMMA OutsideListener ==
    ASSUME LoggerInv, NEW t \in Threads, ~InListen(t),
           UNCHANGED <<file, m_val, m_loggers, m_cbs, crashed, given>>,
           overlap' \in BOOLEAN, ~overlap' => ~overlap,
           call' \in [Threads -> ConfCalls],
           \A u \in Threads \ {t} : call'[u] = call[u],
           call'[t].at \in {"none", "read", "set"},
           call'[t].at = "set" => call'[t].v \in Values
    PROVE  LoggerInv'
<1>1. \A u \in Threads : InListen(u)' <=> InListen(u)
  BY DEF InListen
<1>2. LoggerTypes'
  BY DEF LoggerInv, LoggerTypes, InSetValue
<1>3. OneListens'
  BY <1>1 DEF LoggerInv, OneListens
<1>4. \A u \in Threads : InListen(u) => call'[u] = call[u]
  OBVIOUS
<1>5. InHand'
  <2>1. SUFFICES ASSUME ~overlap, m_cbs, ~crashed
        PROVE  /\ \A l \in Loggers : Made(l)'
               /\ \A u \in Threads :
                    /\ InListen(u)' => \A l \in Loggers : Half(u, l)'
                    /\ call'[u].at = "store" => call'[u].todo = {} /\ call'[u].gone = {}
               /\ (\A u \in Threads : ~InListen(u)') =>
                    \A l \in Loggers : Kept(l, m_val[l])'
    BY DEF InHand
  <2>2. ASSUME NEW u \in Threads, InListen(u)', NEW l \in Loggers  PROVE Half(u, l)'
    BY <1>1, <1>4, <2>1, <2>2 DEF LoggerInv, InHand, Half, Kept, Cleared, Conf!Follows
  <2>3. ASSUME NEW u \in Threads, call'[u].at = "store"
        PROVE  call'[u].todo = {} /\ call'[u].gone = {}
    BY <2>1, <2>3 DEF LoggerInv, InHand
  <2>4. \A l \in Loggers : Made(l)'
    BY <2>1 DEF LoggerInv, InHand, Made, Conf!NewLogger
  <2>5. ASSUME \A u \in Threads : ~InListen(u)', NEW l \in Loggers
        PROVE  Kept(l, m_val[l])'
    BY <1>1, <2>1, <2>5 DEF LoggerInv, InHand, Kept, Conf!Follows
  <2>6. QED
    BY <2>2, <2>3, <2>4, <2>5
<1>6. QED
  BY <1>2, <1>3, <1>5 DEF LoggerInv

LEMMA LoggerLoadKeeps ==
    ASSUME ContentsAssumption, LoggerInv, NEW t \in Threads,
           \/ \E force \in BOOLEAN : Conf!SeeFile(t, force)
           \/ Conf!LoadFile(t)
           \/ \E c \in Contents : Conf!SetByProgram(t, c)
    PROVE  LoggerInv'
<1>1. /\ UNCHANGED <<file, m_val, m_loggers, m_cbs, crashed, given>>
      /\ overlap' \in BOOLEAN /\ (~overlap' => ~overlap)
  BY DEF Conf!SeeFile, Conf!LoadFile, Conf!SetByProgram, Conf!disk, Conf!Others,
     LoggerInv, LoggerTypes
<1>2. ~InListen(t)
  BY DEF Conf!SeeFile, Conf!LoadFile, Conf!SetByProgram, InListen
<1>3. /\ call' \in [Threads -> ConfCalls]
      /\ \A u \in Threads \ {t} : call'[u] = call[u]
      /\ call'[t].at \in {"none", "read", "set"}
      /\ call'[t].at = "set" => call'[t].v \in Values
  <2>1. CASE \E force \in BOOLEAN : Conf!SeeFile(t, force)
    <3>1. call' = [call EXCEPT ![t].at = "read"]
      BY <2>1 DEF Conf!SeeFile
    <3>2. QED
      BY <3>1 DEF LoggerInv, LoggerTypes, ConfCalls
  <2>2. ASSUME NEW v \in Values, call' = [call EXCEPT ![t].at = "set", ![t].v = v]
        PROVE  /\ call' \in [Threads -> ConfCalls]
               /\ \A u \in Threads \ {t} : call'[u] = call[u]
               /\ call'[t].at = "set" /\ call'[t].v \in Values
    <3>1. v \in [Loggers -> Conf!Definitions]
      BY DEF Values, ContentsAssumption
    <3>2. QED
      BY <2>2, <3>1 DEF LoggerInv, LoggerTypes, ConfCalls
  <2>3. CASE Conf!LoadFile(t)
    <3>1. CASE file = Broken \/ "logs" \notin file.fine
      <4>1. call' = [call EXCEPT ![t] = Conf!NoCall]
        BY <2>3, <3>1 DEF Conf!LoadFile
      <4>2. QED
        BY <4>1, NoCallIsCall DEF LoggerInv, LoggerTypes
    <3>2. CASE file # Broken /\ "logs" \in file.fine
      <4>1. file.logs \in Values
        BY <3>2 DEF LoggerInv, LoggerTypes, Values
      <4>2. call' = [call EXCEPT ![t].at = "set", ![t].v = file.logs]
        BY <2>3, <3>2 DEF Conf!LoadFile
      <4>3. QED
        BY <2>2, <4>1, <4>2
    <3>3. QED
      BY <3>1, <3>2
  <2>4. CASE \E c \in Contents : Conf!SetByProgram(t, c)
    <3>1. PICK c \in Contents : call' = [call EXCEPT ![t].at = "set", ![t].v = c.logs]
      BY <2>4 DEF Conf!SetByProgram
    <3>2. c.logs \in Values
      BY DEF Values
    <3>3. QED
      BY <2>2, <3>1, <3>2
  <2>5. QED
    BY <2>1, <2>3, <2>4
<1>4. QED
  BY <1>1, <1>2, <1>3, OutsideListener

\* The comparison: what the listener does not take up, because definition and
\* value have the same level, goes on following.
LEMMA CompareKeeps ==
    ASSUME ContentsAssumption, LoggerInv, NEW t \in Threads, ~crashed, Conf!Compare(t)
    PROVE  LoggerInv'
<1>1. /\ UNCHANGED <<file, m_val, m_loggers, m_cbs, crashed, given>>
      /\ call[t].at = "set" /\ ~InListen(t)
  BY DEF Conf!Compare, Conf!disk, InListen
<1>2. CASE Conf!SameLogs(call[t].v, m_val)
  <2>1. call' = [call EXCEPT ![t] = Conf!NoCall] /\ overlap' = overlap
    BY <1>2 DEF Conf!Compare
  <2>2. /\ call' \in [Threads -> ConfCalls]
        /\ \A u \in Threads \ {t} : call'[u] = call[u]
        /\ call'[t].at = "none"
    BY <2>1, NoCallIsCall DEF LoggerInv, LoggerTypes
  <2>3. overlap' \in BOOLEAN
    BY <2>1 DEF LoggerInv, LoggerTypes
  <2>4. QED
    BY <1>1, <2>1, <2>2, <2>3, OutsideListener
<1>3. CASE ~Conf!SameLogs(call[t].v, m_val)
  <2> DEFINE v == call[t].v
             todo == IF m_cbs THEN Conf!Defined(m_val, v) ELSE {}
             gone == IF m_cbs THEN Conf!Disabled(m_val, v) ELSE {}
  <2>1. /\ call' = [call EXCEPT ![t] = [@ EXCEPT !.at = "listen", !.todo = todo,
                                                 !.gone = gone]]
        /\ overlap' = (overlap \/ Conf!Others(t, Conf!Listening \cup {"store"}))
    BY <1>3 DEF Conf!Compare
  <2>2. todo \subseteq Loggers /\ gone \subseteq Loggers
    BY DEF Conf!Defined, Conf!Disabled
  <2>3. v \in Values
    BY <1>1 DEF LoggerInv, LoggerTypes, InSetValue
  <2> HIDE DEF todo, gone
  <2>4. /\ call' \in [Threads -> ConfCalls]
        /\ \A u \in Threads \ {t} : call'[u] = call[u]
        /\ call'[t].at = "listen" /\ call'[t].v = v
        /\ call'[t].todo = todo /\ call'[t].gone = gone
    BY <2>1, <2>2 DEF LoggerInv, LoggerTypes, ConfCalls
  <2>5. ~overlap' => ~overlap /\ \A u \in Threads : ~InListen(u)
    BY <1>1, <2>1 DEF Conf!Others, Conf!Listening, InListen
  <2>6. LoggerTypes'
    BY <1>1, <2>1, <2>3, <2>4 DEF LoggerInv, LoggerTypes, InSetValue
  <2>7. OneListens'
    BY <2>4, <2>5 DEF OneListens, InListen
  <2>8. ASSUME ~overlap', m_cbs, NEW l \in Loggers  PROVE Half(t, l)'
    <3>1. Kept(l, m_val[l])
      BY <2>5, <2>8 DEF LoggerInv, InHand
    <3>2. /\ l \in todo <=> v[l] # Conf!NoDef /\ ~Conf!Same(v[l], m_val[l])
          /\ l \in gone <=> v[l] = Conf!NoDef /\ m_val[l] # Conf!NoDef
      BY <2>8 DEF todo, gone, Conf!Defined, Conf!Disabled
    <3>3. v[l] # Conf!NoDef => v[l].level # -1
      BY <2>3, LevelOfValue
    <3>4. ASSUME l \notin todo \cup gone  PROVE Kept(l, v[l])
      <4>1. CASE v[l] = Conf!NoDef
        BY <3>1, <3>2, <3>4, <4>1
      <4>2. CASE v[l] # Conf!NoDef
        <5>1. Conf!Same(m_val[l], v[l]) /\ m_val[l] # Conf!NoDef
          BY <3>2, <3>3, <3>4, <4>2 DEF Conf!Same, Conf!NoDef
        <5>2. QED
          BY <3>1, <4>2, <5>1, FollowsSame
      <4>3. QED
        BY <4>1, <4>2
    <3>5. QED
      BY <1>1, <2>4, <3>2, <3>4 DEF Half, Kept, Cleared, Conf!Follows
  <2>9. InHand'
    <3>1. SUFFICES ASSUME ~overlap', m_cbs
          PROVE  /\ \A l \in Loggers : Made(l)'
                 /\ \A u \in Threads :
                      /\ InListen(u)' => \A l \in Loggers : Half(u, l)'
                      /\ call'[u].at = "store" => call'[u].todo = {} /\ call'[u].gone = {}
                 /\ InListen(t)'
      BY <1>1 DEF InHand
    <3>2. \A u \in Threads : u # t => ~InListen(u)' /\ call'[u].at # "store"
      BY <2>4, <2>5, <3>1 DEF InListen
    <3>3. \A l \in Loggers : Made(l)'
      BY <1>1, <2>5, <3>1 DEF LoggerInv, InHand, Made, Conf!NewLogger
    <3>4. QED
      BY <2>4, <2>8, <3>1, <3>2, <3>3 DEF InListen
  <2>10. QED
    BY <2>6, <2>7, <2>9 DEF LoggerInv
<1>4. QED
  BY <1>2, <1>3

\* What is common to the steps inside the listener.
LEMMA InsideListener ==
    ASSUME LoggerInv, NEW t \in Threads, InListen(t), InListen(t)',
           UNCHANGED <<file, m_val, m_cbs, crashed, overlap>>,
           m_loggers' \in [Loggers -> Conf!Definitions], given' \in [Loggers -> Conf!Definitions],
           call' \in [Threads -> ConfCalls],
           \A u \in Threads \ {t} : call'[u] = call[u],
           call'[t].v = call[t].v,
           call'[t].at = "store" => call'[t].todo = {} /\ call'[t].gone = {},
           ~overlap /\ m_cbs /\ ~crashed => \A l \in Loggers : Half(t, l)' /\ Made(l)'
    PROVE  LoggerInv'
<1>1. LoggerTypes'
  BY DEF LoggerInv, LoggerTypes, InSetValue, InListen
<1>2. OneListens'
  BY DEF LoggerInv, OneListens, InListen
<1>3. InHand'
  <2>1. SUFFICES ASSUME ~overlap, m_cbs, ~crashed
        PROVE  (\A l \in Loggers : Made(l)') /\
               \A u \in Threads :
                   /\ InListen(u)' => \A l \in Loggers : Half(u, l)'
                   /\ call'[u].at = "store" => call'[u].todo = {} /\ call'[u].gone = {}
    BY DEF InHand
  <2>2. \A u \in Threads : u # t => ~InListen(u)' /\ call'[u].at # "store"
    BY <2>1 DEF LoggerInv, OneListens, InListen
  <2>3. QED
    BY <2>1, <2>2
<1>4. QED
  BY <1>1, <1>2, <1>3 DEF LoggerInv

LEMMA DefineKeeps ==
    ASSUME ContentsAssumption, LoggerInv, NEW t \in Threads, ~crashed, Conf!Define(t)
    PROVE  LoggerInv'
<1>1. /\ UNCHANGED <<file, m_val, m_cbs, overlap>>
      /\ call[t].at = "listen" /\ InListen(t)
  BY DEF Conf!Define, Conf!disk, Conf!ghosts, InListen
<1>2. PICK l \in Loggers :
         /\ Conf!IsFirst(l, call[t].todo)
         /\ IF m_val[l] # Conf!NoDef
            THEN crashed' = TRUE /\ UNCHANGED <<m_loggers, call, given>>
            ELSE /\ m_loggers' = [m_loggers EXCEPT ![l] =
                        [level |-> call[t].v[l].level, appenders |-> Conf!NoAppenders]]
                 /\ given' = [given EXCEPT ![l] = Conf!NoGifts]
                 /\ call' = [call EXCEPT ![t].at = "fill"]
                 /\ UNCHANGED crashed
  BY DEF Conf!Define
<1>3. CASE m_val[l] # Conf!NoDef
  BY <1>1, <1>2, <1>3 DEF LoggerInv, LoggerTypes, OneListens, InHand, InListen, InSetValue
<1>4. CASE m_val[l] = Conf!NoDef
  <2> DEFINE lg == [level |-> call[t].v[l].level, appenders |-> Conf!NoAppenders]
  <2>1. /\ m_loggers' = [m_loggers EXCEPT ![l] = lg]
        /\ given' = [given EXCEPT ![l] = Conf!NoGifts]
        /\ call' = [call EXCEPT ![t].at = "fill"]
        /\ UNCHANGED crashed
    BY <1>2, <1>4
  <2>2. lg \in Conf!Definitions
    BY DEF LoggerInv, LoggerTypes, ConfCalls, Conf!Definitions, Conf!NoAppenders
  <2>8. lg.level = call[t].v[l].level /\ lg.appenders = Conf!NoAppenders
    OBVIOUS
  <2> HIDE DEF lg
  <2>3. /\ m_loggers' \in [Loggers -> Conf!Definitions]
        /\ m_loggers'[l] = lg /\ \A k \in Loggers \ {l} : m_loggers'[k] = m_loggers[k]
        /\ given' \in [Loggers -> Conf!Definitions]
        /\ given'[l] = Conf!NoGifts /\ \A k \in Loggers \ {l} : given'[k] = given[k]
    BY <2>1, <2>2, NewIsDefinition DEF LoggerInv, LoggerTypes
  <2>4. /\ call' \in [Threads -> ConfCalls]
        /\ \A u \in Threads \ {t} : call'[u] = call[u]
        /\ call'[t].at = "fill" /\ call'[t].v = call[t].v
        /\ call'[t].todo = call[t].todo /\ call'[t].gone = call[t].gone
    BY <2>1 DEF LoggerInv, LoggerTypes, ConfCalls
  <2>5. ASSUME ~overlap, m_cbs, NEW k \in Loggers  PROVE Half(t, k)' /\ Made(k)'
    <3>1. Half(t, k)
      BY <1>1, <2>5 DEF LoggerInv, InHand
    <3>5. Made(k)
      BY <2>5 DEF LoggerInv, InHand
    <3>2. CASE k = l
      <4>1. l \in call[t].todo /\ call[t].v[l] # Conf!NoDef
        BY <1>2, <3>1, <3>2 DEF Half, Conf!IsFirst
      <4>2. call[t].v \in Values
        BY <1>1 DEF LoggerInv, LoggerTypes, InSetValue
      <4>3. call[t].v[l] \in Conf!Definitions /\ call[t].v[l].level # -1
        BY <4>1, <4>2, LevelOfValue
      <4>4. Made(k)'
        BY <2>3, <2>8, <3>2, <4>3 DEF Made, Conf!Definitions
      <4>5. Cleared(k, call[t].v[l])'
        BY <2>3, <2>4, <2>8, <3>2, NewIsDefinition DEF Cleared
      <4>6. QED
        BY <1>1, <1>4, <2>4, <3>1, <3>2, <4>1, <4>4, <4>5 DEF Half, Kept, Cleared
    <3>3. CASE k # l
      <4>1. ~Conf!IsFirst(k, call[t].todo)
        BY <1>2, <3>3 DEF Conf!IsFirst, ContentsAssumption
      <4>2. m_loggers'[k] = m_loggers[k] /\ given'[k] = given[k]
        BY <2>3, <3>3
      <4>3. Half(t, k)'
        BY <1>1, <2>4, <3>1, <4>1, <4>2 DEF Half, Kept, Cleared, Conf!Follows, Conf!IsFirst
      <4>4. QED
        BY <3>5, <4>2, <4>3 DEF Made, Conf!NewLogger
    <3>4. QED
      BY <3>2, <3>3
  <2>6. InListen(t)'
    BY <2>4 DEF InListen
  <2>7. QED
    BY <1>1, <2>1, <2>3, <2>4, <2>5, <2>6, InsideListener
<1>5. QED
  BY <1>3, <1>4

\* The appenders of the definition come to a logger that has none.
LEMMA FillKeeps ==
    ASSUME ContentsAssumption, LoggerInv, NEW t \in Threads, ~crashed, Conf!Fill(t)
    PROVE  LoggerInv'
<1>1. /\ UNCHANGED <<file, m_val, m_cbs, crashed, overlap, given>>
      /\ call[t].at = "fill" /\ InListen(t)
  BY DEF Conf!Fill, Conf!disk, Conf!ghosts, InListen
<1>2. PICK l \in Loggers :
         /\ Conf!IsFirst(l, call[t].todo)
         /\ m_loggers' = [m_loggers EXCEPT ![l].appenders = Conf!Plus(@, Conf!Shown(call[t].v[l]))]
         /\ call' = [call EXCEPT ![t].at = "listen", ![t].todo = @ \ {l}]
  BY DEF Conf!Fill
<1> DEFINE d == call[t].v[l]
           old == m_loggers[l]
           new == [level |-> old.level, appenders |-> Conf!Plus(old.appenders, Conf!Shown(d))]
           g == given[l]
<1>3. d \in Conf!Definitions /\ old \in Conf!Definitions /\ g \in Conf!Definitions
  BY DEF LoggerInv, LoggerTypes, ConfCalls
<1>4. /\ Conf!Shown(d) \in [Targets -> Nat] /\ old.appenders \in [Targets -> Nat]
      /\ g.appenders \in [Targets -> Nat]
  BY <1>3, ShownIs DEF Conf!Definitions
<1>5. new \in Conf!Definitions
  BY <1>3, <1>4, PlusIs DEF Conf!Definitions
<1>6. m_loggers' = [m_loggers EXCEPT ![l] = new]
  <2>1. [old EXCEPT !.appenders = Conf!Plus(old.appenders, Conf!Shown(d))] = new
    BY <1>3 DEF Conf!Definitions
  <2>2. QED
    BY <1>2, <2>1 DEF LoggerInv, LoggerTypes
<1>12. new.level = old.level /\ new.appenders = Conf!Plus(old.appenders, Conf!Shown(d))
  OBVIOUS
<1> HIDE DEF new
<1>7. /\ m_loggers' \in [Loggers -> Conf!Definitions]
      /\ m_loggers'[l] = new /\ \A k \in Loggers \ {l} : m_loggers'[k] = m_loggers[k]
  BY <1>5, <1>6 DEF LoggerInv, LoggerTypes
<1>8. /\ call' \in [Threads -> ConfCalls]
      /\ \A u \in Threads \ {t} : call'[u] = call[u]
      /\ call'[t].at = "listen" /\ call'[t].v = call[t].v
      /\ call'[t].todo = call[t].todo \ {l} /\ call'[t].gone = call[t].gone
  BY <1>2 DEF LoggerInv, LoggerTypes, ConfCalls
<1>9. ASSUME ~overlap, m_cbs, NEW k \in Loggers  PROVE Half(t, k)' /\ Made(k)'
  <2>1. Half(t, k) /\ Made(k)
    BY <1>1, <1>9 DEF LoggerInv, InHand
  <2>2. CASE k = l
    <3>1. Cleared(l, d) /\ d # Conf!NoDef
      BY <1>1, <1>2, <2>1, <2>2 DEF Half, Conf!IsFirst
    <3>2. new.appenders = Conf!Plus(Conf!Shown(d), g.appenders)
      BY <1>4, <1>12, <3>1, PlusIs DEF Cleared
    <3>3. PICK c \in Contents : call[t].v = c.logs
      BY <1>1 DEF LoggerInv, LoggerTypes, InSetValue, Values
    <3>4. Conf!Follows(new, l, d, g)
      BY <1>12, <3>1, <3>2, <3>3, NewIsDefinition DEF Conf!Follows, Conf!Same, Cleared
    <3>5. old.level \in Nat
      <4>1. d.level # -1
        BY <3>1, <3>3 DEF ContentsAssumption
      <4>2. QED
        BY <1>3, <3>1, <4>1 DEF Cleared, Conf!Definitions
    <3>6. Made(k)'
      BY <1>7, <1>12, <2>2, <3>5 DEF Made
    <3>7. Half(t, k)'
      BY <1>1, <1>7, <1>8, <2>2, <3>1, <3>4, <2>1 DEF Half, Kept, Conf!Follows
    <3>8. QED
      BY <3>6, <3>7
  <2>3. CASE k # l
    <3>1. m_loggers'[k] = m_loggers[k] /\ given' = given
      BY <1>1, <1>7, <2>3
    <3>2. QED
      BY <1>1, <1>8, <2>1, <2>3, <3>1 DEF Half, Kept, Made, Conf!NewLogger, Conf!Follows
  <2>4. QED
    BY <2>2, <2>3
<1>10. InListen(t)'
  BY <1>8 DEF InListen
<1>11. given' \in [Loggers -> Conf!Definitions]
  BY <1>1 DEF LoggerInv, LoggerTypes
<1>13. QED
  BY <1>1, <1>7, <1>8, <1>9, <1>10, <1>11, InsideListener

LEMMA DisableKeeps ==
    ASSUME ContentsAssumption, LoggerInv, NEW t \in Threads, ~crashed, Conf!Disable(t)
    PROVE  LoggerInv'
<1>1. /\ UNCHANGED <<file, m_val, m_cbs, crashed, overlap>>
      /\ call[t].at = "listen" /\ InListen(t)
  BY DEF Conf!Disable, Conf!disk, Conf!ghosts, InListen
<1> DEFINE new == [level |-> 800, appenders |-> Conf!NoAppenders]
<1>2. PICK l \in Loggers :
         /\ Conf!IsFirst(l, call[t].gone)
         /\ m_loggers' = [m_loggers EXCEPT ![l] = new]
         /\ given' = IF m_val[l] = Conf!NoDef THEN given ELSE [given EXCEPT ![l] = Conf!NoGifts]
         /\ call' = [call EXCEPT ![t].gone = @ \ {l}]
  BY DEF Conf!Disable, Conf!NOTSET, new
<1>3. new \in Conf!Definitions
  BY DEF Conf!Definitions, Conf!NoAppenders
<1>9. new.level = 800 /\ new.appenders = Conf!NoAppenders
  OBVIOUS
<1> HIDE DEF new
<1>4. /\ m_loggers' \in [Loggers -> Conf!Definitions]
      /\ m_loggers'[l] = new /\ \A k \in Loggers \ {l} : m_loggers'[k] = m_loggers[k]
      /\ given' \in [Loggers -> Conf!Definitions]
      /\ m_val[l] # Conf!NoDef => given'[l] = Conf!NoGifts
      /\ \A k \in Loggers \ {l} : given'[k] = given[k]
  BY <1>2, <1>3, NewIsDefinition DEF LoggerInv, LoggerTypes
<1>5. /\ call' \in [Threads -> ConfCalls]
      /\ \A u \in Threads \ {t} : call'[u] = call[u]
      /\ call'[t].at = "listen" /\ call'[t].v = call[t].v
      /\ call'[t].todo = call[t].todo /\ call'[t].gone = call[t].gone \ {l}
  BY <1>1, <1>2 DEF LoggerInv, LoggerTypes, ConfCalls
<1>6. ASSUME ~overlap, m_cbs, NEW k \in Loggers  PROVE Half(t, k)' /\ Made(k)'
  <2>1. Half(t, k) /\ Made(k)
    BY <1>1, <1>6 DEF LoggerInv, InHand
  <2>2. CASE k = l
    <3>1. call[t].v[l] = Conf!NoDef /\ m_val[l] # Conf!NoDef
      BY <1>2, <2>1, <2>2 DEF Half, Conf!IsFirst
    <3>2. Conf!Follows(new, l, call[t].v[l], Conf!NoGifts)
      BY <1>9, <3>1, NewIsDefinition DEF Conf!Follows, Conf!NOTSET
    <3>3. QED
      BY <1>1, <1>4, <1>5, <1>9, <2>1, <2>2, <3>1, <3>2 DEF Half, Kept, Made, Conf!Follows
  <2>3. CASE k # l
    BY <1>1, <1>4, <1>5, <2>1, <2>3 DEF Half, Kept, Made, Conf!NewLogger, Conf!Follows
  <2>4. QED
    BY <2>2, <2>3
<1>7. InListen(t)'
  BY <1>5 DEF InListen
<1>8. QED
  BY <1>1, <1>4, <1>5, <1>6, <1>7, InsideListener

LEMMA GiveUpKeeps ==
    ASSUME ContentsAssumption, LoggerInv, NEW t \in Threads, ~crashed, Conf!Unlock(t)
    PROVE  LoggerInv'
<1>1. /\ UNCHANGED <<file, m_val, m_loggers, m_cbs, crashed, overlap, given>>
      /\ call[t].at = "listen" /\ InListen(t)
      /\ call[t].todo = {} /\ call[t].gone = {}
  BY DEF Conf!Unlock, Conf!disk, Conf!ghosts, InListen
<1>2. /\ call' \in [Threads -> ConfCalls]
      /\ \A u \in Threads \ {t} : call'[u] = call[u]
      /\ call'[t].at = "store" /\ call'[t].v = call[t].v
      /\ call'[t].todo = {} /\ call'[t].gone = {}
  <2>1. call' = [call EXCEPT ![t].at = "store"]
    BY DEF Conf!Unlock
  <2>2. QED
    BY <1>1, <2>1 DEF LoggerInv, LoggerTypes, ConfCalls
<1>3. ASSUME ~overlap, m_cbs, NEW k \in Loggers  PROVE Half(t, k)' /\ Made(k)'
  <2>1. Half(t, k) /\ Made(k)
    BY <1>1, <1>3 DEF LoggerInv, InHand
  <2>2. QED
    BY <1>1, <1>2, <2>1 DEF Half, Kept, Made, Conf!NewLogger, Conf!Follows
<1>4. InListen(t)'
  BY <1>2 DEF InListen
<1>5. m_loggers' \in [Loggers -> Conf!Definitions] /\ given' \in [Loggers -> Conf!Definitions]
  BY <1>1 DEF LoggerInv, LoggerTypes
<1>6. QED
  BY <1>1, <1>2, <1>3, <1>4, <1>5, InsideListener

\* The value that is stored is the one the listener has gone through.
LEMMA StoreKeeps ==
    ASSUME ContentsAssumption, LoggerInv, NEW t \in Threads, ~crashed, Conf!Store(t)
    PROVE  LoggerInv'
<1>1. /\ UNCHANGED <<file, m_loggers, m_cbs, crashed, overlap, given>>
      /\ call[t].at = "store" /\ InListen(t)
      /\ m_val' = call[t].v
      /\ call' = [call EXCEPT ![t] = Conf!NoCall]
  BY DEF Conf!Store, Conf!disk, Conf!ghosts, InListen
<1>2. /\ call' \in [Threads -> ConfCalls]
      /\ \A u \in Threads \ {t} : call'[u] = call[u]
      /\ call'[t].at = "none"
  BY <1>1, NoCallIsCall DEF LoggerInv, LoggerTypes
<1>3. call[t].v \in Values
  BY <1>1 DEF LoggerInv, LoggerTypes, InSetValue
<1>4. LoggerTypes'
  BY <1>1, <1>2, <1>3 DEF LoggerInv, LoggerTypes, InSetValue
<1>5. OneListens'
  BY <1>1, <1>2 DEF LoggerInv, OneListens, InListen
<1>6. InHand'
  <2>1. SUFFICES ASSUME ~overlap, m_cbs
        PROVE  /\ \A u \in Threads : ~InListen(u)' /\ call'[u].at # "store"
               /\ \A l \in Loggers : Kept(l, call[t].v[l]) /\ Made(l)
    BY <1>1 DEF InHand, Kept, Made, Conf!NewLogger, Conf!Follows
  <2>2. \A u \in Threads : u # t => ~InListen(u)
    BY <1>1, <2>1 DEF LoggerInv, OneListens
  <2>3. \A l \in Loggers : Half(t, l) /\ Made(l)
    BY <1>1, <2>1 DEF LoggerInv, InHand
  <2>4. call[t].todo = {} /\ call[t].gone = {}
    BY <1>1, <2>1 DEF LoggerInv, InHand
  <2>5. QED
    BY <1>2, <2>2, <2>3, <2>4 DEF Half, InListen
<1>7. QED
  BY <1>4, <1>5, <1>6 DEF LoggerInv

LEMMA LoggerInit ==
    ASSUME Conf!Init
    PROVE  LoggerInv
<1>1. \A t \in Threads : call[t].at = "none"
  BY DEF Conf!Init, Conf!NoCall
<1>2. LoggerTypes
  <2>1. call \in [Threads -> ConfCalls]
    BY NoCallIsCall DEF Conf!Init
  <2>2. m_loggers \in [Loggers -> Conf!Definitions]
    BY NewIsDefinition DEF Conf!Init, Conf!NoLogger, Conf!NoDef, Conf!NoAppenders,
       Conf!Definitions
  <2>5. given \in [Loggers -> Conf!Definitions]
    BY NewIsDefinition DEF Conf!Init
  <2>3. /\ file \in Contents \cup {Broken} /\ m_val = Conf!NoLogs
        /\ m_cbs = TRUE /\ crashed = FALSE /\ overlap = FALSE
    BY DEF Conf!Init
  <2>4. QED
    BY <1>1, <2>1, <2>2, <2>3, <2>5 DEF LoggerTypes, InSetValue
<1>3. ASSUME NEW l \in Loggers  PROVE Made(l) /\ Kept(l, m_val[l])
  <2>1. /\ m_val[l] = Conf!NoDef /\ given[l] = Conf!NewLogger(l)
        /\ m_loggers[l] \in {Conf!NewLogger(l), Conf!NoLogger}
    BY DEF Conf!Init, Conf!NoLogs
  <2>2. QED
    BY <2>1, NewIsDefinition DEF Made, Kept, Conf!Follows
<1>4. QED
  BY <1>1, <1>2, <1>3 DEF LoggerInv, OneListens, InHand, InListen

LEMMA LoggerNext ==
    ASSUME ContentsAssumption, LoggerInv, [Conf!Next]_(Conf!vars)
    PROVE  LoggerInv'
<1>1. CASE UNCHANGED Conf!vars
  <2>1. UNCHANGED <<call, m_val, m_loggers, m_cbs, crashed, overlap, file, given>>
    BY <1>1 DEF Conf!vars, Conf!disk, Conf!ghosts
  <2>2. file' \in Contents \cup {Broken}
    BY <2>1 DEF LoggerInv, LoggerTypes
  <2>3. QED
    BY <2>1, <2>2, LoggersStay
<1>2. CASE Conf!Next
  <2>1. ~crashed
    BY <1>2 DEF Conf!Next
  <2>2. ASSUME NEW t \in Threads, Conf!SetValue(t)  PROVE LoggerInv'
    <3>1. CASE Conf!Compare(t)
      BY <2>1, <3>1, CompareKeeps
    <3>2. CASE Conf!Define(t)
      BY <2>1, <3>2, DefineKeeps
    <3>3. CASE Conf!Fill(t)
      BY <2>1, <3>3, FillKeeps
    <3>4. CASE Conf!Disable(t)
      BY <2>1, <3>4, DisableKeeps
    <3>5. CASE Conf!Unlock(t)
      BY <2>1, <3>5, GiveUpKeeps
    <3>6. CASE Conf!Store(t)
      BY <2>1, <3>6, StoreKeeps
    <3>7. QED
      BY <2>2, <3>1, <3>2, <3>3, <3>4, <3>5, <3>6 DEF Conf!SetValue, Conf!Listen
  <2>3. CASE \/ Conf!Tick \/ Conf!Lookup \/ Conf!ClearListener
             \/ \E c \in Contents \cup {Broken} : Conf!Edit(c)
             \/ \E l \in Loggers : \/ Conf!UseLogger(l)
                                   \/ \E v \in GivenLevels : Conf!SetLevel(l, v)
                                   \/ \E a \in Targets : Conf!AddAppender(l, a)
    BY <2>1, <2>3, LoggerOutsideKeeps
  <2>4. QED
    BY <1>2, <2>2, <2>3, LoggerLoadKeeps DEF Conf!Next
<1>3. QED
  BY <1>1, <1>2

\* LoggersFollowFile: with FileIsFollowed, the loggers follow the variable "logs"
\* and the variables the file when no call is in progress, and a logger that was
\* never defined is what the program made it (config.h:429-447, log.cpp:674-678,
\* 866-939), although the listener runs before the value is assigned, changes one
\* logger at a time and other threads use, set up, load and set between.
THEOREM LoggersFollow ==
    ASSUME ContentsAssumption
    PROVE  Conf!Spec => []Conf!LoggersFollowFile
<1>1. Conf!Init => LoggerInv
  BY LoggerInit
<1>2. LoggerInv /\ [Conf!Next]_(Conf!vars) => LoggerInv'
  BY LoggerNext
<1>3. LoggerInv => Conf!LoggersFollowValue
  BY DEF LoggerInv, InHand, Kept, InListen, Conf!LoggersFollowValue, Conf!Quiet
<1>4. Conf!Spec => []Conf!LoggersFollowValue
  BY <1>1, <1>2, <1>3, PTL DEF Conf!Spec
<1>5. QED
  BY <1>4, FileIsFollowed, PTL DEF Conf!LoggersFollowFile

\* What LoggerInv does not say of the types.
ConfBounds ==
    /\ mtime \in 1..MaxTime /\ clock \in 1..MaxTime
    /\ s_file2modifytime \in 0..MaxTime
    /\ plain \in Nat /\ changes \in 0..MaxChanges
    /\ registered \in BOOLEAN /\ missed \in BOOLEAN /\ own \in BOOLEAN

LEMMA BoundsNext ==
    ASSUME ContentsAssumption, MaxTime \in Nat, MaxChanges \in Nat, LoggerInv, ConfBounds,
           [Conf!Next]_(Conf!vars)
    PROVE  ConfBounds'
<1>1. CASE UNCHANGED Conf!vars
  BY <1>1 DEF Conf!vars, Conf!disk, Conf!loaded, Conf!ghosts, ConfBounds
<1>2. CASE Conf!Tick
  BY <1>2 DEF Conf!Tick, Conf!loaded, Conf!ghosts, ConfBounds
<1>3. ASSUME NEW c, Conf!Edit(c)  PROVE ConfBounds'
  <2>1. missed' \in BOOLEAN
    BY <1>3 DEF Conf!Edit
  <2>2. QED
    BY <1>3, <2>1 DEF Conf!Edit, Conf!loaded, ConfBounds
<1>4. CASE Conf!Lookup
  <2>1. missed' \in BOOLEAN /\ registered' = TRUE
    BY <1>4 DEF Conf!Lookup
  <2>2. QED
    BY <1>4, <2>1 DEF Conf!Lookup, Conf!disk, Conf!loaded, ConfBounds
<1>11. ASSUME NEW l, NEW v, Conf!SetLevel(l, v) \/ Conf!AddAppender(l, v)
       PROVE  ConfBounds'
  BY <1>11 DEF Conf!SetLevel, Conf!AddAppender, Conf!Give, Conf!disk, Conf!loaded, ConfBounds
<1>5. CASE Conf!ClearListener \/ \E l \in Loggers : Conf!UseLogger(l)
  BY <1>5 DEF Conf!ClearListener, Conf!UseLogger, Conf!disk, Conf!loaded, Conf!ghosts,
     ConfBounds
<1>6. ASSUME NEW t \in Threads, NEW force \in BOOLEAN, Conf!SeeFile(t, force)
      PROVE  ConfBounds'
  <2>1. missed' \in BOOLEAN
    BY <1>6 DEF Conf!SeeFile
  <2>2. QED
    BY <1>6, <2>1 DEF Conf!SeeFile, Conf!disk, ConfBounds
<1>7. ASSUME NEW t \in Threads, Conf!LoadFile(t)  PROVE ConfBounds'
  <2>1. plain' = plain \/ (file # Broken /\ plain' = file.plain)
    BY <1>7 DEF Conf!LoadFile
  <2>2. file # Broken => file.plain \in Nat
    BY DEF LoggerInv, LoggerTypes, ContentsAssumption
  <2>3. QED
    BY <1>7, <2>1, <2>2 DEF Conf!LoadFile, Conf!disk, ConfBounds
<1>8. ASSUME NEW t \in Threads, NEW c \in Contents, Conf!SetByProgram(t, c)
      PROVE  ConfBounds'
  BY <1>8 DEF Conf!SetByProgram, Conf!disk, Conf!loaded, ConfBounds
<1>9. ASSUME NEW t \in Threads, Conf!SetValue(t)  PROVE ConfBounds'
  BY <1>9 DEF Conf!SetValue, Conf!Compare, Conf!Listen, Conf!Define, Conf!Fill,
     Conf!Disable, Conf!Unlock, Conf!Store, Conf!disk, Conf!loaded, Conf!ghosts,
     ConfBounds
<1>10. QED
  BY <1>1, <1>2, <1>3, <1>4, <1>5, <1>6, <1>7, <1>8, <1>9, <1>11 DEF Conf!Next

\* Every reachable state of the configuration and its loggers is well typed.
THEOREM ConfTypeCorrect ==
    ASSUME ContentsAssumption, MaxTime \in Nat \ {0}, MaxChanges \in Nat
    PROVE  Conf!Spec => []Conf!TypeOK
<1>1. Conf!Init => LoggerInv /\ ConfBounds
  <2> SUFFICES ASSUME Conf!Init PROVE ConfBounds
    BY LoggerInit
  <2>1. /\ mtime = 1 /\ clock = 1 /\ s_file2modifytime = 0 /\ plain = 0 /\ changes = 0
        /\ registered = FALSE /\ missed = FALSE /\ own = FALSE
    BY DEF Conf!Init
  <2>2. QED
    <3>1. registered \in BOOLEAN /\ missed \in BOOLEAN /\ own \in BOOLEAN
      BY <2>1
    <3>2. QED
      BY <2>1, <3>1 DEF ConfBounds
<1>2. LoggerInv /\ ConfBounds /\ [Conf!Next]_(Conf!vars) => LoggerInv' /\ ConfBounds'
  BY LoggerNext, BoundsNext
<1>3. LoggerInv /\ ConfBounds => Conf!TypeOK
  <2> SUFFICES ASSUME LoggerInv, ConfBounds PROVE Conf!TypeOK
    OBVIOUS
  <2>1. m_val \in [Loggers -> Conf!Definitions]
    <3>1. Conf!NoDef \in Conf!Definitions
      BY DEF Conf!NoDef, Conf!NoAppenders, Conf!Definitions
    <3>2. QED
      BY <3>1 DEF LoggerInv, LoggerTypes, ContentsAssumption, Values, Conf!NoLogs
  <2>2. \A t \in Threads :
           /\ call[t].at \in {"none", "read", "set", "listen", "fill", "store"}
           /\ call[t].todo \subseteq Loggers /\ call[t].gone \subseteq Loggers
    BY DEF LoggerInv, LoggerTypes, ConfCalls
  <2>3. QED
    BY <2>1, <2>2 DEF LoggerInv, LoggerTypes, ConfBounds, Conf!TypeOK
<1>4. QED
  BY <1>1, <1>2, <1>3, PTL DEF Conf!Spec

-----------------------------------------------------------------------------
(* Induction over the natural numbers.                                     *)

Less == {p \in Nat \X Nat : p[1] < p[2]}

LEMMA LessIsWellFounded == IsWellFoundedOn(Less, Nat)
<1>1. Less = OpToRel(<, Nat)
  BY DEF OpToRel, Less
<1>2. QED
  BY <1>1, NatLessThanWellFounded

LEMMA LeastOf ==
    ASSUME NEW S \in SUBSET Nat, S # {}
    PROVE  \E least \in S : \A k \in S : least <= k
<1>1. PICK x \in S : \A y \in S : ~(<<y, x>> \in Less)
  BY LessIsWellFounded, WFMin
<1>2. ASSUME NEW y \in S
      PROVE  x <= y
  <2>1. x \in Nat /\ y \in Nat /\ <<y, x>> \notin Less
    BY <1>1
  <2>2. QED
    BY <2>1 DEF Less
<1>3. QED
  BY <1>2

LEMMA SetInduction ==
    ASSUME NEW T, 0 \in T, \A n \in Nat : n \in T => n + 1 \in T
    PROVE  Nat \subseteq T
<1>1. SUFFICES ASSUME Nat \ T # {} PROVE FALSE
  OBVIOUS
<1>2. PICK x \in Nat \ T : \A y \in Nat \ T : x <= y
  BY <1>1, LeastOf
<1>3. x # 0
  BY <1>2
<1>4. x - 1 \in Nat /\ x - 1 \notin T
  BY <1>2, <1>3
<1>5. QED
  BY <1>2, <1>4

-----------------------------------------------------------------------------
(* LogFormatter.  A pattern is made of characters, and "end" is none.      *)

CONSTANTS Characters, Patterns, Known

VARIABLES m_pattern, scan, tmp, patterns, dateformat, parsing_string, m_items,
          m_error, formatted

Format == INSTANCE LogFormatter WITH i <- scan, done <- formatted

FormatSpec == Format!Init /\ [][Format!Next]_(Format!vars)

PatternsAssumption ==
    \A p \in Patterns : p \in Seq(Characters) /\ \A k \in 1..Len(p) : p[k] # "end"

Size == Len(m_pattern)
Places == Nat \ {0}
Pieces == [type : 0..2, value : Seq(Characters)]

\* The pattern being read.
Reads == m_pattern \in Seq(Characters) /\ \A k \in 1..Size : m_pattern[k] # "end"

\* The first c from n on, or the place behind the pattern.
LEMMA UptoIs ==
    ASSUME Reads, NEW n \in Places, NEW c
    PROVE  /\ Format!Upto(c, n) \in Places
           /\ n <= Size + 1 => Format!Upto(c, n) \in n..(Size + 1)
           /\ n > Size => Format!Upto(c, n) = Size + 1
           /\ Format!Upto(c, n) <= Size
                => /\ Format!Upto(c, n) >= n
                   /\ m_pattern[Format!Upto(c, n)] = c
           /\ \A k \in n..(Format!Upto(c, n) - 1) : k <= Size => m_pattern[k] # c
<1> DEFINE S == {k \in n..Size : m_pattern[k] = c}
           First(k) == m_pattern[k] = c /\ \A j \in n..(k - 1) : m_pattern[j] # c
           u == Format!Upto(c, n)
<1>1. Size \in Nat
  BY DEF Reads, Size
<1>2. CASE S = {}
  <2>1. u = Size + 1
    BY <1>2 DEF Format!Upto, Size
  <2> HIDE DEF u
  <2>2. \A k \in n..Size : m_pattern[k] # c
    BY <1>2
  <2>3. QED
    BY <1>1, <2>1, <2>2 DEF Places, u
<1>3. CASE S # {}
  <2>1. S \subseteq Nat
    BY <1>1 DEF Places
  <2>2. PICK least \in S : \A k \in S : least <= k
    BY <1>3, <2>1, LeastOf
  <2>3. First(least) /\ least \in n..Size
    <3>1. ASSUME NEW j \in n..(least - 1)
          PROVE  m_pattern[j] # c
      <4>1. least \in n..Size /\ least \in Nat
        BY <2>1
      <4>2. j \in n..Size /\ ~(least <= j)
        BY SMTT(10), <1>1, <4>1, <3>1 DEF Places
      <4>3. QED
        BY Zenon, <2>2, <4>2
    <3>2. QED
      BY <3>1
  <2>4. u = CHOOSE k \in n..Size : First(k)
    BY <2>3 DEF Format!Upto, Size
  <2>5. u \in n..Size /\ First(u)
    <3> HIDE DEF First, u
    <3>1. QED
      BY Zenon, <2>3, <2>4
  <2> HIDE DEF u
  <2>6. QED
    BY <1>1, <2>5 DEF Places, u
<1>4. QED
  BY <1>2, <1>3

-----------------------------------------------------------------------------
(* Meaning, which the module defines by recursion.                         *)

Read(f, n) ==
    IF n > Len(m_pattern) THEN <<>>
    ELSE IF Format!At(n) # "%"
    THEN <<Format!Text(SubSeq(m_pattern, n, Format!Upto("%", n) - 1))>> \o f[Format!Upto("%", n)]
    ELSE IF n = Len(m_pattern) THEN <<>>
    ELSE IF Format!At(n + 1) # "d"
    THEN <<Format!Conversion(Format!At(n + 1))>> \o f[n + 2]
    ELSE IF Format!At(n + 2) = "{"
    THEN <<Format!Dated(SubSeq(m_pattern, n + 3, Format!Upto("}", n + 3) - 1))>>
            \o f[Format!Upto("}", n + 3) + 1]
    ELSE <<Format!Dated(<<>>)>> \o f[n + 2]

LEMMA MeaningIsChosen ==
    Format!Meaning = CHOOSE f : f = [n \in Places |-> Read(f, n)]
  BY Zenon DEF Format!Meaning, Read, Places

\* A piece is followed by what begins behind it.
LEMMA ReadsOn ==
    ASSUME Reads, NEW n \in Places, n <= Size
    PROVE  /\ Format!At(n) # "%" => Format!Upto("%", n) \in Places /\ Format!Upto("%", n) > n
           /\ n + 2 \in Places
           /\ Format!Upto("}", n + 3) + 1 \in Places
           /\ n + 3 <= Size + 1 => Format!Upto("}", n + 3) + 1 > n
           /\ Format!At(n + 2) = "{" => n + 3 <= Size + 1
<1>1. Size \in Nat
  BY DEF Reads, Size
<1>2. n + 3 \in Places /\ n + 2 \in Places
  BY DEF Places
<1>3. Format!At(n) = m_pattern[n]
  BY DEF Format!At, Size
<1>4. Format!Upto("%", n) \in Places /\ Format!Upto("%", n) \in n..(Size + 1)
      /\ (Format!Upto("%", n) <= Size => m_pattern[Format!Upto("%", n)] = "%")
  <2>1. n <= Size + 1
    BY SMTT(10), <1>1 DEF Places
  <2>2. QED
    BY Zenon, <2>1, UptoIs
<1>5. Format!At(n) # "%" => Format!Upto("%", n) > n
  <2> DEFINE u == Format!Upto("%", n)
  <2>1. u \in Places /\ u \in n..(Size + 1) /\ (u <= Size => m_pattern[u] = "%")
    BY <1>4
  <2> HIDE DEF u
  <2>2. m_pattern[n] # "%" => u > n
    BY SMTT(10), <1>1, <2>1 DEF Places
  <2>3. QED
    BY <1>3, <2>2 DEF u
<1>6. Format!Upto("}", n + 3) \in Places
      /\ (n + 3 <= Size + 1 => Format!Upto("}", n + 3) \in (n + 3)..(Size + 1))
  BY UptoIs, <1>2
<1>7. Format!Upto("}", n + 3) + 1 \in Places
      /\ (n + 3 <= Size + 1 => Format!Upto("}", n + 3) + 1 > n)
  <2> DEFINE v == Format!Upto("}", n + 3)
  <2>1. v \in Places /\ (n + 3 <= Size + 1 => v \in (n + 3)..(Size + 1))
    BY <1>6
  <2> HIDE DEF v
  <2>2. v + 1 \in Places /\ (n + 3 <= Size + 1 => v + 1 > n)
    BY SMTT(10), <1>1, <2>1 DEF Places
  <2>3. QED
    BY <2>2 DEF v
<1>8. Format!At(n + 2) = "{" => n + 3 <= Size + 1
  <2>1. ~(n + 2 <= Size) => Format!At(n + 2) = "end"
    BY Zenon DEF Format!At, Size
  <2>2. "end" # "{"
    OBVIOUS
  <2>3. n + 2 <= Size => n + 3 <= Size + 1
    BY SMTT(10), <1>1 DEF Places
  <2>4. QED
    BY Zenon, <2>1, <2>2, <2>3
<1>9. QED
  BY Zenon, <1>2, <1>4, <1>5, <1>7, <1>8

LEMMA ReadSame ==
    ASSUME Reads, NEW f, NEW g, NEW n \in Places,
           \A k \in Places : k > n => f[k] = g[k]
    PROVE  Read(f, n) = Read(g, n)
<1>0. Size \in Nat /\ n \in Nat
  BY DEF Reads, Size, Places
<1>1. CASE n > Size
  BY Zenon, <1>1 DEF Read, Size
<1>2. CASE ~(n > Size)
  <2>0. n <= Size
    BY <1>0, <1>2
  <2>1. Format!At(n) # "%" => f[Format!Upto("%", n)] = g[Format!Upto("%", n)]
    BY Zenon, <2>0, ReadsOn
  <2>2. f[n + 2] = g[n + 2]
    <3>1. n + 2 \in Places /\ n + 2 > n
      BY <1>0 DEF Places
    <3>2. QED
      BY Zenon, <3>1
  <2>3. Format!At(n + 2) = "{"
          => f[Format!Upto("}", n + 3) + 1] = g[Format!Upto("}", n + 3) + 1]
    BY Zenon, <2>0, ReadsOn
  <2>4. QED
    BY Zenon, <2>1, <2>2, <2>3 DEF Read
<1>3. QED
  BY <1>1, <1>2

\* The recursion ends at the end of the pattern.
LEMMA MeaningExists ==
    ASSUME Reads
    PROVE  \E f : f = [n \in Places |-> Read(f, n)]
<1> DEFINE Now(f, k, n) == IF n + k > Size THEN Read(f, n) ELSE <<>>
           From(f, k) == [n \in Places |-> Now(f, k, n)]
           T == {k \in Nat : \E f : f = From(f, k)}
<1>1. Size \in Nat
  BY DEF Reads, Size
<1>2. 0 \in T
  <2> DEFINE f == From(<<>>, 0)
  <2>1. ASSUME NEW n \in Places
        PROVE  Now(<<>>, 0, n) = Now(f, 0, n)
    <3> HIDE DEF f
    <3>1. n + 0 = n
      BY DEF Places
    <3>2. CASE n > Size
      BY Zenon, <3>1, <3>2 DEF Read, Size
    <3>3. CASE ~(n > Size)
      BY Zenon, <3>1, <3>3
    <3>4. QED
      BY <3>2, <3>3
  <2> HIDE DEF Now
  <2>2. f = From(f, 0)
    BY Zenon, <2>1
  <2>3. QED
    BY <2>2
<1>3. ASSUME NEW k \in Nat, k \in T
      PROVE  k + 1 \in T
  <2>1. PICK f : f = From(f, k)
    BY <1>3
  <2> DEFINE g == From(f, k + 1)
  <2>2. ASSUME NEW n \in Places, n + (k + 1) > Size
        PROVE  Read(f, n) = Read(g, n)
    <3>1. ASSUME NEW x \in Places, x > n
          PROVE  f[x] = g[x]
      <4>1. x + k > Size /\ x + (k + 1) > Size
        BY SMTT(10), <1>1, <2>2, <3>1 DEF Places
      <4>2. f[x] = Now(f, k, x)
        <5> HIDE DEF Now
        <5>1. QED
          BY Zenon, <2>1
      <4>3. g[x] = Now(f, k + 1, x)
        <5> HIDE DEF Now
        <5>1. QED
          BY Zenon
      <4> HIDE DEF g
      <4>4. Now(f, k, x) = Read(f, x) /\ Now(f, k + 1, x) = Read(f, x)
        BY Zenon, <4>1
      <4> HIDE DEF Now
      <4>5. QED
        BY Zenon, <4>2, <4>3, <4>4
    <3> HIDE DEF g
    <3>2. QED
      BY <3>1, ReadSame
  <2>3. ASSUME NEW n \in Places
        PROVE  Now(f, k + 1, n) = Now(g, k + 1, n)
    <3> HIDE DEF g
    <3>1. QED
      BY Zenon, <2>2
  <2> HIDE DEF Now
  <2>4. g = From(g, k + 1)
    BY Zenon, <2>3
  <2>5. k + 1 \in Nat
    OBVIOUS
  <2> HIDE DEF g
  <2>6. QED
    BY Zenon, <2>4, <2>5
<1>4. Size \in T
  <2> HIDE DEF T
  <2>1. Nat \subseteq T
    BY <1>2, <1>3, SetInduction
  <2>2. QED
    BY <1>1, <2>1
<1> HIDE DEF Now
<1>5. PICK f : f = From(f, Size)
  BY Zenon, <1>4
<1>6. ASSUME NEW n \in Places
      PROVE  Now(f, Size, n) = Read(f, n)
  <2>1. n + Size > Size
    BY SMTT(10), <1>1 DEF Places
  <2>2. QED
    BY Zenon, <2>1 DEF Now
<1>7. f = [n \in Places |-> Read(f, n)]
  BY Zenon, <1>5, <1>6
<1>8. QED
  BY <1>7

LEMMA MeaningIs ==
    ASSUME Reads, NEW n \in Places
    PROVE  Format!Meaning[n] = Read(Format!Meaning, n)
<1>1. Format!Meaning = [k \in Places |-> Read(Format!Meaning, k)]
  BY Zenon, MeaningExists, MeaningIsChosen
<1>2. QED
  BY Zenon, <1>1

-----------------------------------------------------------------------------
(* What Meaning is at the places the loop of init() comes to.              *)

\* Pieces that are joined.
LEMMA Joined ==
    ASSUME NEW S, NEW s \in Seq(S), NEW t \in Seq(S), NEW e \in S
    PROVE  /\ Append(s, e) \o t = s \o (<<e>> \o t)
           /\ <<e>> \o t \in Seq(S)
           /\ s \o <<>> = s
<1>1. <<e>> \in Seq(S)
  OBVIOUS
<1>2. Append(s, e) = s \o <<e>>
  BY AppendIsConcat
<1>3. (s \o <<e>>) \o t = s \o (<<e>> \o t)
  BY <1>1, ConcatAssociative
<1>4. <<e>> \o t \in Seq(S)
  BY <1>1, ConcatProperties
<1>5. s \o <<>> = s
  BY ConcatEmptySeq
<1>6. QED
  BY Zenon, <1>2, <1>3, <1>4, <1>5

LEMMA Slice ==
    ASSUME Reads, NEW a \in Places, NEW b \in Nat, b <= Size
    PROVE  SubSeq(m_pattern, a, b) \in Seq(Characters)
<1>1. Size \in Nat /\ Size = Len(m_pattern) /\ m_pattern \in Seq(Characters)
  BY DEF Reads, Size
<1>2. \A k \in a..b : m_pattern[k] \in Characters
  BY <1>1 DEF Places
<1>3. a \in Int /\ b \in Int
  BY DEF Places
<1>4. QED
  BY <1>2, <1>3, SubSeqProperties

LEMMA MeaningEnds ==
    ASSUME Reads, NEW n \in Places, n > Size
    PROVE  Format!Meaning[n] = <<>>
  BY Zenon, MeaningIs DEF Read, Size

LEMMA MeaningOfPercent ==
    ASSUME Reads, NEW n \in Places, n = Size, m_pattern[n] = "%"
    PROVE  Format!Meaning[n] = <<>>
<1>1. n <= Size /\ ~(n > Size)
  BY DEF Places
<1>2. Format!At(n) = "%"
  BY Zenon, <1>1 DEF Format!At, Size
<1>3. QED
  BY Zenon, <1>1, <1>2, MeaningIs DEF Read, Size

LEMMA MeaningOfText ==
    ASSUME Reads, NEW a \in Places, NEW b \in Places, a < b, b <= Size + 1,
           \A k \in a..(b - 1) : m_pattern[k] # "%",
           b <= Size => m_pattern[b] = "%"
    PROVE  Format!Meaning[a]
             = <<Format!Text(SubSeq(m_pattern, a, b - 1))>> \o Format!Meaning[b]
<1>1. Size \in Nat
  BY DEF Reads, Size
<1>2. a <= Size /\ ~(a > Size) /\ a \in a..(b - 1) /\ a <= Size + 1
  BY <1>1 DEF Places
<1>3. Format!At(a) # "%"
  BY Zenon, <1>2 DEF Format!At, Size
<1> DEFINE u == Format!Upto("%", a)
<1>4. /\ u \in Places /\ u \in a..(Size + 1)
      /\ u <= Size => m_pattern[u] = "%"
      /\ \A k \in a..(u - 1) : k <= Size => m_pattern[k] # "%"
  BY Zenon, <1>2, UptoIs
<1> HIDE DEF u
<1>5. u = b
  <2>1. CASE u < b
    <3>1. u <= Size /\ u \in a..(b - 1)
      BY SMTT(10), <1>1, <1>4, <2>1 DEF Places
    <3>2. QED
      BY Zenon, <3>1, <1>4
  <2>2. CASE b < u
    <3>1. b <= Size /\ b \in a..(u - 1)
      BY SMTT(10), <1>1, <1>4, <2>2 DEF Places
    <3>2. QED
      BY Zenon, <3>1, <1>4
  <2>3. QED
    BY SMTT(10), <1>4, <2>1, <2>2 DEF Places
<1>6. Format!Upto("%", a) = b
  BY <1>5 DEF u
<1>7. QED
  BY Zenon, <1>2, <1>3, <1>6, MeaningIs DEF Read, Size

\* A conversion, whose % is at n.
LEMMA MeaningOfConversion ==
    ASSUME Reads, NEW n \in Places, n < Size, m_pattern[n] = "%"
    PROVE  LET c == m_pattern[n + 1] IN
           Format!Meaning[n] =
             IF c # "d" THEN <<Format!Conversion(c)>> \o Format!Meaning[n + 2]
             ELSE IF Format!At(n + 2) = "{"
             THEN <<Format!Dated(SubSeq(m_pattern, n + 3, Format!Upto("}", n + 3) - 1))>>
                     \o Format!Meaning[Format!Upto("}", n + 3) + 1]
             ELSE <<Format!Dated(<<>>)>> \o Format!Meaning[n + 2]
<1>1. n <= Size /\ ~(n > Size) /\ n # Size /\ n + 1 <= Size
  BY DEF Places, Reads, Size
<1>2. Format!At(n) = "%" /\ Format!At(n + 1) = m_pattern[n + 1]
  BY Zenon, <1>1 DEF Format!At, Size
<1>3. QED
  BY Zenon, <1>1, <1>2, MeaningIs DEF Read, Size

\* It is a sequence of pieces.
LEMMA MeaningType ==
    ASSUME Reads, NEW n \in Places
    PROVE  Format!Meaning[n] \in Seq(Pieces)
<1> DEFINE T == {k \in Nat : \A x \in Places : x + k > Size => Format!Meaning[x] \in Seq(Pieces)}
<1>1. Size \in Nat
  BY DEF Reads, Size
<1>2. 0 \in T
  <2>1. ASSUME NEW x \in Places, x + 0 > Size
        PROVE  Format!Meaning[x] \in Seq(Pieces)
    <3>1. x > Size
      BY <2>1 DEF Places
    <3>2. Format!Meaning[x] = <<>>
      BY <3>1, MeaningEnds
    <3>3. QED
      BY <3>2
  <2>2. QED
    BY <2>1
<1>3. ASSUME NEW k \in Nat, k \in T
      PROVE  k + 1 \in T
  <2>1. \A x \in Places : x + k > Size => Format!Meaning[x] \in Seq(Pieces)
    BY <1>3
  <2>2. ASSUME NEW x \in Places, x + (k + 1) > Size
        PROVE  Format!Meaning[x] \in Seq(Pieces)
    <3>1. \A y \in Places : y > x => Format!Meaning[y] \in Seq(Pieces)
      <4>1. ASSUME NEW y \in Places, y > x
            PROVE  y + k > Size
        BY SMTT(10), <1>1, <2>2, <4>1 DEF Places
      <4>2. QED
        BY Zenon, <2>1, <4>1
    <3>2. CASE x > Size
      <4>1. Format!Meaning[x] = <<>>
        BY <3>2, MeaningEnds
      <4>2. QED
        BY <4>1
    <3>3. CASE x <= Size /\ m_pattern[x] # "%"
      <4> DEFINE u == Format!Upto("%", x)
                 e == Format!Text(SubSeq(m_pattern, x, u - 1))
      <4>1. u \in Places /\ u > x /\ u <= Size + 1
        <5>1. x <= Size + 1 /\ Format!At(x) # "%"
          BY <1>1, <3>3 DEF Places, Format!At, Size
        <5>2. u \in x..(Size + 1)
          BY Zenon, <5>1, UptoIs
        <5>3. u \in Places /\ u > x
          BY Zenon, <3>3, <5>1, ReadsOn
        <5> HIDE DEF u
        <5>4. QED
          BY SMTT(10), <1>1, <5>2, <5>3
      <4>2. Format!Meaning[x] = <<e>> \o Format!Meaning[u]
        <5>1. ~(x > Size) /\ Format!At(x) # "%"
          BY <1>1, <3>3 DEF Places, Format!At, Size
        <5>2. QED
          BY Zenon, <5>1, MeaningIs DEF Read, Size
      <4>3. e \in Pieces
        <5>1. u - 1 \in Nat /\ u - 1 <= Size
          <6> HIDE DEF u
          <6>1. QED
            BY SMTT(10), <1>1, <4>1 DEF Places
        <5>2. SubSeq(m_pattern, x, u - 1) \in Seq(Characters)
          BY <5>1, Slice
        <5> HIDE DEF u
        <5>3. QED
          BY <5>2 DEF Pieces, Format!Text
      <4>4. Format!Meaning[u] \in Seq(Pieces)
        BY Zenon, <3>1, <4>1
      <4> HIDE DEF e, u
      <4>5. QED
        BY <4>2, <4>3, <4>4, Joined
    <3>4. CASE x = Size /\ m_pattern[x] = "%"
      <4>1. Format!Meaning[x] = <<>>
        BY <3>4, MeaningOfPercent
      <4>2. QED
        BY <4>1
    <3>5. CASE x < Size /\ m_pattern[x] = "%"
      <4>1. m_pattern[x + 1] \in Characters
        <5>1. m_pattern \in Seq(Characters) /\ x + 1 \in 1..Len(m_pattern)
          BY <1>1, <3>5 DEF Reads, Places, Size
        <5>2. QED
          BY <5>1
      <4>2. x + 2 \in Places /\ x + 2 > x /\ x + 3 \in Places
        BY DEF Places
      <4>3. Format!Meaning[x + 2] \in Seq(Pieces)
        BY Zenon, <3>1, <4>2
      <4>4. CASE m_pattern[x + 1] # "d"
        <5>1. Format!Meaning[x] = <<Format!Conversion(m_pattern[x + 1])>> \o Format!Meaning[x + 2]
          BY <3>5, <4>4, MeaningOfConversion
        <5>2. Format!Conversion(m_pattern[x + 1]) \in Pieces
          BY <4>1 DEF Format!Conversion, Pieces
        <5>3. QED
          BY <4>3, <5>1, <5>2, Joined
      <4>5. CASE m_pattern[x + 1] = "d" /\ Format!At(x + 2) # "{"
        <5>1. Format!Meaning[x] = <<Format!Dated(<<>>)>> \o Format!Meaning[x + 2]
          BY <3>5, <4>5, MeaningOfConversion
        <5>2. Format!Dated(<<>>) \in Pieces
          BY DEF Format!Dated, Pieces
        <5>3. QED
          BY <4>3, <5>1, <5>2, Joined
      <4>6. CASE m_pattern[x + 1] = "d" /\ Format!At(x + 2) = "{"
        <5> DEFINE u == Format!Upto("}", x + 3)
                   e == Format!Dated(SubSeq(m_pattern, x + 3, u - 1))
        <5>1. Format!Meaning[x] = <<e>> \o Format!Meaning[u + 1]
          BY <3>5, <4>6, MeaningOfConversion
        <5>2. u + 1 \in Places /\ u + 1 > x /\ u \in (x + 3)..(Size + 1)
          <6>1. x <= Size
            BY <1>1, <3>5 DEF Places
          <6>2. x + 3 <= Size + 1
            BY Zenon, <6>1, <4>6, ReadsOn
          <6>3. u \in (x + 3)..(Size + 1)
            BY Zenon, <4>2, <6>2, UptoIs
          <6>4. u + 1 \in Places /\ u + 1 > x
            BY Zenon, <6>1, <6>2, ReadsOn
          <6>5. QED
            BY Zenon, <6>3, <6>4
        <5>3. e \in Pieces
          <6>1. u - 1 \in Nat /\ u - 1 <= Size
            <7> HIDE DEF u
            <7>1. QED
              BY SMTT(10), <1>1, <5>2 DEF Places
          <6>2. SubSeq(m_pattern, x + 3, u - 1) \in Seq(Characters)
            BY <6>1, <4>2, Slice
          <6> HIDE DEF u
          <6>3. QED
            BY <6>2 DEF Pieces, Format!Dated
        <5>4. Format!Meaning[u + 1] \in Seq(Pieces)
          BY Zenon, <3>1, <5>2
        <5> HIDE DEF e, u
        <5>5. QED
          BY <5>1, <5>3, <5>4, Joined
      <4>7. QED
        BY Zenon, <4>4, <4>5, <4>6
    <3>6. QED
      <4>1. x > Size \/ x <= Size
        BY <1>1 DEF Places
      <4>2. x <= Size => x = Size \/ x < Size
        BY <1>1 DEF Places
      <4>3. QED
        BY Zenon, <3>2, <3>3, <3>4, <3>5, <4>1, <4>2
  <2>3. QED
    BY <2>2
<1>4. Size \in T
  <2> HIDE DEF T
  <2>1. Nat \subseteq T
    BY <1>2, <1>3, SetInduction
  <2>2. QED
    BY <1>1, <2>1
<1>5. n + Size > Size
  BY <1>1 DEF Places
<1>6. QED
  BY Zenon, <1>4, <1>5

-----------------------------------------------------------------------------
(* The inductive invariant.                                                *)

\* Where the text or the conversion begins that the loop is in.
Begun == IF parsing_string THEN scan - Len(tmp) ELSE scan - 1

Parsed == [type : {0, 1}, value : Seq(Characters)]

FormatTypes ==
    /\ m_pattern \in Patterns
    /\ scan \in Places /\ scan <= Size + 3
    /\ tmp \in Seq(Characters) /\ dateformat \in Seq(Characters)
    /\ patterns \in Seq(Parsed) /\ m_items \in Seq(Pieces)
    /\ parsing_string \in BOOLEAN /\ m_error \in BOOLEAN /\ formatted \in BOOLEAN

\* tmp is the text since Begun; outside of text a % stands there.
TextRead ==
    /\ Begun \in Places
    /\ parsing_string =>
         /\ scan <= Size + 1 \/ tmp = <<>>
         /\ tmp = SubSeq(m_pattern, Begun, scan - 1)
         /\ \A k \in Begun..(scan - 1) : m_pattern[k] # "%"
    /\ ~parsing_string => tmp = <<>> /\ scan <= Size + 1 /\ m_pattern[scan - 1] = "%"

NoDate == \A k \in DOMAIN patterns : patterns[k] # Format!Conversion("d")

\* What is found so far, as items, and the meaning from Begun on are the meaning
\* of the pattern.
Shown(p, date) == IF p = Format!Conversion("d") THEN Format!Dated(date) ELSE p
Found == [k \in DOMAIN patterns |-> Shown(patterns[k], dateformat)]

FoundMatches == Format!OneDate => Found \o Format!Meaning[Begun] = Format!Meaning[1]

FormatInv ==
    /\ FormatTypes
    /\ NoDate => dateformat = <<>>
    /\ Format!ItemsMatchPattern
    /\ ~formatted => TextRead /\ m_items = <<>> /\ FoundMatches

LEMMA PatternReads ==
    ASSUME PatternsAssumption, m_pattern \in Patterns
    PROVE  Reads
  BY DEF PatternsAssumption, Reads, Size

LEMMA FormatInit ==
    ASSUME PatternsAssumption, Format!Init
    PROVE  FormatInv
<1> USE DEF Format!Init
<1>1. Reads
  BY PatternReads
<1>2. Size \in Nat
  BY <1>1 DEF Reads, Size
<1>3. FormatTypes
  <2>1. 1 \in Places /\ 1 <= Size + 3
    BY <1>2 DEF Places
  <2>2. <<>> \in Seq(Characters) /\ <<>> \in Seq(Parsed) /\ <<>> \in Seq(Pieces)
    OBVIOUS
  <2>3. QED
    BY Zenon, <2>1, <2>2 DEF FormatTypes
<1>4. Begun = 1 /\ 1 \in Places
  BY DEF Begun, Places
<1>5. TextRead
  <2>1. SubSeq(m_pattern, 1, 0) = <<>> /\ 1 - 1 = 0 /\ 1..0 = {}
    BY SubSeqEmpty
  <2>2. QED
    BY Zenon, <1>4, <2>1 DEF TextRead
<1>6. Found = <<>>
  BY DEF Found
<1>7. Format!Meaning[1] \in Seq(Pieces)
  BY <1>1, <1>4, MeaningType
<1>8. <<>> \o Format!Meaning[1] = Format!Meaning[1]
  BY <1>7, ConcatEmptySeq
<1>9. FoundMatches
  BY Zenon, <1>4, <1>6, <1>8 DEF FoundMatches
<1>10. Format!ItemsMatchPattern
  BY DEF Format!ItemsMatchPattern
<1>11. QED
  BY Zenon, <1>3, <1>5, <1>9, <1>10 DEF FormatInv

\* A piece that is found goes to the end of those found before, and a date is
\* the first.
LEMMA Grows ==
    ASSUME FormatTypes, NoDate => dateformat = <<>>, NEW e \in Parsed,
           patterns' = Append(patterns, e),
           e # Format!Conversion("d") => dateformat' = dateformat
    PROVE  /\ patterns' \in Seq(Parsed)
           /\ Format!OneDate' => Format!OneDate
           /\ Format!OneDate' /\ e = Format!Conversion("d") => NoDate
           /\ Format!OneDate' => Found' = Append(Found, Shown(e, dateformat'))
           /\ NoDate' => e # Format!Conversion("d") /\ NoDate
           /\ Found \in Seq(Pieces)
<1> DEFINE n == Len(patterns)
           date == Format!Conversion("d")
<1>1. /\ patterns \in Seq(Parsed) /\ n \in Nat /\ DOMAIN patterns = 1..n
      /\ patterns' \in Seq(Parsed) /\ Len(patterns') = n + 1 /\ DOMAIN patterns' = 1..(n + 1)
      /\ \A k \in 1..n : patterns'[k] = patterns[k]
      /\ patterns'[n + 1] = e
  BY AppendProperties DEF FormatTypes
<1>2. date' = date
  BY DEF Format!Conversion
<1>3. \A k \in 1..n : k \in 1..(n + 1) /\ k # n + 1
  BY <1>1
<1>4. n + 1 \in 1..(n + 1)
  BY <1>1
<1> HIDE DEF date
<1>5. Format!OneDate' => Format!OneDate
  BY Zenon, <1>1, <1>2, <1>3 DEF Format!OneDate, date
<1>6. Format!OneDate' /\ e = date => NoDate
  <2>1. ASSUME Format!OneDate', e = date, NEW k \in 1..n, patterns[k] = date
        PROVE  FALSE
    <3>1. patterns'[k] = date' /\ patterns'[n + 1] = date'
      BY Zenon, <1>1, <1>2, <2>1
    <3>2. k = n + 1
      BY Zenon, <1>1, <1>3, <1>4, <2>1, <3>1 DEF Format!OneDate, date
    <3>3. QED
      BY Zenon, <1>3, <3>2
  <2>2. QED
    BY Zenon, <1>1, <2>1 DEF NoDate, date
<1>7. NoDate' => e # date /\ NoDate
  BY Zenon, <1>1, <1>2, <1>3, <1>4 DEF NoDate, date
<1>8. Found \in Seq(Pieces)
  <2>1. \A k \in 1..n : Shown(patterns[k], dateformat) \in Pieces
    <3>1. \A p \in Parsed : p \in Pieces
      BY DEF Parsed, Pieces
    <3>2. Format!Dated(dateformat) \in Pieces
      BY DEF Format!Dated, Pieces, FormatTypes
    <3>3. \A k \in 1..n : patterns[k] \in Parsed
      BY <1>1
    <3>4. QED
      BY Zenon, <3>1, <3>2, <3>3 DEF Shown
  <2>2. Found = [k \in 1..n |-> Shown(patterns[k], dateformat)]
    BY Zenon, <1>1 DEF Found
  <2> DEFINE item(k) == Shown(patterns[k], dateformat)
  <2>3. \A k \in 1..n : item(k) \in Pieces
    BY <2>1
  <2>4. Found = [k \in 1..n |-> item(k)]
    BY <2>2
  <2> HIDE DEF item
  <2>5. QED
    BY <1>1, <2>3, <2>4
<1>9. ASSUME Format!OneDate'
      PROVE  Found' = Append(Found, Shown(e, dateformat'))
  <2>1. ASSUME NEW k \in 1..n
        PROVE  Shown(patterns'[k], dateformat') = Shown(patterns[k], dateformat)
    <3>1. patterns'[k] = patterns[k]
      BY Zenon, <1>1
    <3>2. CASE e = date
      <4>1. patterns[k] # date
        BY Zenon, <1>1, <1>6, <1>9, <3>2 DEF NoDate, date
      <4>2. QED
        BY Zenon, <1>2, <3>1, <4>1 DEF Shown, date
    <3>3. CASE e # date
      <4>1. dateformat' = dateformat
        BY Zenon, <3>3 DEF date
      <4>2. QED
        BY Zenon, <1>2, <3>1, <4>1 DEF Shown, date
    <3>4. QED
      BY <3>2, <3>3
  <2>2. Found' = [k \in 1..(n + 1) |-> Shown(patterns'[k], dateformat')]
    BY Zenon, <1>1 DEF Found
  <2>3. Found = [k \in 1..n |-> Shown(patterns[k], dateformat)]
    BY Zenon, <1>1 DEF Found
  <2> DEFINE s == Found
             f == Found'
             x == Shown(e, dateformat')
  <2>4. \A k \in 1..n : f[k] = s[k]
    BY Zenon, <1>3, <2>1, <2>2, <2>3
  <2>5. f[n + 1] = x
    BY Zenon, <1>1, <1>4, <2>2
  <2>6. DOMAIN f = 1..(n + 1) /\ f = [k \in 1..(n + 1) |-> f[k]]
    BY Zenon, <2>2
  <2>7. Len(s) = n /\ s \in Seq(Pieces)
    <3>1. DOMAIN s = 1..n
      BY Zenon, <2>3
    <3>2. s \in Seq(Pieces)
      BY <1>8
    <3> HIDE DEF s
    <3>3. QED
      BY <1>1, <3>1, <3>2
  <2> HIDE DEF f, s, x
  <2> DEFINE a == Append(s, x)
  <2>8. Len(a) = n + 1 /\ DOMAIN a = 1..(n + 1) /\ a = [k \in 1..(n + 1) |-> a[k]]
        /\ (\A k \in 1..n : a[k] = s[k]) /\ a[n + 1] = x
    <3>1. s \in Seq(Pieces \cup {x}) /\ x \in Pieces \cup {x}
      BY <2>7
    <3>2. a \in Seq(Pieces \cup {x}) /\ Len(a) = n + 1 /\ a[n + 1] = x
          /\ (\A k \in 1..n : a[k] = s[k])
      BY <2>7, <3>1, AppendProperties
    <3> HIDE DEF a
    <3>3. QED
      BY <3>2
  <2> HIDE DEF a
  <2>9. \A k \in 1..(n + 1) : k \in 1..n \/ k = n + 1
    BY <1>1
  <2>10. \A k \in 1..(n + 1) : f[k] = a[k]
    BY Zenon, <2>4, <2>5, <2>8, <2>9
  <2>11. f = a
    BY Zenon, <2>6, <2>8, <2>10
  <2>12. QED
    BY <2>11 DEF f, s, x, a
<1>10. QED
  BY Zenon, <1>1, <1>5, <1>6, <1>7, <1>8, <1>9 DEF date

\* Meaning depends on nothing but the pattern.
FirstIn(p, c, n) ==
    IF \E k \in n..Len(p) : p[k] = c
    THEN CHOOSE k \in n..Len(p) : p[k] = c /\ \A j \in n..(k - 1) : p[j] # c
    ELSE Len(p) + 1

CharIn(p, n) == IF n <= Len(p) THEN p[n] ELSE "end"

ReadIn(p, f, n) ==
    IF n > Len(p) THEN <<>>
    ELSE IF CharIn(p, n) # "%"
    THEN <<Format!Text(SubSeq(p, n, FirstIn(p, "%", n) - 1))>> \o f[FirstIn(p, "%", n)]
    ELSE IF n = Len(p) THEN <<>>
    ELSE IF CharIn(p, n + 1) # "d"
    THEN <<Format!Conversion(CharIn(p, n + 1))>> \o f[n + 2]
    ELSE IF CharIn(p, n + 2) = "{"
    THEN <<Format!Dated(SubSeq(p, n + 3, FirstIn(p, "}", n + 3) - 1))>>
            \o f[FirstIn(p, "}", n + 3) + 1]
    ELSE <<Format!Dated(<<>>)>> \o f[n + 2]

MeaningIn(p) == CHOOSE f : f = [n \in Places |-> ReadIn(p, f, n)]

LEMMA MeaningStays ==
    ASSUME m_pattern' = m_pattern
    PROVE  Format!Meaning' = Format!Meaning
<1>1. Format!Meaning = MeaningIn(m_pattern)
  BY Zenon DEF Format!Meaning, Places, MeaningIn, ReadIn, CharIn, FirstIn, Format!At,
     Format!Upto
<1>2. Format!Meaning' = MeaningIn(m_pattern')
  BY Zenon DEF Format!Meaning, Places, MeaningIn, ReadIn, CharIn, FirstIn, Format!At,
     Format!Upto, Format!Text, Format!Conversion, Format!Dated
<1>3. QED
  BY Zenon, <1>1, <1>2

\* A loop that has found a conversion collects text again.
LEMMA Restarts ==
    ASSUME tmp' = <<>>, parsing_string' = TRUE, scan' \in Places
    PROVE  TextRead' /\ Begun' = scan'
<1>1. PICK n \in Places : n = scan'
  OBVIOUS
<1>2. Len(<<>>) = 0 /\ n - 0 = n
  BY DEF Places
<1>3. Begun' = n
  BY Zenon, <1>1, <1>2 DEF Begun
<1>4. SubSeq(m_pattern', n, n - 1) = <<>> /\ n..(n - 1) = {}
  BY SubSeqEmpty DEF Places
<1>5. QED
  BY Zenon, <1>1, <1>3, <1>4 DEF TextRead

\* The steps that go on with the loop keep what has no primes in it.
LEMMA GoesOn ==
    ASSUME PatternsAssumption, FormatInv, ~formatted, UNCHANGED <<m_pattern, formatted, m_items>>,
           FormatTypes', NoDate' => dateformat' = <<>>, TextRead',
           Format!OneDate' => Found' \o Format!Meaning[Begun'] = Format!Meaning[1]
    PROVE  FormatInv'
<1>1. Format!Meaning' = Format!Meaning
  BY MeaningStays
<1>2. FoundMatches'
  BY Zenon, <1>1 DEF FoundMatches
<1>3. Format!ItemsMatchPattern'
  BY Zenon DEF Format!ItemsMatchPattern
<1>4. m_items = <<>>
  BY DEF FormatInv
<1>5. QED
  BY Zenon, <1>2, <1>3, <1>4 DEF FormatInv

LEMMA LiteralStep ==
    ASSUME PatternsAssumption, FormatInv, Format!Literal
    PROVE  FormatInv'
<1> USE DEF Format!Literal, Format!Scanning
<1>1. Reads
  BY PatternReads DEF FormatInv, FormatTypes
<1>2. Size \in Nat /\ Size' = Size
  BY <1>1 DEF Reads, Size
<1>3. ~formatted /\ FormatTypes /\ TextRead /\ scan <= Size /\ scan \in Places
  BY DEF FormatInv, FormatTypes, Size
<1>4. Format!At(scan) = m_pattern[scan] /\ m_pattern[scan] # "%" /\ m_pattern[scan] \in Characters
  BY <1>1, <1>2, <1>3 DEF Format!At, Reads, Size, Places
<1>5. tmp' \in Seq(Characters) /\ Len(tmp') = Len(tmp) + 1 /\ Len(tmp) \in Nat
      /\ tmp' = tmp \o <<m_pattern[scan]>>
  <2>1. tmp' = Append(tmp, m_pattern[scan]) /\ tmp \in Seq(Characters)
    BY Zenon, <1>3, <1>4 DEF FormatTypes
  <2> DEFINE c == m_pattern[scan]
  <2>2. c \in Characters
    BY <1>4
  <2> HIDE DEF c
  <2>3. Append(tmp, c) \in Seq(Characters) /\ Len(Append(tmp, c)) = Len(tmp) + 1
        /\ Append(tmp, c) = tmp \o <<c>>
    BY <2>1, <2>2, AppendProperties, AppendIsConcat
  <2>4. Len(tmp) \in Nat
    BY <2>1
  <2>5. QED
    BY Zenon, <2>1, <2>3, <2>4 DEF c
<1>6. Begun' = Begun /\ Begun = scan - Len(tmp) /\ scan' = scan + 1 /\ Begun \in Places
  <2>1. Begun = scan - Len(tmp) /\ Begun' = scan' - Len(tmp')
    BY Zenon DEF Begun
  <2>2. scan' = scan + 1
    OBVIOUS
  <2>3. Begun \in Places
    BY <1>3 DEF TextRead
  <2>4. scan' - Len(tmp') = scan - Len(tmp)
    BY SMTT(10), <1>3, <1>5, <2>2 DEF Places
  <2>5. QED
    BY <2>1, <2>2, <2>3, <2>4
<1>7. FormatTypes'
  BY <1>2, <1>3, <1>5 DEF FormatTypes, Places
<1>8. tmp' = SubSeq(m_pattern, Begun, scan)
      /\ \A k \in Begun..scan : m_pattern[k] # "%"
  <2>1. tmp = SubSeq(m_pattern, Begun, scan - 1)
        /\ \A k \in Begun..(scan - 1) : m_pattern[k] # "%"
    BY <1>3 DEF TextRead
  <2> DEFINE s == Begun
  <2>2. s \in Places /\ s <= scan
    BY <1>3, <1>5, <1>6 DEF Places
  <2> HIDE DEF s
  <2>3. m_pattern \in Seq(Characters) /\ s \in 1..Len(m_pattern) /\ scan \in s..Len(m_pattern)
    BY <1>1, <1>2, <1>3, <2>2 DEF Reads, Size, Places
  <2>4. SubSeq(m_pattern, s, scan) = SubSeq(m_pattern, s, scan - 1) \o <<m_pattern[scan]>>
    BY <2>3, SubSeqRecursiveSecond
  <2>5. \A k \in s..scan : k = scan \/ k \in s..(scan - 1)
    BY <1>3, <2>2 DEF Places
  <2>6. QED
    BY Zenon, <1>4, <1>5, <2>1, <2>4, <2>5 DEF s
<1>9. TextRead'
  <2>1. scan' - 1 = scan /\ scan' <= Size' + 1
    BY SMTT(10), <1>2, <1>3, <1>6 DEF Places
  <2>2. QED
    BY Zenon, <1>3, <1>6, <1>8, <2>1 DEF TextRead
<1>10. Format!OneDate' => Found' \o Format!Meaning[Begun'] = Format!Meaning[1]
  <2>1. Found' = Found /\ (Format!OneDate' => Format!OneDate)
    BY Zenon DEF Found, Shown, Format!OneDate, Format!Conversion, Format!Dated
  <2>2. QED
    BY Zenon, <1>3, <1>6, <2>1 DEF FormatInv, FoundMatches
<1>11. NoDate' => dateformat' = <<>>
  BY Zenon DEF FormatInv, NoDate, Format!Conversion
<1>12. QED
  BY Zenon, <1>3, <1>7, <1>9, <1>10, <1>11, GoesOn

LEMMA PercentStep ==
    ASSUME PatternsAssumption, FormatInv, Format!Percent
    PROVE  FormatInv'
<1> USE DEF Format!Percent, Format!Scanning
<1>1. Reads
  BY PatternReads DEF FormatInv, FormatTypes
<1>2. Size \in Nat /\ Size' = Size
  BY <1>1 DEF Reads, Size
<1>3. ~formatted /\ FormatTypes /\ TextRead /\ scan <= Size /\ scan \in Places /\ parsing_string
      /\ scan' = scan + 1
  BY DEF FormatInv, FormatTypes, Size
<1>4. m_pattern[scan] = "%"
  BY Zenon, <1>2, <1>3 DEF Format!At, Size
<1>5. scan + 1 \in Places /\ scan + 1 <= Size + 3 /\ scan + 1 <= Size + 1 /\ (scan + 1) - 1 = scan
  BY SMTT(10), <1>2, <1>3 DEF Places
<1>6. Begun' = scan
  BY Zenon, <1>3, <1>5 DEF Begun
<1>7. TextRead'
  BY Zenon, <1>2, <1>3, <1>4, <1>5, <1>6 DEF TextRead
<1>8. CASE tmp = <<>>
  <2>1. Begun = scan
    <3>1. Begun = scan - Len(tmp) /\ Len(<<>>) = 0 /\ scan - 0 = scan
      BY <1>3 DEF Begun, Places
    <3>2. QED
      BY Zenon, <1>8, <3>1
  <2>2. patterns' = patterns
    BY <1>8
  <2>3. FormatTypes'
    <3>1. <<>> \in Seq(Characters)
      OBVIOUS
    <3>2. QED
      BY Zenon, <1>2, <1>3, <1>5, <2>2, <3>1 DEF FormatTypes
  <2>4. Format!OneDate' => Found' \o Format!Meaning[Begun'] = Format!Meaning[1]
    <3>1. Found' = Found /\ (Format!OneDate' => Format!OneDate)
      BY Zenon, <2>2 DEF Found, Shown, Format!OneDate, Format!Conversion, Format!Dated
    <3>2. QED
      BY Zenon, <1>3, <1>6, <2>1, <3>1 DEF FormatInv, FoundMatches
  <2>5. NoDate' => dateformat' = <<>>
    BY Zenon, <2>2 DEF FormatInv, NoDate, Format!Conversion
  <2>6. QED
    BY Zenon, <1>3, <1>7, <2>3, <2>4, <2>5, GoesOn
<1>9. CASE tmp # <<>>
  <2> DEFINE e == Format!Text(tmp)
  <2>1. e \in Parsed /\ e # Format!Conversion("d")
    BY <1>3 DEF Format!Text, Format!Conversion, Parsed, FormatTypes
  <2>2. patterns' = Append(patterns, e) /\ dateformat' = dateformat
    BY <1>9
  <2>3. Begun \in Places /\ Begun < scan
        /\ e = Format!Text(SubSeq(m_pattern, Begun, scan - 1))
        /\ \A k \in Begun..(scan - 1) : m_pattern[k] # "%"
    <3>1. tmp = SubSeq(m_pattern, Begun, scan - 1) /\ Begun \in Places
          /\ \A k \in Begun..(scan - 1) : m_pattern[k] # "%"
      BY <1>3 DEF TextRead
    <3>2. Begun = scan - Len(tmp) /\ Len(tmp) > 0
      BY <1>3, <1>9 DEF Begun, FormatTypes
    <3>3. Begun < scan
      <4> DEFINE s == Begun
      <4>1. s = scan - Len(tmp) /\ Len(tmp) \in Nat
        BY <1>3, <3>2 DEF FormatTypes
      <4> HIDE DEF s
      <4>2. s < scan
        BY SMTT(10), <1>3, <3>2, <4>1 DEF Places
      <4>3. QED
        BY <4>2 DEF s
    <3>4. QED
      BY Zenon, <3>1, <3>3
  <2> HIDE DEF e
  <2>4. /\ patterns' \in Seq(Parsed)
        /\ Format!OneDate' => Format!OneDate
        /\ Format!OneDate' => Found' = Append(Found, Shown(e, dateformat'))
        /\ NoDate' => NoDate
        /\ Found \in Seq(Pieces)
    BY <1>3, <2>1, <2>2, Grows DEF FormatInv
  <2>5. Shown(e, dateformat') = e /\ e \in Pieces
    <3>1. \A p \in Parsed : p \in Pieces
      BY DEF Parsed, Pieces
    <3>2. QED
      BY Zenon, <2>1, <3>1 DEF Shown
  <2>6. FormatTypes'
    <3>1. <<>> \in Seq(Characters)
      OBVIOUS
    <3>2. QED
      BY Zenon, <1>2, <1>3, <1>5, <2>4, <3>1 DEF FormatTypes
  <2>7. Format!Meaning[Begun] = <<e>> \o Format!Meaning[scan]
    <3>1. scan <= Size + 1
      BY <1>2, <1>3 DEF Places
    <3>2. QED
      BY <1>1, <1>3, <1>4, <2>3, <3>1, MeaningOfText
  <2>8. Format!Meaning[scan] \in Seq(Pieces)
    BY <1>1, <1>3, MeaningType
  <2>9. Append(Found, e) \o Format!Meaning[scan] = Found \o (<<e>> \o Format!Meaning[scan])
    <3> DEFINE f == Found
               m == Format!Meaning[scan]
    <3>1. f \in Seq(Pieces) /\ e \in Pieces /\ m \in Seq(Pieces)
      BY Zenon, <2>4, <2>5, <2>8
    <3> HIDE DEF f, m
    <3>2. Append(f, e) \o m = f \o (<<e>> \o m)
      BY <3>1, Joined
    <3>3. QED
      BY <3>2 DEF f, m
  <2>10. Format!OneDate' => Found' \o Format!Meaning[Begun'] = Format!Meaning[1]
    BY Zenon, <1>3, <1>6, <2>4, <2>5, <2>7, <2>9 DEF FormatInv, FoundMatches
  <2>11. NoDate' => dateformat' = <<>>
    BY Zenon, <2>2, <2>4 DEF FormatInv
  <2>12. QED
    BY Zenon, <1>3, <1>7, <2>6, <2>10, <2>11, GoesOn
<1>10. QED
  BY <1>8, <1>9

\* A conversion: the piece found and what it means, from the % on.
LEMMA Converts ==
    ASSUME PatternsAssumption, FormatInv, Format!Scanning, ~parsing_string,
           NEW e \in Parsed, patterns' = Append(patterns, e),
           parsing_string' = TRUE, tmp' = tmp, m_pattern' = m_pattern, m_items' = m_items,
           formatted' = formatted, m_error' \in BOOLEAN,
           dateformat' \in Seq(Characters), e # Format!Conversion("d") => dateformat' = dateformat,
           scan' \in Places, scan' <= Size + 3,
           Format!OneDate' =>
             Format!Meaning[scan - 1] = <<Shown(e, dateformat')>> \o Format!Meaning[scan']
    PROVE  FormatInv'
<1>1. Reads
  BY PatternReads DEF FormatInv, FormatTypes
<1>2. Size' = Size
  BY DEF Size
<1>3. ~formatted /\ FormatTypes /\ TextRead
  BY DEF FormatInv, Format!Scanning
<1>4. tmp = <<>> /\ Begun = scan - 1
  BY Zenon, <1>3 DEF TextRead, Begun
<1>5. TextRead' /\ Begun' = scan'
  BY Zenon, <1>4, Restarts
<1>6. /\ patterns' \in Seq(Parsed)
      /\ Format!OneDate' => Format!OneDate
      /\ Format!OneDate' => Found' = Append(Found, Shown(e, dateformat'))
      /\ NoDate' => e # Format!Conversion("d") /\ NoDate
      /\ Found \in Seq(Pieces)
  BY <1>3, Grows DEF FormatInv
<1>7. FormatTypes'
  BY Zenon, <1>2, <1>3, <1>6 DEF FormatTypes
<1>8. NoDate' => dateformat' = <<>>
  BY Zenon, <1>6 DEF FormatInv
<1>9. Shown(e, dateformat') \in Pieces
  <2>1. \A p \in Parsed : p \in Pieces
    BY DEF Parsed, Pieces
  <2>2. Format!Dated(dateformat') \in Pieces
    BY DEF Format!Dated, Pieces
  <2>3. QED
    BY Zenon, <2>1, <2>2 DEF Shown
<1>10. Format!Meaning[scan'] \in Seq(Pieces)
  BY <1>1, MeaningType
<1>11. Append(Found, Shown(e, dateformat')) \o Format!Meaning[scan']
         = Found \o (<<Shown(e, dateformat')>> \o Format!Meaning[scan'])
  <2> DEFINE f == Found
             x == Shown(e, dateformat')
             m == Format!Meaning[scan']
  <2>1. f \in Seq(Pieces) /\ x \in Pieces /\ m \in Seq(Pieces)
    BY Zenon, <1>6, <1>9, <1>10
  <2> HIDE DEF f, x, m
  <2>2. Append(f, x) \o m = f \o (<<x>> \o m)
    BY <2>1, Joined
  <2>3. QED
    BY <2>2 DEF f, x, m
<1>12. Format!OneDate' => Found' \o Format!Meaning[Begun'] = Format!Meaning[1]
  BY Zenon, <1>3, <1>4, <1>5, <1>6, <1>11 DEF FormatInv, FoundMatches
<1>13. QED
  BY Zenon, <1>3, <1>5, <1>7, <1>8, <1>12, GoesOn

LEMMA DatePiece ==
    ASSUME Reads, NEW n \in Places, n <= Size, m_pattern[n] = "d"
    PROVE  Format!Conversion("d") \in Parsed
<1>1. m_pattern[n] \in Characters
  BY DEF Reads, Size, Places
<1>2. \A c \in Characters : Format!Conversion(c) \in Parsed
  BY DEF Format!Conversion, Parsed
<1>3. QED
  BY Zenon, <1>1, <1>2

LEMMA ConvertStep ==
    ASSUME PatternsAssumption, FormatInv, Format!Convert
    PROVE  FormatInv'
<1> USE DEF Format!Convert
<1>1. Reads
  BY PatternReads DEF FormatInv, FormatTypes
<1>2. Size \in Nat
  BY <1>1 DEF Reads, Size
<1>3. ~formatted /\ FormatTypes /\ TextRead /\ scan <= Size /\ scan \in Places
  BY DEF FormatInv, FormatTypes, Size, Format!Scanning
<1>4. scan - 1 \in Places /\ scan - 1 < Size /\ (scan - 1) + 1 = scan /\ (scan - 1) + 2 = scan + 1
      /\ m_pattern[scan - 1] = "%" /\ scan + 1 \in Places /\ scan + 1 <= Size + 3
  <2>1. scan - 1 \in Places /\ m_pattern[scan - 1] = "%"
    BY Zenon, <1>3 DEF TextRead, Begun
  <2>2. QED
    BY SMTT(10), <1>2, <1>3, <2>1 DEF Places
<1> DEFINE c == m_pattern[scan]
           e == Format!Conversion(c)
<1>5. c \in Characters /\ c # "d" /\ Format!At(scan) = c
  <2>1. Format!At(scan) = c
    BY Zenon, <1>3 DEF Format!At, Size
  <2>2. c \in Characters
    BY <1>1, <1>2, <1>3 DEF Reads, Size, Places
  <2>3. QED
    BY Zenon, <2>1, <2>2
<1>6. Format!Meaning[scan - 1] = <<e>> \o Format!Meaning[scan + 1]
  BY Zenon, <1>1, <1>4, <1>5, MeaningOfConversion
<1>7. e \in Parsed /\ e # Format!Conversion("d")
  <2> HIDE DEF c
  <2>1. QED
    BY <1>5 DEF Format!Conversion, Parsed
<1>8. patterns' = Append(patterns, e)
  BY Zenon, <1>5
<1>9. Shown(e, dateformat') = e
  BY Zenon, <1>7 DEF Shown
<1>10. dateformat' = dateformat /\ dateformat' \in Seq(Characters) /\ m_error' \in BOOLEAN
  BY Zenon, <1>3 DEF FormatTypes
<1>11. parsing_string' = TRUE /\ tmp' = tmp /\ m_pattern' = m_pattern /\ m_items' = m_items
       /\ formatted' = formatted /\ scan' = scan + 1 /\ Format!Scanning /\ ~parsing_string
  OBVIOUS
<1> HIDE DEF e, Format!Convert
<1>12. Format!Meaning[scan - 1] = <<Shown(e, dateformat')>> \o Format!Meaning[scan']
  BY Zenon, <1>6, <1>9, <1>11
<1>13. QED
  BY Zenon, <1>4, <1>7, <1>8, <1>10, <1>11, <1>12, Converts

\* A date without braces, in the middle of the pattern or at its end.
LEMMA PlainDateStep ==
    ASSUME PatternsAssumption, FormatInv,
           \/ Format!PlainDate
           \/ Format!DateAtEnd /\ ~formatted'
    PROVE  FormatInv'
<1>1. Reads
  BY PatternReads DEF FormatInv, FormatTypes
<1>2. Size \in Nat
  BY <1>1 DEF Reads, Size
<1>3. /\ patterns' = Append(patterns, Format!Conversion("d"))
      /\ parsing_string' = TRUE /\ tmp' = tmp /\ m_pattern' = m_pattern /\ m_items' = m_items
      /\ formatted' = formatted /\ Format!Scanning /\ ~parsing_string
      /\ Format!At(scan) = "d" /\ Format!At(scan + 1) # "{"
      /\ dateformat' = dateformat /\ m_error' = m_error
      /\ scan' = scan + 1 \/ (scan' = scan + 3 /\ Format!At(scan + 1) = "end")
  BY DEF Format!PlainDate, Format!DateAtEnd
<1>4. ~formatted /\ FormatTypes /\ TextRead /\ scan <= Size /\ scan \in Places
  BY <1>3 DEF FormatInv, FormatTypes, Size, Format!Scanning
<1>5. scan - 1 \in Places /\ scan - 1 < Size /\ (scan - 1) + 1 = scan /\ (scan - 1) + 2 = scan + 1
      /\ m_pattern[scan - 1] = "%" /\ scan + 1 \in Places /\ scan + 1 <= Size + 3
      /\ scan + 3 \in Places /\ scan + 3 <= Size + 3
  <2>1. scan - 1 \in Places /\ m_pattern[scan - 1] = "%"
    BY Zenon, <1>3, <1>4 DEF TextRead, Begun
  <2>2. QED
    BY SMTT(10), <1>2, <1>4, <2>1 DEF Places
<1>6. m_pattern[scan] = "d"
  BY Zenon, <1>3, <1>4 DEF Format!At, Size
<1>7. Format!Meaning[scan - 1] = <<Format!Dated(<<>>)>> \o Format!Meaning[scan + 1]
  BY Zenon, <1>1, <1>3, <1>5, <1>6, MeaningOfConversion
<1>8. Format!Meaning[scan'] = Format!Meaning[scan + 1]
  <2>1. CASE scan' = scan + 1
    BY <2>1
  <2>2. CASE scan' = scan + 3 /\ Format!At(scan + 1) = "end"
    <3>1. scan + 1 > Size
      <4>1. CASE scan + 1 <= Size
        <5>1. Format!At(scan + 1) = m_pattern[scan + 1]
          BY Zenon, <4>1 DEF Format!At, Size
        <5>2. scan + 1 \in 1..Size
          BY <1>2, <1>4, <4>1 DEF Places
        <5>3. QED
          BY Zenon, <1>1, <2>2, <5>1, <5>2 DEF Reads
      <4>2. QED
        BY SMTT(10), <1>2, <1>4, <4>1 DEF Places
    <3>2. scan + 3 > Size
      BY SMTT(10), <1>2, <1>4, <3>1 DEF Places
    <3>3. QED
      BY Zenon, <1>1, <1>5, <2>2, <3>1, <3>2, MeaningEnds
  <2>3. QED
    BY <1>3, <2>1, <2>2
<1> DEFINE e == Format!Conversion("d")
<1>9. e \in Parsed
  BY Zenon, <1>1, <1>4, <1>6, DatePiece
<1>10. dateformat' \in Seq(Characters) /\ m_error' \in BOOLEAN
  BY Zenon, <1>3, <1>4 DEF FormatTypes
<1>11. scan' \in Places /\ scan' <= Size + 3
  BY Zenon, <1>3, <1>5
<1>12. ASSUME Format!OneDate'
       PROVE  Format!Meaning[scan - 1] = <<Shown(e, dateformat')>> \o Format!Meaning[scan']
  <2>1. NoDate
    BY <1>3, <1>4, <1>9, <1>12, Grows DEF FormatInv
  <2>2. dateformat' = <<>>
    BY Zenon, <1>3, <2>1 DEF FormatInv
  <2>3. Shown(e, dateformat') = Format!Dated(<<>>)
    BY Zenon, <2>2 DEF Shown
  <2>4. QED
    BY Zenon, <1>7, <1>8, <2>3
<1>13. patterns' = Append(patterns, e)
  BY <1>3
<1>14. e # Format!Conversion("d") => dateformat' = dateformat
  BY <1>3
<1> HIDE DEF e
<1>15. QED
  BY Zenon, <1>3, <1>9, <1>10, <1>11, <1>12, <1>13, <1>14, Converts

\* A date with a format in braces.
LEMMA DateStep ==
    ASSUME PatternsAssumption, FormatInv, Format!Date, ~formatted'
    PROVE  FormatInv'
<1> DEFINE u == Format!Upto("}", scan + 2)
           format == SubSeq(m_pattern, scan + 2, u - 1)
           e == Format!Conversion("d")
<1>1. Reads
  BY PatternReads DEF FormatInv, FormatTypes
<1>2. Size \in Nat
  BY <1>1 DEF Reads, Size
<1>3. /\ patterns' = Append(patterns, e)
      /\ parsing_string' = TRUE /\ tmp' = tmp /\ m_pattern' = m_pattern /\ m_items' = m_items
      /\ Format!Scanning /\ ~parsing_string /\ Format!At(scan) = "d" /\ Format!At(scan + 1) = "{"
      /\ Format!At(u) # "end" /\ dateformat' = dateformat \o format /\ m_error' = m_error
      /\ scan' = u + 1 /\ formatted' = formatted
  <2>1. Format!At(Format!Closing(scan + 2)) # "end"
    BY Zenon DEF Format!Date
  <2>2. QED
    BY Zenon, <2>1 DEF Format!Date, Format!Closing
<1>4. ~formatted /\ FormatTypes /\ TextRead /\ scan <= Size /\ scan \in Places
  BY <1>3 DEF FormatInv, FormatTypes, Size, Format!Scanning
<1>5. scan - 1 \in Places /\ scan - 1 < Size /\ (scan - 1) + 1 = scan /\ (scan - 1) + 2 = scan + 1
      /\ m_pattern[scan - 1] = "%" /\ scan + 2 \in Places /\ (scan - 1) + 3 = scan + 2
  <2>1. scan - 1 \in Places /\ m_pattern[scan - 1] = "%"
    BY Zenon, <1>3, <1>4 DEF TextRead, Begun
  <2>2. QED
    BY SMTT(10), <1>2, <1>4, <2>1 DEF Places
<1>6. m_pattern[scan] = "d"
  BY Zenon, <1>3, <1>4 DEF Format!At, Size
<1>7. Format!Meaning[scan - 1] = <<Format!Dated(format)>> \o Format!Meaning[u + 1]
  BY Zenon, <1>1, <1>3, <1>5, <1>6, MeaningOfConversion
<1>8. u \in Places /\ u <= Size /\ u >= scan + 2
  <2>1. u \in Places /\ (u <= Size => u >= scan + 2)
    BY Zenon, <1>1, <1>5, UptoIs
  <2>2. u <= Size
    BY Zenon, <1>3 DEF Format!At, Size
  <2>3. QED
    BY <2>1, <2>2
<1> HIDE DEF u
<1>9. scan' \in Places /\ scan' <= Size + 3
  <2>1. u + 1 \in Places /\ u + 1 <= Size + 3
    BY SMTT(10), <1>2, <1>8 DEF Places
  <2>2. QED
    BY Zenon, <1>3, <2>1
<1>10. format \in Seq(Characters)
  <2>1. u - 1 \in Nat /\ u - 1 <= Size
    BY SMTT(10), <1>2, <1>8 DEF Places
  <2>2. QED
    BY Zenon, <1>1, <1>5, <2>1, Slice
<1> HIDE DEF format
<1>11. dateformat' \in Seq(Characters) /\ m_error' \in BOOLEAN /\ <<>> \o format = format
  <2>1. dateformat \in Seq(Characters) /\ m_error' \in BOOLEAN
    BY Zenon, <1>3, <1>4 DEF FormatTypes
  <2>2. dateformat \o format \in Seq(Characters) /\ <<>> \o format = format
    BY <1>10, <2>1, ConcatProperties, ConcatEmptySeq
  <2>3. QED
    BY Zenon, <1>3, <2>1, <2>2
<1>12. e \in Parsed
  BY Zenon, <1>1, <1>4, <1>6, DatePiece
<1>13. ASSUME Format!OneDate'
       PROVE  Format!Meaning[scan - 1] = <<Shown(e, dateformat')>> \o Format!Meaning[scan']
  <2>1. NoDate
    BY <1>3, <1>4, <1>12, <1>13, Grows DEF FormatInv
  <2>2. dateformat' = format
    BY Zenon, <1>3, <1>11, <2>1 DEF FormatInv
  <2>3. Shown(e, dateformat') = Format!Dated(format)
    BY Zenon, <2>2 DEF Shown
  <2>4. QED
    BY Zenon, <1>3, <1>7, <2>3
<1>14. e # Format!Conversion("d") => dateformat' = dateformat
  OBVIOUS
<1> HIDE DEF e
<1>15. QED
  BY Zenon, <1>3, <1>9, <1>11, <1>12, <1>13, <1>14, Converts

-----------------------------------------------------------------------------
(* The items.                                                              *)

\* The first conversion nobody knows ends them.
LEMMA KnownIs ==
    ASSUME NEW all \in Seq(Parsed)
    PROVE  LET known == CHOOSE n \in 0..Len(all) :
                           /\ \A k \in 1..n : ~Format!Unknown(all[k])
                           /\ n < Len(all) => Format!Unknown(all[n + 1])
           IN  known \in 0..Len(all)
<1> DEFINE Right(n) == /\ \A k \in 1..n : ~Format!Unknown(all[k])
                       /\ n < Len(all) => Format!Unknown(all[n + 1])
           S == {n \in 0..Len(all) : n = Len(all) \/ Format!Unknown(all[n + 1])}
<1>1. Len(all) \in Nat
  OBVIOUS
<1>2. S \subseteq Nat /\ S # {}
  BY <1>1
<1>3. PICK least \in S : \A k \in S : least <= k
  BY <1>2, LeastOf
<1>4. least \in 0..Len(all) /\ (least = Len(all) \/ Format!Unknown(all[least + 1]))
  BY <1>3
<1>5. ASSUME NEW k \in 1..least
      PROVE  ~Format!Unknown(all[k])
  <2>1. k - 1 \in 0..Len(all) /\ k - 1 # Len(all) /\ (k - 1) + 1 = k /\ ~(least <= k - 1)
    BY SMTT(10), <1>1, <1>4
  <2>2. QED
    BY Zenon, <1>3, <2>1
<1>6. Right(least)
  BY <1>1, <1>4, <1>5
<1> HIDE DEF Right
<1>7. QED
  BY Zenon, <1>4, <1>6 DEF Right

\* What was made when the loop ended is the meaning, or the beginning of it.
LEMMA MakeStep ==
    ASSUME PatternsAssumption, FormatInv, Format!Make
    PROVE  FormatInv'
<1> DEFINE all == IF tmp = <<>> THEN patterns ELSE Append(patterns, Format!Text(tmp))
           known == CHOOSE n \in 0..Len(all) :
                       /\ \A k \in 1..n : ~Format!Unknown(all[k])
                       /\ n < Len(all) => Format!Unknown(all[n + 1])
           item(p) == Shown(p, dateformat)
<1>1. Reads
  BY PatternReads DEF FormatInv, FormatTypes
<1>2. Size \in Nat
  BY <1>1 DEF Reads, Size
<1>3. ~formatted /\ FormatTypes /\ TextRead /\ scan > Size /\ scan \in Places
  BY DEF FormatInv, FormatTypes, Size, Format!Make
<1>4. /\ m_items' = [k \in 1..known |-> item(all[k])]
      /\ m_error' = (known < Len(all))
      /\ formatted' = TRUE
      /\ m_pattern' = m_pattern /\ scan' = scan /\ tmp' = tmp /\ patterns' = patterns
      /\ dateformat' = dateformat /\ parsing_string' = parsing_string
  BY Zenon DEF Format!Make, Format!Item, Shown
<1>5. /\ all \in Seq(Parsed)
      /\ Format!OneDate => [k \in 1..Len(all) |-> item(all[k])] = Format!Meaning[1]
  <2>1. Found \in Seq(Pieces) /\ Found = [k \in 1..Len(patterns) |-> item(patterns[k])]
        /\ patterns \in Seq(Parsed) /\ Len(Found) = Len(patterns) /\ Len(patterns) \in Nat
    <3>1. patterns \in Seq(Parsed) /\ DOMAIN patterns = 1..Len(patterns) /\ Len(patterns) \in Nat
      BY <1>3 DEF FormatTypes
    <3>2. Found = [k \in 1..Len(patterns) |-> item(patterns[k])]
      BY Zenon, <3>1 DEF Found
    <3>3. \A k \in 1..Len(patterns) : item(patterns[k]) \in Pieces
      <4>1. \A p \in Parsed : p \in Pieces
        BY DEF Parsed, Pieces
      <4>2. Format!Dated(dateformat) \in Pieces
        BY <1>3 DEF Format!Dated, Pieces, FormatTypes
      <4>3. \A k \in 1..Len(patterns) : patterns[k] \in Parsed
        BY <3>1
      <4>4. QED
        BY Zenon, <4>1, <4>2, <4>3 DEF Shown
    <3> HIDE DEF item
    <3>4. [k \in 1..Len(patterns) |-> item(patterns[k])] \in Seq(Pieces)
          /\ Len([k \in 1..Len(patterns) |-> item(patterns[k])]) = Len(patterns)
      BY <3>1, <3>3
    <3>5. QED
      BY Zenon, <3>1, <3>2, <3>4
  <2>2. CASE tmp = <<>>
    <3>1. Begun \in Places /\ (Begun > Size \/ (Begun = Size /\ m_pattern[Begun] = "%"))
      <4>1. CASE parsing_string
        <5>1. Begun = scan - Len(tmp) /\ Len(<<>>) = 0 /\ scan - 0 = scan
          BY <1>3, <4>1 DEF Begun, Places
        <5>2. Begun = scan
          BY Zenon, <2>2, <5>1
        <5>3. QED
          BY <1>3, <5>2
      <4>2. CASE ~parsing_string
        <5>1. Begun = scan - 1 /\ Begun \in Places /\ scan <= Size + 1 /\ m_pattern[scan - 1] = "%"
          BY Zenon, <1>3, <4>2 DEF TextRead, Begun
        <5>2. scan - 1 = Size
          BY SMTT(10), <1>2, <1>3, <5>1 DEF Places
        <5>3. QED
          BY Zenon, <5>1, <5>2
      <4>3. QED
        BY <4>1, <4>2
    <3>2. Format!Meaning[Begun] = <<>>
      BY Zenon, <1>1, <3>1, MeaningEnds, MeaningOfPercent
    <3>3. Found \o <<>> = Found
      BY <2>1, ConcatEmptySeq
    <3>4. Format!OneDate => Found = Format!Meaning[1]
      BY Zenon, <1>3, <3>2, <3>3 DEF FormatInv, FoundMatches
    <3>5. all = patterns
      BY <2>2
    <3>6. QED
      BY Zenon, <2>1, <3>4, <3>5
  <2>3. CASE tmp # <<>>
    <3> DEFINE e == Format!Text(tmp)
               n == Len(patterns)
    <3>1. parsing_string /\ scan <= Size + 1 /\ tmp = SubSeq(m_pattern, Begun, scan - 1)
          /\ Begun \in Places /\ \A k \in Begun..(scan - 1) : m_pattern[k] # "%"
      BY Zenon, <1>3, <2>3 DEF TextRead
    <3>2. scan = Size + 1
      BY SMTT(10), <1>2, <1>3, <3>1 DEF Places
    <3>3. Begun < scan
      <4> DEFINE s == Begun
      <4>1. s = scan - Len(tmp) /\ Len(tmp) \in Nat /\ Len(tmp) # 0
        BY <1>3, <2>3, <3>1 DEF FormatTypes, Begun
      <4> HIDE DEF s
      <4>2. s < scan
        BY SMTT(10), <1>3, <4>1 DEF Places
      <4>3. QED
        BY <4>2 DEF s
    <3>4. Format!Meaning[Begun] = <<Format!Text(SubSeq(m_pattern, Begun, scan - 1))>> \o Format!Meaning[scan]
      <4>1. scan <= Size + 1 /\ ~(scan <= Size)
        BY SMTT(10), <1>2, <3>2
      <4>2. QED
        BY Zenon, <1>1, <1>3, <3>1, <3>3, <4>1, MeaningOfText
    <3>5. Format!Meaning[scan] = <<>>
      BY Zenon, <1>1, <1>3, MeaningEnds
    <3>6. e \in Parsed /\ e \in Pieces /\ item(e) = e
      <4>1. e \in Parsed /\ e # Format!Conversion("d")
        BY <1>3 DEF Format!Text, Format!Conversion, Parsed, FormatTypes
      <4>2. \A p \in Parsed : p \in Pieces
        BY DEF Parsed, Pieces
      <4>3. QED
        BY Zenon, <4>1, <4>2 DEF Shown
    <3>7. <<e>> \o <<>> = <<e>>
      <4> HIDE DEF e
      <4>1. <<e>> \in Seq(Pieces)
        BY <3>6
      <4>2. QED
        BY <4>1, ConcatEmptySeq
    <3>8. Format!OneDate => Found \o <<e>> = Format!Meaning[1]
      BY Zenon, <1>3, <3>1, <3>4, <3>5, <3>7 DEF FormatInv, FoundMatches
    <3>9. all = Append(patterns, e)
      BY <2>3
    <3> HIDE DEF e, all
    <3>10. all \in Seq(Parsed) /\ Len(all) = n + 1 /\ (\A k \in 1..n : all[k] = patterns[k])
           /\ all[n + 1] = e
      BY <2>1, <3>6, <3>9, AppendProperties
    <3> DEFINE f == Found
    <3>11. f \in Seq(Pieces) /\ Len(f) = n /\ \A k \in 1..n : f[k] = item(patterns[k])
      <4>1. \A k \in 1..n : Found[k] = item(patterns[k])
        BY Zenon, <2>1
      <4>2. QED
        BY <2>1, <4>1
    <3> HIDE DEF f, item
    <3> DEFINE g == f \o <<e>>
    <3>12. g \in Seq(Pieces) /\ Len(g) = n + 1 /\ (\A k \in 1..n : g[k] = f[k]) /\ g[n + 1] = e
      <4>1. g = Append(f, e)
        BY <3>6, <3>11, AppendIsConcat
      <4>2. QED
        BY <3>6, <3>11, <4>1, AppendProperties
    <3> HIDE DEF g
    <3>13. DOMAIN g = 1..(n + 1) /\ g = [k \in 1..(n + 1) |-> g[k]]
      BY <2>1, <3>12
    <3>14. \A k \in 1..(n + 1) : k \in 1..n \/ k = n + 1
      BY <2>1
    <3>15. \A k \in 1..(n + 1) : g[k] = item(all[k])
      BY Zenon, <3>6, <3>10, <3>11, <3>12, <3>14
    <3>16. g = [k \in 1..Len(all) |-> item(all[k])]
      BY Zenon, <3>10, <3>13, <3>15
    <3>17. QED
      BY Zenon, <3>8, <3>10, <3>16 DEF f, g
  <2>4. QED
    BY <2>2, <2>3
<1> HIDE DEF all
<1>6. known \in 0..Len(all) /\ Len(all) \in Nat
  <2>1. known \in 0..Len(all)
    BY Zenon, <1>5, KnownIs
  <2> HIDE DEF known
  <2>2. QED
    BY <1>5, <2>1
<1> HIDE DEF known
<1>7. \A k \in 1..Len(all) : item(all[k]) \in Pieces
  <2>1. \A p \in Parsed : p \in Pieces
    BY DEF Parsed, Pieces
  <2>2. Format!Dated(dateformat) \in Pieces
    BY <1>3 DEF Format!Dated, Pieces, FormatTypes
  <2>3. \A k \in 1..Len(all) : all[k] \in Parsed
    BY <1>5
  <2>4. QED
    BY Zenon, <2>1, <2>2, <2>3 DEF Shown
<1> HIDE DEF item
<1> DEFINE shown == [k \in 1..Len(all) |-> item(all[k])]
           made == [k \in 1..known |-> item(all[k])]
<1>8. shown \in Seq(Pieces) /\ Len(shown) = Len(all) /\ made \in Seq(Pieces) /\ Len(made) = known
      /\ \A k \in 1..known : made[k] = shown[k]
  BY <1>6, <1>7
<1>9. known = Len(all) => made = shown
  OBVIOUS
<1> HIDE DEF shown, made
<1>10. Format!IsPrefix(made, shown)
  <2>1. SubSeq(made, 1, known) = made
    BY <1>8, SubSeqFull
  <2>2. SubSeq(shown, 1, known) = made
    <3>1. 1 \in Int /\ known \in Int /\ \A k \in 1..known : shown[k] \in Pieces
      BY <1>6, <1>8
    <3> DEFINE s == SubSeq(shown, 1, known)
    <3>2. s \in Seq(Pieces) /\ Len(s) = known /\ \A k \in 1..known : s[k] = shown[k]
      <4>1. s \in Seq(Pieces) /\ Len(s) = (IF 1 <= known THEN known - 1 + 1 ELSE 0)
            /\ \A i \in 1..(known - 1 + 1) : s[i] = shown[1 + i - 1]
        BY <3>1, SubSeqProperties
      <4> HIDE DEF s
      <4>2. QED
        BY <1>6, <4>1
    <3> HIDE DEF s
    <3>3. s = made
      BY <1>6, <1>8, <3>2, SeqEqual
    <3>4. QED
      BY <3>3 DEF s
  <2>3. Len(made) <= Len(shown)
    BY <1>6, <1>8
  <2>4. QED
    BY <1>8, <2>1, <2>2, <2>3 DEF Format!IsPrefix
<1>11. Format!OneDate => shown = Format!Meaning[1]
  BY <1>5 DEF shown
<1>12. m_items' = made /\ (m_error' <=> known # Len(all)) /\ m_error' \in BOOLEAN
  <2>1. m_items' = made
    BY Zenon, <1>4 DEF made
  <2>2. known < Len(all) <=> known # Len(all)
    BY SMTT(10), <1>6
  <2>3. m_error' = (known < Len(all))
    BY Zenon, <1>4
  <2>4. m_error' \in BOOLEAN
    <3>1. CASE known < Len(all)
      BY <2>3, <3>1
    <3>2. CASE ~(known < Len(all))
      BY <2>3, <3>2
    <3>3. QED
      BY <3>1, <3>2
  <2>5. m_error' <=> known # Len(all)
    BY <2>2, <2>3
  <2>6. QED
    BY <2>1, <2>4, <2>5
<1>13. Format!Meaning' = Format!Meaning
  BY Zenon, <1>4, MeaningStays
<1>14. Format!OneDate' => Format!OneDate
  BY Zenon, <1>4 DEF Format!OneDate, Format!Conversion
<1>15. Format!ItemsMatchPattern'
  BY Zenon, <1>9, <1>10, <1>11, <1>12, <1>13, <1>14 DEF Format!ItemsMatchPattern, Format!IsPrefix
<1>16. FormatTypes'
  BY Zenon, <1>3, <1>4, <1>8, <1>12 DEF FormatTypes, Size
<1>17. NoDate' => dateformat' = <<>>
  BY Zenon, <1>4 DEF FormatInv, NoDate, Format!Conversion
<1>18. QED
  BY Zenon, <1>4, <1>15, <1>16, <1>17 DEF FormatInv

\* A date whose brace is not closed ends init() before an item is made.
LEMMA ErrorStep ==
    ASSUME PatternsAssumption, FormatInv, Format!Date \/ Format!DateAtEnd, formatted'
    PROVE  FormatInv'
<1>1. /\ patterns' = Append(patterns, Format!Conversion("d"))
      /\ parsing_string' = TRUE /\ tmp' = tmp /\ m_pattern' = m_pattern /\ m_items' = m_items
      /\ m_error' = TRUE /\ formatted' = TRUE /\ scan' = scan /\ dateformat' = dateformat
      /\ Format!Scanning /\ Format!At(scan) = "d"
  BY DEF Format!Date, Format!DateAtEnd, Format!Scanning
<1>2. Reads
  BY PatternReads DEF FormatInv, FormatTypes
<1>3. FormatTypes /\ m_items = <<>> /\ scan <= Size /\ scan \in Places
  BY <1>1 DEF FormatInv, Format!Scanning, Size, FormatTypes
<1>4. m_pattern[scan] = "d"
  BY Zenon, <1>1, <1>3 DEF Format!At, Size
<1>5. Format!Conversion("d") \in Parsed
  BY Zenon, <1>2, <1>3, <1>4, DatePiece
<1>6. /\ patterns' \in Seq(Parsed)
      /\ NoDate' => NoDate
  BY <1>1, <1>3, <1>5, Grows DEF FormatInv
<1>7. FormatTypes'
  BY Zenon, <1>1, <1>3, <1>6 DEF FormatTypes, Size
<1>8. NoDate' => dateformat' = <<>>
  BY Zenon, <1>1, <1>6 DEF FormatInv
<1>9. Format!ItemsMatchPattern'
  <2> DEFINE m == Format!Meaning[1]
  <2>1. 1 \in Places
    BY DEF Places
  <2>2. m \in Seq(Pieces)
    BY Zenon, <1>2, <2>1, MeaningType
  <2> HIDE DEF m
  <2>3. SubSeq(<<>>, 1, 0) = <<>> /\ SubSeq(m, 1, 0) = <<>> /\ Len(<<>>) = 0 /\ 0 <= Len(m)
    BY <2>2, SubSeqEmpty
  <2>4. Format!IsPrefix(<<>>, m)
    BY Zenon, <2>3 DEF Format!IsPrefix
  <2>5. Format!Meaning' = Format!Meaning
    BY Zenon, <1>1, MeaningStays
  <2>6. QED
    BY Zenon, <1>1, <1>3, <2>4, <2>5 DEF Format!ItemsMatchPattern, Format!IsPrefix, m
<1>10. QED
  BY Zenon, <1>1, <1>7, <1>8, <1>9 DEF FormatInv

LEMMA FormatNext ==
    ASSUME PatternsAssumption, FormatInv, [Format!Next]_(Format!vars)
    PROVE  FormatInv'
<1>1. CASE Format!Literal
  BY <1>1, LiteralStep
<1>2. CASE Format!Percent
  BY <1>2, PercentStep
<1>3. CASE Format!Convert
  BY <1>3, ConvertStep
<1>4. CASE Format!PlainDate
  BY <1>4, PlainDateStep
<1>5. CASE Format!Date
  BY <1>5, DateStep, ErrorStep
<1>6. CASE Format!DateAtEnd
  BY <1>6, PlainDateStep, ErrorStep
<1>7. CASE Format!Make
  BY <1>7, MakeStep
<1>8. CASE UNCHANGED Format!vars
  <2>1. /\ m_pattern' = m_pattern /\ scan' = scan /\ tmp' = tmp /\ patterns' = patterns
        /\ dateformat' = dateformat /\ parsing_string' = parsing_string /\ m_items' = m_items
        /\ m_error' = m_error /\ formatted' = formatted
    BY <1>8 DEF Format!vars
  <2>2. Format!Meaning' = Format!Meaning
    BY Zenon, <2>1, MeaningStays
  <2>3. FormatTypes'
    BY Zenon, <2>1 DEF FormatInv, FormatTypes, Size
  <2>4. NoDate' => dateformat' = <<>>
    BY Zenon, <2>1 DEF FormatInv, NoDate, Format!Conversion
  <2>5. Format!ItemsMatchPattern'
    BY Zenon, <2>1, <2>2 DEF FormatInv, Format!ItemsMatchPattern, Format!OneDate,
       Format!Conversion, Format!IsPrefix
  <2>6. Begun' = Begun
    BY Zenon, <2>1 DEF Begun
  <2>7. ~formatted => TextRead' /\ m_items' = <<>>
    BY Zenon, <2>1, <2>6 DEF FormatInv, TextRead, Size
  <2>8. ~formatted => FoundMatches'
    BY Zenon, <2>1, <2>2, <2>6 DEF FormatInv, FoundMatches, Found, Shown, Format!OneDate,
       Format!Conversion, Format!Dated
  <2>9. QED
    BY Zenon, <2>1, <2>3, <2>4, <2>5, <2>7, <2>8 DEF FormatInv
<1>9. QED
  BY Zenon, <1>1, <1>2, <1>3, <1>4, <1>5, <1>6, <1>7, <1>8 DEF Format!Next

LEMMA FormatInvariance == PatternsAssumption => (FormatSpec => []FormatInv)
<1> SUFFICES ASSUME PatternsAssumption PROVE FormatSpec => []FormatInv
  OBVIOUS
<1>1. Format!Init => FormatInv
  BY FormatInit
<1>2. FormatInv /\ [Format!Next]_(Format!vars) => FormatInv'
  BY FormatNext
<1>3. QED
  BY <1>1, <1>2, PTL DEF FormatSpec

\* LogFormatter::init() (log.cpp:288-450): for any pattern of any characters and
\* any conversions that are known, the items are what the pattern means, up to an
\* unknown conversion, if it has one date.
THEOREM ItemsMatch ==
    ASSUME PatternsAssumption
    PROVE  FormatSpec => []Format!ItemsMatchPattern
<1>1. FormatInv => Format!ItemsMatchPattern
  BY DEF FormatInv
<1>2. QED
  BY <1>1, FormatInvariance, PTL

\* TypeOK of LogFormatter: the loop runs at most two characters past the pattern.
THEOREM FormatTypeCorrect ==
    ASSUME PatternsAssumption
    PROVE  FormatSpec => []Format!TypeOK
<1>1. ASSUME FormatInv
      PROVE  Format!TypeOK
  <2>1. FormatTypes /\ Reads
    BY <1>1, PatternReads DEF FormatInv, FormatTypes
  <2>2. scan \in 1..(Len(m_pattern) + 3)
    BY <2>1 DEF FormatTypes, Reads, Size, Places
  <2>3. \A p \in Format!ToSet(patterns) : p.type \in 0..2
    <3>1. \A k \in DOMAIN patterns : patterns[k] \in Parsed
      BY <2>1 DEF FormatTypes
    <3>2. \A p \in Parsed : p.type \in 0..2
      BY DEF Parsed
    <3>3. QED
      BY Zenon, <3>1, <3>2 DEF Format!ToSet
  <2>4. \A p \in Format!ToSet(m_items) : p.type \in 0..2
    <3>1. \A k \in DOMAIN m_items : m_items[k] \in Pieces
      BY <2>1 DEF FormatTypes
    <3>2. \A p \in Pieces : p.type \in 0..2
      BY DEF Pieces
    <3>3. QED
      BY Zenon, <3>1, <3>2 DEF Format!ToSet
  <2>5. QED
    BY Zenon, <2>1, <2>2, <2>3, <2>4 DEF Format!TypeOK, FormatTypes
<1>2. QED
  BY <1>1, FormatInvariance, PTL

=============================================================================
