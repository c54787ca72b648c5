------------------------------- MODULE Locks --------------------------------
(***************************************************************************)
(* Threads and scoped locks (thread.cc, mutex.h, mutex.cc): the handshake  *)
(* of the constructor of Thread with the thread it starts, and the guards  *)
(* ScopedLockImpl, ReadScopedLockImpl and WriteScopedLockImpl over one     *)
(* Mutex or RWMutex.                                                       *)
(*                                                                         *)
(* A guard's m_locked has no initialiser (mutex.h:104, 158, 213) and its   *)
(* constructor calls lock(), which reads it: the value is whatever was on  *)
(* the stack, here a free choice.  With a stray true the mutex is not      *)
(* taken, and the destructor gives back what somebody else holds.          *)
(***************************************************************************)
EXTENDS Integers, FiniteSets

CONSTANTS
    Threads,    \* Thread objects, each started at most once
    MaxScopes,  \* bound: guards a thread constructs
    MaxStrays   \* bound: guards that find m_locked true on the stack

VARIABLES
    object,     \* Threads -> state of the Thread object
    thread,     \* Threads -> where the started thread is
    m_id,       \* Threads whose id and name are stored
    m_cb,       \* Threads whose callback is still in the object
    m_semaphore,\* Threads -> value of the semaphore
    kind,       \* "Mutex" or "RWMutex"
    writer,     \* the holders of the exclusive lock
    readers,    \* read locks held
    guard,      \* Threads -> the guard on the thread's stack
    scopes,     \* Threads -> guards constructed
    strays,     \* guards that began with a stray true
    misuse      \* the object was used after its destruction

starting == <<object, thread, m_id, m_cb, m_semaphore, misuse>>
locking == <<kind, writer, readers, guard, scopes, strays>>
vars == <<starting, locking>>

NoGuard == [at |-> "none", mode |-> "write", m_locked |-> FALSE]

TypeOK ==
    /\ object \in [Threads -> {"none", "waits", "ready", "joining", "gone"}]
    /\ thread \in [Threads -> {"none", "new", "named", "taken", "runs", "ended"}]
    /\ m_id \subseteq Threads /\ m_cb \subseteq Threads
    /\ m_semaphore \in [Threads -> 0..1]
    /\ kind \in {"Mutex", "RWMutex"}
    /\ writer \subseteq Threads
    /\ readers \in 0..Cardinality(Threads)
    /\ guard \in [Threads -> [at : {"none", "lock", "in", "open"},
                              mode : {"read", "write"}, m_locked : BOOLEAN]]
    /\ scopes \in [Threads -> 0..MaxScopes]
    /\ strays \in 0..MaxStrays
    /\ misuse \in BOOLEAN

Init ==
    /\ object = [t \in Threads |-> "none"]
    /\ thread = [t \in Threads |-> "none"]
    /\ m_id = {} /\ m_cb = {}
    /\ m_semaphore = [t \in Threads |-> 0]
    /\ kind \in {"Mutex", "RWMutex"}
    /\ writer = {} /\ readers = 0
    /\ guard = [t \in Threads |-> NoGuard]
    /\ scopes = [t \in Threads |-> 0]
    /\ strays = 0 /\ misuse = FALSE

-----------------------------------------------------------------------------
(* The start of a thread.                                                  *)

(* The constructor up to its wait on the semaphore.                        *)
Construct(t) ==
    /\ object[t] = "none"
    /\ object' = [object EXCEPT ![t] = "waits"]
    /\ thread' = [thread EXCEPT ![t] = "new"]
    /\ m_cb' = m_cb \cup {t}
    /\ UNCHANGED <<m_id, m_semaphore, misuse, locking>>

(* run() uses the object at every step before its notify().                *)
Touch(t) == misuse' = (misuse \/ object[t] = "gone")

StoreId(t) ==
    /\ thread[t] = "new"
    /\ thread' = [thread EXCEPT ![t] = "named"]
    /\ m_id' = m_id \cup {t}
    /\ Touch(t)
    /\ UNCHANGED <<object, m_cb, m_semaphore, locking>>

TakeCallback(t) ==
    /\ thread[t] = "named"
    /\ thread' = [thread EXCEPT ![t] = "taken"]
    /\ m_cb' = m_cb \ {t}
    /\ Touch(t)
    /\ UNCHANGED <<object, m_id, m_semaphore, locking>>

Notify(t) ==
    /\ thread[t] = "taken"
    /\ thread' = [thread EXCEPT ![t] = "runs"]
    /\ m_semaphore' = [m_semaphore EXCEPT ![t] = 1]
    /\ Touch(t)
    /\ UNCHANGED <<object, m_id, m_cb, locking>>

(* wait() returns and with it the constructor.                             *)
Wait(t) ==
    /\ object[t] = "waits" /\ m_semaphore[t] > 0
    /\ m_semaphore' = [m_semaphore EXCEPT ![t] = @ - 1]
    /\ object' = [object EXCEPT ![t] = "ready"]
    /\ UNCHANGED <<thread, m_id, m_cb, misuse, locking>>

(* SetName() writes through t_thread: nobody clears it when the object is  *)
(* destroyed before the thread ends, so the model lets only threads with a *)
(* live object rename themselves.                                          *)
SetName(t) ==
    /\ thread[t] = "runs" /\ object[t] # "gone"
    /\ m_id' = m_id \cup {t}
    /\ UNCHANGED <<object, thread, m_cb, m_semaphore, misuse, locking>>

(* The callback returns; a guard on its stack has been destroyed by then.  *)
End(t) ==
    /\ thread[t] = "runs" /\ guard[t].at = "none"
    /\ thread' = [thread EXCEPT ![t] = "ended"]
    /\ UNCHANGED <<object, m_id, m_cb, m_semaphore, misuse, locking>>

Join(t) ==
    /\ object[t] = "ready" /\ thread[t] = "ended"
    /\ object' = [object EXCEPT ![t] = "joining"]
    /\ UNCHANGED <<thread, m_id, m_cb, m_semaphore, misuse, locking>>

(* ~Thread() detaches a thread that was not joined.                        *)
Destroy(t) ==
    /\ object[t] \in {"ready", "joining"}
    /\ object' = [object EXCEPT ![t] = "gone"]
    /\ UNCHANGED <<thread, m_id, m_cb, m_semaphore, misuse, locking>>

-----------------------------------------------------------------------------
(* The guards.                                                             *)

Modes == IF kind = "Mutex" THEN {"write"} ELSE {"read", "write"}

(* The constructor begins: m_locked is what the stack held.                *)
Enter(t, mode, stray) ==
    /\ thread[t] = "runs" /\ guard[t].at = "none"
    /\ mode \in Modes
    /\ scopes[t] < MaxScopes
    /\ stray => strays < MaxStrays
    /\ scopes' = [scopes EXCEPT ![t] = @ + 1]
    /\ strays' = IF stray THEN strays + 1 ELSE strays
    /\ guard' = [guard EXCEPT ![t] = [at |-> "lock", mode |-> mode,
                                      m_locked |-> stray]]
    /\ UNCHANGED <<starting, kind, writer, readers>>

Acquire(t) ==
    /\ writer = {}
    /\ IF guard[t].mode = "read"
       THEN /\ readers' = readers + 1
            /\ UNCHANGED writer
       ELSE /\ readers = 0
            /\ writer' = {t}
            /\ UNCHANGED readers

(* lock(), from the constructor or again after unlock().                   *)
Lock(t) ==
    /\ guard[t].at = "lock"
    /\ IF guard[t].m_locked THEN UNCHANGED <<writer, readers>>
                            ELSE Acquire(t)
    /\ guard' = [guard EXCEPT ![t].at = "in", ![t].m_locked = TRUE]
    /\ UNCHANGED <<starting, kind, scopes, strays>>

ReleaseAsReader(t) ==
    /\ writer' = IF kind = "Mutex" THEN {} ELSE writer \ {t}
    /\ readers' = IF kind = "RWMutex" THEN readers - 1 ELSE readers

(* The mutex's unlock() does not ask who holds it; the rwlock's takes the  *)
(* caller for a reader unless it is the writer.                            *)
Release(t) ==
    /\ writer' = IF kind = "Mutex" THEN {} ELSE writer \ {t}
    /\ readers' = IF t \notin writer /\ readers > 0 THEN readers - 1 ELSE readers

GiveBack(t) ==
    IF guard[t].m_locked THEN Release(t) ELSE UNCHANGED <<writer, readers>>

UnlockKeeps(t) ==
    /\ guard[t].at = "in"
    /\ GiveBack(t)
    /\ guard' = [guard EXCEPT ![t].at = "open"]
    /\ UNCHANGED <<starting, kind, scopes, strays>>

(* unlock() before the end of the scope.                                   *)
Unlock(t) ==
    /\ guard[t].at = "in"
    /\ GiveBack(t)
    /\ guard' = [guard EXCEPT ![t].at = "open", ![t].m_locked = FALSE]
    /\ UNCHANGED <<starting, kind, scopes, strays>>

LockAgain(t) ==
    /\ guard[t].at = "open"
    /\ guard' = [guard EXCEPT ![t].at = "lock"]
    /\ UNCHANGED <<starting, kind, writer, readers, scopes, strays>>

(* The destructor.                                                         *)
Leave(t) ==
    /\ guard[t].at \in {"in", "open"}
    /\ GiveBack(t)
    /\ guard' = [guard EXCEPT ![t] = NoGuard]
    /\ UNCHANGED <<starting, kind, scopes, strays>>

Guard(t) ==
    \/ \E mode \in {"read", "write"}, stray \in BOOLEAN : Enter(t, mode, stray)
    \/ Lock(t) \/ Unlock(t) \/ LockAgain(t) \/ Leave(t)

Start(t) ==
    \/ Construct(t) \/ StoreId(t) \/ TakeCallback(t) \/ Notify(t) \/ Wait(t)
    \/ SetName(t) \/ End(t) \/ Join(t) \/ Destroy(t)

Next == \E t \in Threads : Start(t) \/ Guard(t)

Spec == Init /\ [][Next]_vars

-----------------------------------------------------------------------------
(* Without a stray guard, a writer is alone between lock() and unlock().   *)
WritersAreAlone ==
    strays = 0 =>
        \A t, u \in Threads :
            t # u /\ guard[t].at = "in" /\ guard[t].mode = "write"
                => guard[u].at # "in"

(* When the constructor has returned the id is stored and the callback     *)
(* taken, so that the caller may read the id and destroy the object.       *)
StartIsOrdered ==
    /\ ~misuse
    /\ \A t \in Threads : object[t] \in {"ready", "joining", "gone"}
                              => t \in m_id \ m_cb

(* Scoped locks and threads keep their promises (mutex.h:62-97,            *)
(* thread.cc:36-116): as long as no guard began with a stray m_locked a    *)
(* writer is alone, whatever unlock() and lock() again do before the       *)
(* destructor, and a Thread that has been constructed is not used by its   *)
(* thread's start any more.                                                *)
GuardedIsExclusive == WritersAreAlone /\ StartIsOrdered
=============================================================================
