------------------------------ MODULE FdEvents ------------------------------
(***************************************************************************)
(* The I/O events of sylar/iomanager.cc: fibers register for one event of  *)
(* a descriptor and give up their thread, idle threads collect what epoll  *)
(* reports and queue the fibers again, other fibers cancel registrations.  *)
(*                                                                         *)
(* A descriptor may have more than one FdContext in the life of an         *)
(* IOManager, so a context is a pair of its descriptor and its ordinal.    *)
(* epoll, which is edge-triggered here, and the state of the descriptors   *)
(* are the kernel's.                                                       *)
(***************************************************************************)
EXTENDS Integers, FiniteSets, FiniteSetsExt

CONSTANTS
    Fds,         \* the descriptors fibers use
    InitialSize, \* the table size the constructor asks for
    Waiters,     \* the fibers that wait for events
    Removers,    \* the fibers that remove them, like those that run the
                 \* timeouts of the hook layer
    Threads,     \* the scheduler's threads, in idle()
    MaxContexts, \* bound: FdContext objects made for one descriptor
    NoFiber,     \* an empty EventContext
    NoInterest   \* a descriptor epoll does not watch

Event == {"READ", "WRITE"}

Fibers == Waiters \cup Removers

\* What epoll may report: EPOLLIN, EPOLLOUT, and EPOLLERR or EPOLLHUP.
Condition == Event \cup {"HUP"}

Contexts == Fds \X (1..MaxContexts)

ASSUME FdAssumption == Fds \subseteq Nat /\ InitialSize \in Nat \ {0, 1}
ASSUME FiberAssumption == NoFiber \notin Waiters \cup Removers
ASSUME BoundAssumption == MaxContexts \in Nat \ {0}
ASSUME InterestAssumption == NoInterest \notin [events : SUBSET Event, ctx : Contexts]

VARIABLES
    size,      \* m_fdContexts.size()
    made,      \* the FdContext objects made for a descriptor; the table holds
               \* the last one when the descriptor is below the size
    events,    \* FdContext::events
    waiter,    \* the fiber in the EventContext of an event
    m_pendingEventCount,
    pc, call,  \* where a fiber is and the arguments of its call
    dropped,   \* fibers whose registration delEvent() has removed
    queued,    \* how often a fiber is in the task list
    interest,  \* kernel: the events and the context epoll has for a descriptor
    ready,     \* kernel: the conditions that hold of a descriptor
    rdllist,   \* kernel: the descriptors epoll has yet to report
    batch,     \* what a thread's epoll_wait() returned and it has not handled
    aborted    \* an assertion has failed

tableVars == <<size, made>>
registryVars == <<events, waiter, m_pendingEventCount>>
fiberVars == <<pc, call, dropped, queued>>
kernelVars == <<interest, ready, rdllist>>
vars == <<tableVars, registryVars, fiberVars, kernelVars, batch, aborted>>

NoCall == [fd |-> 0, event |-> "READ", ctx |-> <<0, 0>>]

Init ==
    /\ size = InitialSize
    /\ made = [fd \in Fds |-> IF fd < InitialSize THEN 1 ELSE 0]
    /\ events = [c \in Contexts |-> {}]
    /\ waiter = [c \in Contexts |-> [e \in Event |-> NoFiber]]
    /\ m_pendingEventCount = 0
    /\ pc = [f \in Fibers |-> "run"]
    /\ call = [f \in Fibers |-> NoCall]
    /\ dropped = {}
    /\ queued = [f \in Fibers |-> 0]
    /\ interest = [fd \in Fds |-> NoInterest]
    /\ ready = [fd \in Fds |-> {}]
    /\ rdllist = {}
    /\ batch = [th \in Threads |-> {}]
    /\ aborted = FALSE

-----------------------------------------------------------------------------
\* The table entry of a descriptor.
Slot(fd) == <<fd, made[fd]>>

InTable(c) == c[1] < size /\ c = Slot(c[1])

\* contextResize(n): entries from n on are dropped, new ones are made.
Made(n) == [fd \in Fds |-> IF size <= fd /\ fd < n THEN made[fd] + 1 ELSE made[fd]]

\* The context whose mutex fiber f holds between epoll_ctl() and the rest of
\* addEvent().
Locked(c) == \E f \in Fibers : pc[f] = "register" /\ call[f].ctx = c

\* What epoll_wait() can return of conditions s to somebody interested in es.
Reported(s, es) == s \cap (es \cup {"HUP"})

\* epoll_ctl(): adding or modifying looks whether the descriptor is ready.
Watch(fd, es, c) ==
    /\ interest' = [interest EXCEPT ![fd] = [events |-> es, ctx |-> c]]
    /\ rdllist' = IF Reported(ready[fd], es) # {} THEN rdllist \cup {fd} ELSE rdllist
    /\ UNCHANGED ready

Unwatch(fd) ==
    /\ interest' = [interest EXCEPT ![fd] = NoInterest]
    /\ rdllist' = rdllist \ {fd}
    /\ UNCHANGED ready

\* EPOLL_CTL_MOD when some event is left, EPOLL_CTL_DEL otherwise.
Rewatch(fd, es, c) == IF es = {} THEN Unwatch(fd) ELSE Watch(fd, es, c)

\* The EventContexts of es are reset, in step with events and the count.
Unregister(c, es) ==
    /\ events' = [events EXCEPT ![c] = @ \ es]
    /\ waiter' = [waiter EXCEPT ![c] = [e \in Event |->
                                         IF e \in es THEN NoFiber ELSE @[e]]]
    /\ m_pendingEventCount' = m_pendingEventCount - Cardinality(es)

\* triggerEvent(): schedule the fibers of es.
Schedule(c, es) ==
    queued' = [f \in Fibers |-> queued[f] + Cardinality({e \in es : waiter[c][e] = f})]

-----------------------------------------------------------------------------
\* One event of a descriptor must not be added twice (iomanager.cc:208); the
\* callers see to it.
MayAdd(fd, e) ==
    /\ \A c \in Contexts : c[1] = fd => e \notin events[c]
    /\ \A f \in Fibers : pc[f] \in {"grow", "add", "register"}
                           => call[f].fd # fd \/ call[f].event # e

Enter(f, l, fd, e, c) ==
    /\ pc' = [pc EXCEPT ![f] = l]
    /\ call' = [call EXCEPT ![f] = [fd |-> fd, event |-> e, ctx |-> c]]
    /\ UNCHANGED <<dropped, queued>>

Return(f) ==
    /\ pc' = [pc EXCEPT ![f] = "run"]
    /\ call' = [call EXCEPT ![f] = NoCall]

\* addEvent() looks the descriptor up under the read lock.
LookUpToAdd(f) ==
    /\ f \in Waiters
    /\ pc[f] = "run"
    /\ \E fd \in Fds, e \in Event :
         /\ MayAdd(fd, e)
         /\ IF fd < size THEN Enter(f, "add", fd, e, Slot(fd))
                         ELSE Enter(f, "grow", fd, e, <<0, 0>>)
    /\ UNCHANGED <<tableVars, registryVars, kernelVars, batch, aborted>>

\* A descriptor beyond the table: resize it under the write lock, whatever
\* its size may be by now.
Grow(f) ==
    LET fd == call[f].fd
        n  == (fd * 3) \div 2
    IN  /\ pc[f] = "grow"
        /\ \A g \in Fds : Made(n)[g] <= MaxContexts
        /\ size' = n
        /\ made' = Made(n)
        /\ Enter(f, "add", fd, call[f].event, <<fd, made'[fd]>>)
    /\ UNCHANGED <<registryVars, kernelVars, batch, aborted>>

\* epoll_ctl() under the context's mutex, once the event is seen not to be
\* there, which MayAdd ensures.  It fails when EPOLL_CTL_ADD finds the
\* descriptor watched or EPOLL_CTL_MOD does not.
WatchEvent(f) ==
    LET fd == call[f].fd
        c  == call[f].ctx
    IN  /\ pc[f] = "add"
        /\ ~Locked(c)
        /\ call[f].event \notin events[c]
        /\ IF events[c] = {} <=> interest[fd] = NoInterest
             THEN /\ Watch(fd, events[c] \cup {call[f].event}, c)
                  /\ pc' = [pc EXCEPT ![f] = "register"]
                  /\ UNCHANGED call
             ELSE Return(f) /\ UNCHANGED kernelVars
    /\ UNCHANGED <<tableVars, registryVars, dropped, queued, batch, aborted>>

\* The rest of addEvent(), after which the caller gives up its thread.
Register(f) ==
    LET c == call[f].ctx
        e == call[f].event
    IN  /\ pc[f] = "register"
        /\ m_pendingEventCount' = m_pendingEventCount + 1
        /\ events' = [events EXCEPT ![c] = @ \cup {e}]
        /\ waiter' = [waiter EXCEPT ![c][e] = f]
        /\ pc' = [pc EXCEPT ![f] = "wait"]
    /\ UNCHANGED <<tableVars, call, dropped, queued, kernelVars, batch, aborted>>

\* run() takes a queued fiber from the list and resumes it.
Resume(f) ==
    /\ pc[f] = "wait"
    /\ queued[f] > 0
    /\ queued' = [queued EXCEPT ![f] = @ - 1]
    /\ Return(f)
    /\ UNCHANGED <<tableVars, registryVars, dropped, kernelVars, batch, aborted>>

-----------------------------------------------------------------------------
\* delEvent(), cancelEvent() and cancelAll() give up at a descriptor beyond
\* the table and otherwise take its context from it under the read lock.
LookUp(f) ==
    /\ f \in Removers
    /\ pc[f] = "run"
    /\ \E fd \in {g \in Fds : g < size} :
         \/ \E e \in Event, l \in {"del", "cancel"} : Enter(f, l, fd, e, Slot(fd))
         \/ Enter(f, "cancelAll", fd, NoCall.event, Slot(fd))
    /\ UNCHANGED <<tableVars, registryVars, kernelVars, batch, aborted>>

\* The guard the three have in common: something to remove, and epoll_ctl()
\* finds the descriptor watched.
Removes(f, es) ==
    /\ ~Locked(call[f].ctx)
    /\ es # {}
    /\ interest[call[f].fd] # NoInterest

NothingToRemove(f) ==
    LET c == call[f].ctx
        es == IF pc[f] = "cancelAll" THEN events[c] ELSE events[c] \cap {call[f].event}
    IN  /\ pc[f] \in {"del", "cancel", "cancelAll"}
        /\ ~Locked(c)
        /\ ~Removes(f, es)
        /\ Return(f)
    /\ UNCHANGED <<tableVars, registryVars, dropped, queued, kernelVars, batch, aborted>>

\* Mutant of DelEvent: the count is left alone.
DelEventUncounted(f) ==
    LET c == call[f].ctx
        e == call[f].event
    IN  /\ pc[f] = "del"
        /\ Removes(f, events[c] \cap {e})
        /\ Rewatch(c[1], events[c] \ {e}, c)
        /\ events' = [events EXCEPT ![c] = @ \ {e}]
        /\ waiter' = [waiter EXCEPT ![c][e] = NoFiber]
        /\ dropped' = dropped \cup {waiter[c][e]}
        /\ Return(f)
    /\ UNCHANGED <<tableVars, m_pendingEventCount, queued, batch, aborted>>

\* delEvent(): the event goes without being triggered.
DelEvent(f) ==
    LET c == call[f].ctx
        e == call[f].event
    IN  /\ pc[f] = "del"
        /\ Removes(f, events[c] \cap {e})
        /\ Rewatch(c[1], events[c] \ {e}, c)
        /\ Unregister(c, {e})
        /\ dropped' = dropped \cup {waiter[c][e]}
        /\ Return(f)
    /\ UNCHANGED <<tableVars, queued, batch, aborted>>

\* Mutant of CancelEvent: epoll forgets the descriptor's other event too.
CancelEventUnwatches(f) ==
    LET c == call[f].ctx
        e == call[f].event
    IN  /\ pc[f] = "cancel"
        /\ Removes(f, events[c] \cap {e})
        /\ Unwatch(c[1])
        /\ Schedule(c, {e})
        /\ Unregister(c, {e})
        /\ Return(f)
    /\ UNCHANGED <<tableVars, dropped, batch, aborted>>

\* Mutant of CancelEvent: the triggered event is not cleared.
CancelEventKeeps(f) ==
    LET c == call[f].ctx
        e == call[f].event
    IN  /\ pc[f] = "cancel"
        /\ Removes(f, events[c] \cap {e})
        /\ Rewatch(c[1], events[c] \ {e}, c)
        /\ Schedule(c, {e})
        /\ Return(f)
    /\ UNCHANGED <<tableVars, registryVars, dropped, batch, aborted>>

\* cancelEvent(): the event is triggered and goes.
CancelEvent(f) ==
    LET c == call[f].ctx
        e == call[f].event
    IN  /\ pc[f] = "cancel"
        /\ Removes(f, events[c] \cap {e})
        /\ Rewatch(c[1], events[c] \ {e}, c)
        /\ Schedule(c, {e})
        /\ Unregister(c, {e})
        /\ Return(f)
    /\ UNCHANGED <<tableVars, dropped, batch, aborted>>

\* Mutant of CancelAll: it counts two events, whichever were registered.
CancelAllCountsTwo(f) ==
    LET c == call[f].ctx
    IN  /\ pc[f] = "cancelAll"
        /\ Removes(f, events[c])
        /\ Unwatch(c[1])
        /\ Schedule(c, events[c])
        /\ events' = [events EXCEPT ![c] = {}]
        /\ waiter' = [waiter EXCEPT ![c] = [e \in Event |-> NoFiber]]
        /\ m_pendingEventCount' = m_pendingEventCount - 2
        /\ Return(f)
    /\ UNCHANGED <<tableVars, dropped, batch, aborted>>

\* cancelAll(): every event is triggered and goes.
CancelAll(f) ==
    LET c == call[f].ctx
    IN  /\ pc[f] = "cancelAll"
        /\ Removes(f, events[c])
        /\ Unwatch(c[1])
        /\ Schedule(c, events[c])
        /\ Unregister(c, events[c])
        /\ Return(f)
    /\ UNCHANGED <<tableVars, dropped, batch, aborted>>

-----------------------------------------------------------------------------
\* Whether epoll has anything to report of descriptor fd.
Fires(fd) ==
    /\ fd \in rdllist
    /\ interest[fd] # NoInterest
    /\ Reported(ready[fd], interest[fd].events) # {}

\* epoll_wait() returns what is ready, each descriptor with the pointer it was
\* registered with.
EpollWait(th) ==
    /\ batch[th] = {}
    /\ \E fd \in Fds : Fires(fd)
    /\ batch' = [batch EXCEPT ![th] =
                   {[ctx |-> interest[fd].ctx,
                     got |-> Reported(ready[fd], interest[fd].events)] :
                    fd \in {g \in Fds : Fires(g)}}]
    /\ rdllist' = {}
    /\ UNCHANGED <<tableVars, registryVars, fiberVars, interest, ready, aborted>>

\* real_events: an error or a hang-up counts as every event registered now.
Real(b) ==
    (b.got \cup IF "HUP" \in b.got THEN events[b.ctx] ELSE {}) \cap Event

Handled(th, b) == batch' = [batch EXCEPT ![th] = @ \ {b}]

\* Mutant of SkipEvent: the context's mutex is not taken.
SkipEventUnlocked(th) ==
    /\ \E b \in batch[th] :
         /\ \/ events[b.ctx] \cap Real(b) = {}
            \/ interest[b.ctx[1]] = NoInterest
         /\ Handled(th, b)
    /\ UNCHANGED <<tableVars, registryVars, fiberVars, kernelVars, aborted>>

\* None of them is registered any more, or epoll_ctl() fails.
SkipEvent(th) ==
    /\ \E b \in batch[th] :
         /\ ~Locked(b.ctx)
         /\ \/ events[b.ctx] \cap Real(b) = {}
            \/ interest[b.ctx[1]] = NoInterest
         /\ Handled(th, b)
    /\ UNCHANGED <<tableVars, registryVars, fiberVars, kernelVars, aborted>>

\* Mutant of HandleEvent: epoll forgets the descriptor's other event too.
HandleEventUnwatches(th) ==
    /\ \E b \in batch[th] :
         LET c == b.ctx
             real == Real(b)
         IN  /\ ~Locked(c)
             /\ events[c] \cap real # {}
             /\ interest[c[1]] # NoInterest
             /\ Unwatch(c[1])
             /\ Handled(th, b)
             /\ IF real \subseteq events[c]
                  THEN /\ Schedule(c, real)
                       /\ Unregister(c, real)
                       /\ UNCHANGED aborted
                  ELSE /\ aborted' = TRUE
                       /\ UNCHANGED <<registryVars, queued>>
    /\ UNCHANGED <<tableVars, pc, call, dropped>>

\* The events that happened leave epoll and the context, and their fibers are
\* scheduled; triggerEvent() asserts that each of them is registered.
HandleEvent(th) ==
    /\ \E b \in batch[th] :
         LET c == b.ctx
             real == Real(b)
         IN  /\ ~Locked(c)
             /\ events[c] \cap real # {}
             /\ interest[c[1]] # NoInterest
             /\ Rewatch(c[1], events[c] \ real, c)
             /\ Handled(th, b)
             /\ IF real \subseteq events[c]
                  THEN /\ Schedule(c, real)
                       /\ Unregister(c, real)
                       /\ UNCHANGED aborted
                  ELSE /\ aborted' = TRUE
                       /\ UNCHANGED <<registryVars, queued>>
    /\ UNCHANGED <<tableVars, pc, call, dropped>>

-----------------------------------------------------------------------------
\* The peers and the fibers' own reads and writes change what holds of a
\* descriptor; a hang-up stays.
BecomeReady(fd) ==
    /\ \E s \in Condition \ ready[fd] :
         /\ ready' = [ready EXCEPT ![fd] = @ \cup {s}]
         /\ rdllist' = IF /\ interest[fd] # NoInterest
                          /\ Reported({s}, interest[fd].events) # {}
                         THEN rdllist \cup {fd} ELSE rdllist
    /\ UNCHANGED <<tableVars, registryVars, fiberVars, interest, batch, aborted>>

BecomeUnready(fd) ==
    /\ \E e \in Event \cap ready[fd] : ready' = [ready EXCEPT ![fd] = @ \ {e}]
    /\ UNCHANGED <<tableVars, registryVars, fiberVars, interest, rdllist, batch, aborted>>

Call(f) ==
    \/ Grow(f) \/ WatchEvent(f) \/ Register(f) \/ Resume(f)
    \/ NothingToRemove(f) \/ DelEvent(f) \/ CancelEvent(f) \/ CancelAll(f)

Idle(th) == EpollWait(th) \/ SkipEvent(th) \/ HandleEvent(th)

\* SYLAR_ASSERT ends the process.
Aborted == aborted /\ UNCHANGED vars

Next ==
    \/ /\ ~aborted
       /\ \/ \E f \in Fibers : LookUpToAdd(f) \/ LookUp(f) \/ Call(f)
          \/ \E th \in Threads : Idle(th)
          \/ \E fd \in Fds : BecomeReady(fd) \/ BecomeUnready(fd)
    \/ Aborted

\* The operating system runs every thread: one that holds a context's mutex
\* goes on, and an idle one that needs it gets it when it is free often enough.
Fairness ==
    /\ \A f \in Waiters : WF_vars(~aborted /\ Register(f))
    /\ \A th \in Threads : SF_vars(~aborted /\ Idle(th))

Spec == Init /\ [][Next]_vars
FairSpec == Spec /\ Fairness

-----------------------------------------------------------------------------
TypeOK ==
    /\ size \in Nat
    /\ made \in [Fds -> 0..MaxContexts]
    /\ events \in [Contexts -> SUBSET Event]
    /\ waiter \in [Contexts -> [Event -> Fibers \cup {NoFiber}]]
    /\ m_pendingEventCount \in Nat
    /\ pc \in [Fibers -> {"run", "grow", "add", "register", "wait",
                          "del", "cancel", "cancelAll"}]
    /\ \A f \in Fibers : pc[f] \in {"add", "register", "wait", "del", "cancel", "cancelAll"}
                           => call[f].ctx \in Contexts /\ call[f].event \in Event
    /\ dropped \subseteq Fibers
    /\ queued \in [Fibers -> Nat]
    /\ interest \in [Fds -> [events: SUBSET Event, ctx: Contexts] \cup {NoInterest}]
    /\ ready \in [Fds -> SUBSET Condition]
    /\ rdllist \subseteq Fds
    /\ batch \in [Threads -> SUBSET [ctx: Contexts, got: SUBSET Condition]]
    /\ aborted \in BOOLEAN

\* The events fiber f is registered for.
Registrations(f) == {ce \in Contexts \X Event : waiter[ce[1]][ce[2]] = f}

\* A fiber that waits has either one registration or one wake-up in the list,
\* and no other fiber has any: however reports, cancellations and new
\* registrations interleave, nobody is woken twice, for a registration that is
\* gone, or not at all.
OneWakePerWait ==
    ~aborted => \A f \in Fibers :
        Cardinality(Registrations(f)) + queued[f] =
            IF pc[f] = "wait" /\ f \notin dropped THEN 1 ELSE 0

\* The count that keeps the IOManager from stopping is the number of fibers
\* that still wait for an event.
PendingMatches ==
    ~aborted => m_pendingEventCount =
        Cardinality({f \in Fibers : pc[f] = "wait" /\ queued[f] = 0 /\ f \notin dropped})

\* epoll watches for exactly the registered events, except for the one an
\* addEvent() is about to register.
InterestMatches ==
    ~aborted => \A c \in Contexts : InTable(c) =>
        LET adding == {call[f].event : f \in {g \in Fibers :
                          pc[g] = "register" /\ call[g].ctx = c}}
            es == events[c] \cup adding
        IN  interest[c[1]] = IF es = {} THEN NoInterest ELSE [events |-> es, ctx |-> c]

\* Edge-triggered epoll reports a condition once, and the report may reach a
\* thread before, while or after the event is registered again: a registered
\* event that is ready is in epoll's list or in the batch of some thread.
ReadyIsReported ==
    ~aborted => \A c \in Contexts : \A e \in events[c] :
        e \in ready[c[1]] =>
            \/ c[1] \in rdllist
            \/ \E th \in Threads : \E b \in batch[th] : b.ctx = c /\ e \in Real(b)

\* A fiber whose event stays ready is scheduled.
ReadyIsServed ==
    \A c \in Contexts, e \in Event :
        (e \in events[c] /\ e \in ready[c[1]])
          ~> (e \notin events[c] \/ e \notin ready[c[1]] \/ aborted)

\* Every event that is triggered has been registered (iomanager.cc:93).
NoFailedAssertion == ~aborted

\* Every context that has a registration can be found by its descriptor
\* (iomanager.h:38), so that the registration can be cancelled.
RegisteredIsInTable == \A c \in Contexts : events[c] # {} => InTable(c)
=============================================================================
