--------------------------- MODULE FdEventsProofs ---------------------------
(***************************************************************************)
(* Proofs about FdEvents for every set of descriptors, fibers and threads  *)
(* and every bound on the contexts of a descriptor.                        *)
(***************************************************************************)
EXTENDS FdEvents, FiniteSetTheorems, TLAPS

-----------------------------------------------------------------------------
(* Contexts.                                                               *)

\* The locations at which a fiber holds a context it has looked up.
Placed == {"add", "register", "wait", "del", "cancel", "cancelAll"}

\* The FdContext has been made, whether or not the table still has it.
Exists(c) == c[2] <= made[c[1]]

Calls == [fd : Fds \cup {0}, event : Event, ctx : Contexts \cup {<<0, 0>>}]

\* Whoever holds a context holds one that was made for its descriptor.
Places ==
    /\ size >= 2
    /\ call \in [Fibers -> Calls]
    /\ \A fd \in Fds : fd < size => made[fd] >= 1
    /\ \A f \in Fibers : pc[f] = "grow" => call[f].fd \in Fds /\ call[f].fd >= 2
    /\ \A f \in Fibers : pc[f] \in Placed =>
         call[f].ctx \in Contexts /\ Exists(call[f].ctx) /\ call[f].fd = call[f].ctx[1]
    /\ \A c \in Contexts : events[c] # {} => Exists(c)
    /\ \A fd \in Fds : interest[fd] # NoInterest =>
         interest[fd].ctx[1] = fd /\ Exists(interest[fd].ctx)
    /\ \A th \in Threads : \A b \in batch[th] : Exists(b.ctx)

LEMMA ContextFacts ==
    ASSUME NEW c \in Contexts
    PROVE  c[1] \in Fds /\ c[2] \in 1..MaxContexts /\ c = <<c[1], c[2]>>
BY DEF Contexts

\* A descriptor with one context has no other.
LEMMA OnlyContext ==
    ASSUME TypeOK, NEW c \in Contexts, Exists(c), made[c[1]] <= 1
    PROVE  c = <<c[1], 1>>
<1>1. c[1] \in Fds /\ c[2] \in 1..MaxContexts /\ c = <<c[1], c[2]>>
  BY ContextFacts
<1>2. made[c[1]] \in Nat /\ MaxContexts \in Nat
  BY <1>1, BoundAssumption DEF TypeOK
<1>3. c[2] = 1
  BY <1>1, <1>2 DEF Exists
<1>4. QED
  BY <1>1, <1>3

LEMMA FirstContext ==
    ASSUME NEW fd \in Fds
    PROVE  <<fd, 1>> \in Contexts
BY BoundAssumption DEF Contexts

\* The table entry of a descriptor below the size.
LEMMA SlotFacts ==
    ASSUME TypeOK, Places, NEW fd \in Fds, fd < size
    PROVE  Slot(fd) \in Contexts /\ Exists(Slot(fd)) /\ Slot(fd)[1] = fd
<1>1. made[fd] \in 1..MaxContexts
  BY BoundAssumption DEF TypeOK, Places
<1>2. QED
  BY <1>1 DEF Slot, Contexts, Exists

\* addEvent() grows the table beyond the descriptor it could not find.
LEMMA GrowsPast ==
    ASSUME NEW fd \in Nat, fd >= 2
    PROVE  (fd * 3) \div 2 \in Nat /\ (fd * 3) \div 2 > fd
OBVIOUS

LEMMA MadeGrows ==
    ASSUME TypeOK, NEW n \in Nat, NEW fd \in Fds
    PROVE  /\ Made(n)[fd] \in Nat
           /\ Made(n)[fd] >= made[fd]
           /\ (fd < size => made[fd] >= 1) /\ fd < n => Made(n)[fd] >= 1
BY FdAssumption, BoundAssumption DEF TypeOK, Made

-----------------------------------------------------------------------------
(* Types.                                                                  *)

LEMMA InitTypes == Init => TypeOK /\ Places
<1> SUFFICES ASSUME Init PROVE TypeOK /\ Places
  OBVIOUS
<1>1. InitialSize \in Nat /\ InitialSize >= 2 /\ MaxContexts \in Nat /\ MaxContexts >= 1
  BY FdAssumption, BoundAssumption
<1>2. TypeOK
  <2>1. waiter \in [Contexts -> [Event -> Fibers \cup {NoFiber}]]
    BY DEF Init
  <2>2. made \in [Fds -> 0..MaxContexts]
    BY <1>1 DEF Init
  <2>3. QED
    BY <1>1, <2>1, <2>2 DEF Init, TypeOK
<1>3. call \in [Fibers -> Calls]
  BY DEF Init, Calls, NoCall, Event
<1>4. Places
  BY <1>1, <1>3, FdAssumption DEF Init, Places, Placed
<1>5. QED
  BY <1>2, <1>4

\* Watching and unwatching a descriptor.
LEMMA WatchTypes ==
    ASSUME TypeOK, Places, NEW c \in Contexts, Exists(c), NEW es \in SUBSET Event,
           Rewatch(c[1], es, c) \/ Watch(c[1], es, c) \/ Unwatch(c[1])
    PROVE  /\ interest' \in [Fds -> [events: SUBSET Event, ctx: Contexts] \cup {NoInterest}]
           /\ rdllist' \subseteq Fds
           /\ ready' = ready
           /\ \A fd \in Fds : interest'[fd] # NoInterest =>
                interest'[fd].ctx[1] = fd /\ Exists(interest'[fd].ctx)
<1>1. c[1] \in Fds
  BY ContextFacts
<1>2. CASE Watch(c[1], es, c)
  BY <1>1, <1>2 DEF TypeOK, Places, Watch
<1>3. CASE Unwatch(c[1])
  BY <1>1, <1>3 DEF TypeOK, Places, Unwatch
<1>4. QED
  BY <1>2, <1>3 DEF Rewatch

\* A fiber enters a call or leaves it.
LEMMA EnterTypes ==
    ASSUME TypeOK, Places, NEW f \in Fibers, NEW l \in Placed, NEW c \in Contexts,
           NEW e \in Event, Enter(f, l, c[1], e, c)
    PROVE  /\ pc' \in [Fibers -> {"run", "grow"} \cup Placed]
           /\ call' \in [Fibers -> Calls]
           /\ pc'[f] = l /\ call'[f].ctx = c /\ call'[f].fd = c[1] /\ call'[f].event = e
           /\ \A g \in Fibers : g # f => pc'[g] = pc[g] /\ call'[g] = call[g]
           /\ dropped' = dropped /\ queued' = queued
<1>1. c[1] \in Fds
  BY ContextFacts
<1>2. [fd |-> c[1], event |-> e, ctx |-> c] \in Calls
  BY <1>1 DEF Calls
<1>3. QED
  BY <1>2 DEF TypeOK, Places, Enter, Placed

LEMMA ReturnTypes ==
    ASSUME TypeOK, Places, NEW f \in Fibers, Return(f)
    PROVE  /\ pc' \in [Fibers -> {"run", "grow"} \cup Placed]
           /\ call' \in [Fibers -> Calls]
           /\ pc'[f] = "run"
           /\ \A g \in Fibers : g # f => pc'[g] = pc[g] /\ call'[g] = call[g]
<1>1. NoCall \in Calls
  BY DEF Calls, NoCall, Event
<1>2. QED
  BY <1>1 DEF TypeOK, Places, Return, Placed

\* The calls leave the rest of the state as well typed as they found it.
LEMMA CallerTypes ==
    ASSUME TypeOK, Places, NEW f \in Fibers,
           LookUpToAdd(f) \/ LookUp(f) \/ Grow(f) \/ WatchEvent(f) \/ Register(f) \/ Resume(f),
           m_pendingEventCount' \in Nat
    PROVE  TypeOK' /\ Places'
<1> USE DEF Placed
<1>1. CASE LookUpToAdd(f)
  <2>1. PICK fd \in Fds, e \in Event :
          IF fd < size THEN Enter(f, "add", fd, e, Slot(fd))
                       ELSE Enter(f, "grow", fd, e, <<0, 0>>)
    BY <1>1 DEF LookUpToAdd
  <2>2. CASE fd < size
    <3>1. Slot(fd) \in Contexts /\ Exists(Slot(fd)) /\ Slot(fd)[1] = fd
      BY <2>2, SlotFacts
    <3>2. Enter(f, "add", Slot(fd)[1], e, Slot(fd))
      BY <2>1, <2>2, <3>1
    <3>3. /\ pc' \in [Fibers -> {"run", "grow"} \cup Placed]
          /\ call' \in [Fibers -> Calls]
          /\ pc'[f] = "add" /\ call'[f].ctx = Slot(fd) /\ call'[f].fd = fd /\ call'[f].event = e
          /\ \A g \in Fibers : g # f => pc'[g] = pc[g] /\ call'[g] = call[g]
          /\ dropped' = dropped /\ queued' = queued
      BY <3>1, <3>2, EnterTypes
    <3>4. TypeOK'
      BY <1>1, <3>1, <3>3
         DEF TypeOK, LookUpToAdd, tableVars, registryVars, kernelVars
    <3>5. Places'
      BY <1>1, <3>1, <3>3
         DEF Places, Exists, LookUpToAdd, tableVars, registryVars, kernelVars
    <3>6. QED
      BY <3>4, <3>5
  <2>3. CASE ~(fd < size)
    <3>1. fd >= 2 /\ [fd |-> fd, event |-> e, ctx |-> <<0, 0>>] \in Calls
      BY <2>3, FdAssumption DEF TypeOK, Places, Calls
    <3>2. Enter(f, "grow", fd, e, <<0, 0>>)
      BY <2>1, <2>3
    <3>3. /\ pc' \in [Fibers -> {"run", "grow"} \cup Placed]
          /\ call' \in [Fibers -> Calls]
          /\ pc'[f] = "grow" /\ call'[f].fd = fd
          /\ \A g \in Fibers : g # f => pc'[g] = pc[g] /\ call'[g] = call[g]
          /\ dropped' = dropped /\ queued' = queued
      BY <3>1, <3>2 DEF Enter, TypeOK, Places
    <3>4. TypeOK'
      BY <1>1, <3>3 DEF TypeOK, LookUpToAdd, tableVars, registryVars, kernelVars
    <3>5. Places'
      BY <1>1, <3>1, <3>3
         DEF Places, Exists, LookUpToAdd, tableVars, registryVars, kernelVars
    <3>6. QED
      BY <3>4, <3>5
  <2>4. QED
    BY <2>2, <2>3
<1>2. CASE LookUp(f)
  <2>1. PICK fd \in Fds, e \in Event, l \in {"del", "cancel", "cancelAll"} :
          fd < size /\ Enter(f, l, fd, e, Slot(fd))
    BY <1>2 DEF LookUp, NoCall, Event
  <2>2. Slot(fd) \in Contexts /\ Exists(Slot(fd)) /\ Slot(fd)[1] = fd
    BY <2>1, SlotFacts
  <2>3. Enter(f, l, Slot(fd)[1], e, Slot(fd))
    BY <2>1, <2>2
  <2>4. /\ pc' \in [Fibers -> {"run", "grow"} \cup Placed]
        /\ call' \in [Fibers -> Calls]
        /\ pc'[f] = l /\ call'[f].ctx = Slot(fd) /\ call'[f].fd = fd /\ call'[f].event = e
        /\ \A g \in Fibers : g # f => pc'[g] = pc[g] /\ call'[g] = call[g]
        /\ dropped' = dropped /\ queued' = queued
    BY <2>2, <2>3, EnterTypes
  <2>5. TypeOK'
    BY <1>2, <2>2, <2>4 DEF TypeOK, LookUp, tableVars, registryVars, kernelVars
  <2>6. Places'
    BY <1>2, <2>2, <2>4 DEF Places, Exists, LookUp, tableVars, registryVars, kernelVars
  <2>7. QED
    BY <2>5, <2>6
<1>3. CASE Grow(f)
  <2> DEFINE fd == call[f].fd
             n  == (fd * 3) \div 2
             c  == <<fd, Made(n)[fd]>>
  <2>1. fd \in Fds /\ fd >= 2 /\ fd \in Nat
    BY <1>3, FdAssumption DEF Grow, Places
  <2>2. n \in Nat /\ n > fd
    BY <2>1, GrowsPast
  <2>3. /\ size' = n /\ made' = Made(n)
        /\ \A g \in Fds : Made(n)[g] <= MaxContexts
        /\ Enter(f, "add", fd, call[f].event, c)
        /\ UNCHANGED <<registryVars, kernelVars, batch, aborted>>
    BY <1>3 DEF Grow
  <2> HIDE DEF n
  <2>4. /\ made' \in [Fds -> 0..MaxContexts]
        /\ \A g \in Fds : made'[g] >= made[g]
        /\ \A g \in Fds : g < n => made'[g] >= 1
    <3>1. \A g \in Fds : Made(n)[g] \in Nat /\ Made(n)[g] >= made[g]
      BY <2>2, MadeGrows
    <3>2. \A g \in Fds : g < n => Made(n)[g] >= 1
      BY <2>2, MadeGrows DEF Places
    <3>3. DOMAIN Made(n) = Fds /\ Made(n) = [g \in Fds |-> Made(n)[g]]
      BY DEF Made
    <3>4. QED
      BY <2>3, <3>1, <3>2, <3>3, BoundAssumption
  <2>5. c \in Contexts /\ c[1] = fd /\ c[2] = made'[fd]
    BY <2>1, <2>2, <2>3, <2>4, BoundAssumption DEF Contexts
  <2>6. call[f].event \in Event
    BY DEF Places, Calls
  <2> HIDE DEF c
  <2>7. /\ pc' \in [Fibers -> {"run", "grow"} \cup Placed]
        /\ call' \in [Fibers -> Calls]
        /\ pc'[f] = "add" /\ call'[f].ctx = c /\ call'[f].fd = c[1] /\ call'[f].event = call[f].event
        /\ \A g \in Fibers : g # f => pc'[g] = pc[g] /\ call'[g] = call[g]
        /\ dropped' = dropped /\ queued' = queued
    BY <2>3, <2>5, <2>6, EnterTypes
  <2>8. \A d \in Contexts : Exists(d) => Exists(d)'
    BY <2>4, ContextFacts DEF Exists, TypeOK
  <2>9. c[2] <= made'[c[1]]
    BY <2>1, <2>4, <2>5
  <2>10. TypeOK'
    BY <2>2, <2>3, <2>4, <2>5, <2>6, <2>7 DEF TypeOK, registryVars, kernelVars
  <2>11. Places'
    <3>1. size' >= 2 /\ call' \in [Fibers -> Calls]
      BY <2>1, <2>2, <2>3, <2>7
    <3>2. \A g \in Fds : g < size' => made'[g] >= 1
      BY <2>3, <2>4
    <3>3. \A g \in Fibers : pc'[g] = "grow" => call'[g].fd \in Fds /\ call'[g].fd >= 2
      BY <2>7 DEF Places
    <3>4. ASSUME NEW g \in Fibers
          PROVE  pc'[g] \in Placed =>
            call'[g].ctx \in Contexts /\ Exists(call[g].ctx)' /\ call'[g].fd = call'[g].ctx[1]
      <4>1. CASE pc'[g] \in Placed /\ g = f
        BY <2>5, <2>7, <2>9, <4>1 DEF Exists
      <4>2. CASE pc'[g] \in Placed /\ g # f
        BY <2>7, <2>8, <4>2 DEF Places, Exists
      <4>3. QED
        BY <4>1, <4>2
    <3>5. \A d \in Contexts : events'[d] # {} => Exists(d)'
      BY <2>3, <2>8 DEF Places, registryVars
    <3>6. \A g \in Fds : interest'[g] # NoInterest =>
            interest'[g].ctx[1] = g /\ Exists(interest[g].ctx)'
      BY <2>3, <2>8 DEF Places, TypeOK, kernelVars, Exists
    <3>7. \A th \in Threads : \A b \in batch'[th] : Exists(b.ctx)'
      BY <2>3, <2>8 DEF Places, TypeOK
    <3>8. QED
      BY <3>1, <3>2, <3>3, <3>4, <3>5, <3>6, <3>7 DEF Places, Exists
  <2>12. QED
    BY <2>10, <2>11
<1>4. CASE WatchEvent(f)
  <2> DEFINE c == call[f].ctx
  <2>1. c \in Contexts /\ Exists(c) /\ call[f].fd = c[1] /\ call[f].event \in Event
    BY <1>4 DEF WatchEvent, Places, Calls
  <2>2. UNCHANGED <<tableVars, registryVars, dropped, queued, batch, aborted>>
    BY <1>4 DEF WatchEvent
  <2>3. CASE events[c] = {} <=> interest[call[f].fd] = NoInterest
    <3>1. /\ Watch(c[1], events[c] \cup {call[f].event}, c)
          /\ pc' = [pc EXCEPT ![f] = "register"] /\ call' = call
      BY <1>4, <2>1, <2>3 DEF WatchEvent
    <3>2. events[c] \cup {call[f].event} \in SUBSET Event
      BY <2>1 DEF TypeOK
    <3>3. /\ interest' \in [Fds -> [events: SUBSET Event, ctx: Contexts] \cup {NoInterest}]
          /\ rdllist' \subseteq Fds
          /\ ready' = ready
          /\ \A fd \in Fds : interest'[fd] # NoInterest =>
               interest'[fd].ctx[1] = fd /\ Exists(interest'[fd].ctx)
      BY <2>1, <3>1, <3>2, WatchTypes
    <3>4. TypeOK'
      BY <1>4, <2>1, <2>2, <3>1, <3>3 DEF TypeOK, WatchEvent, tableVars, registryVars
    <3>5. Places'
      BY <1>4, <2>1, <2>2, <3>1, <3>3
         DEF Places, TypeOK, Exists, WatchEvent, tableVars, registryVars
    <3>6. QED
      BY <3>4, <3>5
  <2>4. CASE ~(events[c] = {} <=> interest[call[f].fd] = NoInterest)
    <3>1. Return(f) /\ UNCHANGED kernelVars
      BY <1>4, <2>4 DEF WatchEvent
    <3>2. /\ pc' \in [Fibers -> {"run", "grow"} \cup Placed]
          /\ call' \in [Fibers -> Calls]
          /\ pc'[f] = "run"
          /\ \A g \in Fibers : g # f => pc'[g] = pc[g] /\ call'[g] = call[g]
      BY <3>1, ReturnTypes
    <3>3. TypeOK'
      BY <2>2, <3>1, <3>2 DEF TypeOK, tableVars, registryVars, kernelVars
    <3>4. Places'
      BY <2>2, <3>1, <3>2 DEF Places, Exists, tableVars, registryVars, kernelVars
    <3>5. QED
      BY <3>3, <3>4
  <2>5. QED
    BY <2>3, <2>4
<1>5. CASE Register(f)
  <2> DEFINE c == call[f].ctx
  <2>1. c \in Contexts /\ Exists(c) /\ call[f].fd = c[1] /\ call[f].event \in Event
    BY <1>5 DEF Register, Places, Calls
  <2>2. waiter' \in [Contexts -> [Event -> Fibers \cup {NoFiber}]]
    BY <1>5, <2>1 DEF TypeOK, Register
  <2>3. TypeOK'
    BY <1>5, <2>1, <2>2 DEF TypeOK, Register, tableVars, kernelVars
  <2>4. Places'
    BY <1>5, <2>1 DEF Places, TypeOK, Exists, Register, tableVars, kernelVars
  <2>5. QED
    BY <2>3, <2>4
<1>6. CASE Resume(f)
  <2>1. /\ pc' \in [Fibers -> {"run", "grow"} \cup Placed]
        /\ call' \in [Fibers -> Calls]
        /\ pc'[f] = "run"
        /\ \A g \in Fibers : g # f => pc'[g] = pc[g] /\ call'[g] = call[g]
    BY <1>6, ReturnTypes DEF Resume
  <2>2. queued' \in [Fibers -> Nat]
    BY <1>6 DEF Resume, TypeOK
  <2>3. TypeOK'
    BY <1>6, <2>1, <2>2 DEF TypeOK, Resume, tableVars, registryVars, kernelVars
  <2>4. Places'
    BY <1>6, <2>1 DEF Places, Exists, Resume, tableVars, registryVars, kernelVars
  <2>5. QED
    BY <2>3, <2>4
<1>7. QED
  BY <1>1, <1>2, <1>3, <1>4, <1>5, <1>6

\* Resetting EventContexts leaves the registry well typed.
LEMMA UnregisterTypes ==
    ASSUME TypeOK, NEW c \in Contexts, NEW es \in SUBSET Event, Unregister(c, es)
    PROVE  /\ events' \in [Contexts -> SUBSET Event]
           /\ waiter' \in [Contexts -> [Event -> Fibers \cup {NoFiber}]]
           /\ events'[c] = events[c] \ es
           /\ \A e \in Event : waiter'[c][e] = IF e \in es THEN NoFiber ELSE waiter[c][e]
           /\ \A d \in Contexts : d # c => events'[d] = events[d] /\ waiter'[d] = waiter[d]
<1>1. [e \in Event |-> IF e \in es THEN NoFiber ELSE waiter[c][e]]
        \in [Event -> Fibers \cup {NoFiber}]
  BY DEF TypeOK
<1>2. QED
  BY <1>1 DEF TypeOK, Unregister

LEMMA ScheduleTypes ==
    ASSUME TypeOK, NEW c \in Contexts, NEW es \in SUBSET Event, Schedule(c, es)
    PROVE  queued' \in [Fibers -> Nat]
<1>1. ASSUME NEW f \in Fibers
      PROVE  Cardinality({e \in es : waiter[c][e] = f}) \in Nat
  <2>1. IsFiniteSet(Event)
    <3>1. IsFiniteSet({"READ"})
      BY FS_Singleton
    <3>2. Event = {"READ"} \cup {"WRITE"}
      BY DEF Event
    <3>3. QED
      BY <3>1, <3>2, FS_AddElement
  <2>2. {e \in es : waiter[c][e] = f} \subseteq Event
    OBVIOUS
  <2>3. QED
    BY <2>1, <2>2, FS_Subset, FS_CardinalityType
<1>2. QED
  BY <1>1 DEF TypeOK, Schedule

\* Removing registrations.
LEMMA RemoverTypes ==
    ASSUME TypeOK, Places, NEW f \in Fibers,
           NothingToRemove(f) \/ DelEvent(f) \/ CancelEvent(f) \/ CancelAll(f),
           \A c \in Contexts : \A e \in events[c] : waiter[c][e] \in Fibers,
           m_pendingEventCount' \in Nat
    PROVE  TypeOK' /\ Places'
<1> DEFINE c == call[f].ctx
           e == call[f].event
<1>1. pc[f] \in {"del", "cancel", "cancelAll"} /\ Return(f)
  BY DEF NothingToRemove, DelEvent, CancelEvent, CancelAll
<1>2. c \in Contexts /\ Exists(c) /\ e \in Event /\ call[f].fd = c[1]
  BY <1>1 DEF Places, Placed, Calls
<1>3. /\ pc' \in [Fibers -> {"run", "grow"} \cup Placed]
      /\ call' \in [Fibers -> Calls]
      /\ pc'[f] = "run"
      /\ \A g \in Fibers : g # f => pc'[g] = pc[g] /\ call'[g] = call[g]
  BY <1>1, ReturnTypes
<1> HIDE DEF c, e
<1>4. CASE NothingToRemove(f)
  <2>1. TypeOK'
    BY <1>3, <1>4 DEF TypeOK, NothingToRemove, tableVars, registryVars, kernelVars, Placed
  <2>2. Places'
    BY <1>3, <1>4 DEF Places, Exists, NothingToRemove, tableVars, registryVars, kernelVars, Placed
  <2>3. QED
    BY <2>1, <2>2
<1>5. CASE DelEvent(f) \/ CancelEvent(f) \/ CancelAll(f)
  <2>1. /\ UNCHANGED <<tableVars, batch, aborted>>
        /\ \E es \in SUBSET Event : Unregister(c, es) /\ events'[c] = events[c] \ es
        /\ \E es \in SUBSET Event : Rewatch(c[1], es, c) \/ Unwatch(c[1])
        /\ queued' \in [Fibers -> Nat]
        /\ dropped' \subseteq Fibers
    <3>1. CASE DelEvent(f)
      <4>1. /\ Rewatch(c[1], events[c] \ {e}, c)
            /\ Unregister(c, {e})
            /\ dropped' = dropped \cup {waiter[c][e]}
            /\ e \in events[c]
            /\ UNCHANGED <<tableVars, queued, batch, aborted>>
        BY <3>1 DEF DelEvent, Removes, c, e
      <4>2. events[c] \ {e} \in SUBSET Event /\ {e} \in SUBSET Event
        BY <1>2 DEF TypeOK
      <4>3. events'[c] = events[c] \ {e}
        BY <1>2, <4>1, <4>2, UnregisterTypes
      <4>4. waiter[c][e] \in Fibers
        BY <1>2, <4>1
      <4>5. QED
        BY <4>1, <4>2, <4>3, <4>4 DEF TypeOK
    <3>2. CASE CancelEvent(f)
      <4>1. /\ Rewatch(c[1], events[c] \ {e}, c)
            /\ Schedule(c, {e})
            /\ Unregister(c, {e})
            /\ UNCHANGED <<tableVars, dropped, batch, aborted>>
        BY <3>2 DEF CancelEvent, c, e
      <4>2. events[c] \ {e} \in SUBSET Event /\ {e} \in SUBSET Event
        BY <1>2 DEF TypeOK
      <4>3. events'[c] = events[c] \ {e} /\ queued' \in [Fibers -> Nat]
        BY <1>2, <4>1, <4>2, UnregisterTypes, ScheduleTypes
      <4>4. QED
        BY <4>1, <4>2, <4>3 DEF TypeOK
    <3>3. CASE CancelAll(f)
      <4>1. /\ Unwatch(c[1])
            /\ Schedule(c, events[c])
            /\ Unregister(c, events[c])
            /\ UNCHANGED <<tableVars, dropped, batch, aborted>>
        BY <3>3 DEF CancelAll, c
      <4>2. events[c] \in SUBSET Event
        BY <1>2 DEF TypeOK
      <4>3. events'[c] = events[c] \ events[c] /\ queued' \in [Fibers -> Nat]
        BY <1>2, <4>1, <4>2, UnregisterTypes, ScheduleTypes
      <4>4. QED
        BY <4>1, <4>2, <4>3 DEF TypeOK
    <3>4. QED
      BY <1>5, <3>1, <3>2, <3>3
  <2>2. PICK es \in SUBSET Event : Unregister(c, es) /\ events'[c] = events[c] \ es
    BY <2>1
  <2>3. PICK left \in SUBSET Event : Rewatch(c[1], left, c) \/ Unwatch(c[1])
    BY <2>1
  <2>4. /\ events' \in [Contexts -> SUBSET Event]
        /\ waiter' \in [Contexts -> [Event -> Fibers \cup {NoFiber}]]
        /\ \A d \in Contexts : d # c => events'[d] = events[d]
    BY <1>2, <2>2, UnregisterTypes
  <2>5. /\ interest' \in [Fds -> [events: SUBSET Event, ctx: Contexts] \cup {NoInterest}]
        /\ rdllist' \subseteq Fds
        /\ ready' = ready
        /\ \A fd \in Fds : interest'[fd] # NoInterest =>
             interest'[fd].ctx[1] = fd /\ Exists(interest'[fd].ctx)
    BY <1>2, <2>3, WatchTypes
  <2>6. TypeOK'
    BY <1>3, <2>1, <2>4, <2>5 DEF TypeOK, tableVars, Placed
  <2>7. Places'
    BY <1>2, <1>3, <2>1, <2>2, <2>4, <2>5 DEF Places, Exists, tableVars, Placed
  <2>8. QED
    BY <2>6, <2>7
<1>6. QED
  BY <1>4, <1>5

\* What the idle threads do.
LEMMA IdleTypes ==
    ASSUME TypeOK, Places, NEW th \in Threads, Idle(th), m_pendingEventCount' \in Nat
    PROVE  TypeOK' /\ Places'
<1>1. CASE EpollWait(th)
  <2> DEFINE report == {[ctx |-> interest[fd].ctx,
                         got |-> Reported(ready[fd], interest[fd].events)] :
                        fd \in {g \in Fds : Fires(g)}}
  <2>1. \A b \in report : b \in [ctx: Contexts, got: SUBSET Condition] /\ Exists(b.ctx)
    <3>1. SUFFICES ASSUME NEW fd \in Fds, Fires(fd)
                   PROVE  /\ interest[fd].ctx \in Contexts /\ Exists(interest[fd].ctx)
                          /\ Reported(ready[fd], interest[fd].events) \in SUBSET Condition
      OBVIOUS
    <3>2. QED
      BY <3>1 DEF TypeOK, Places, Fires, Reported
  <2>2. /\ batch' = [batch EXCEPT ![th] = report] /\ rdllist' = {}
        /\ UNCHANGED <<tableVars, registryVars, fiberVars, interest, ready, aborted>>
    BY <1>1 DEF EpollWait
  <2> HIDE DEF report
  <2>3. TypeOK'
    BY <2>1, <2>2 DEF TypeOK, tableVars, registryVars, fiberVars
  <2>4. Places'
    <3>1. \A t \in Threads : \A b \in batch'[t] : Exists(b.ctx)
      BY <2>1, <2>2 DEF TypeOK, Places
    <3>2. QED
      BY <2>2, <3>1 DEF Places, Exists, tableVars, registryVars, fiberVars
  <2>5. QED
    BY <2>3, <2>4
<1>2. ASSUME NEW b \in batch[th], Handled(th, b)
      PROVE  /\ b.ctx \in Contexts /\ Exists(b.ctx) /\ Real(b) \in SUBSET Event
             /\ batch' \in [Threads -> SUBSET [ctx: Contexts, got: SUBSET Condition]]
             /\ \A t \in Threads : batch'[t] \subseteq batch[t]
  BY <1>2 DEF TypeOK, Places, Handled, Real
<1>3. CASE SkipEvent(th)
  <2>1. /\ batch' \in [Threads -> SUBSET [ctx: Contexts, got: SUBSET Condition]]
        /\ \A t \in Threads : batch'[t] \subseteq batch[t]
    BY <1>2, <1>3 DEF SkipEvent
  <2>2. UNCHANGED <<tableVars, registryVars, fiberVars, kernelVars, aborted>>
    BY <1>3 DEF SkipEvent
  <2>3. TypeOK'
    BY <2>1, <2>2 DEF TypeOK, tableVars, registryVars, fiberVars, kernelVars
  <2>4. Places'
    BY <2>1, <2>2 DEF Places, Exists, tableVars, registryVars, fiberVars, kernelVars
  <2>5. QED
    BY <2>3, <2>4
<1>4. CASE HandleEvent(th)
  <2>1. PICK b \in batch[th] :
          /\ Rewatch(b.ctx[1], events[b.ctx] \ Real(b), b.ctx)
          /\ Handled(th, b)
          /\ \/ /\ Schedule(b.ctx, Real(b))
                /\ Unregister(b.ctx, Real(b))
                /\ UNCHANGED aborted
             \/ /\ aborted' = TRUE
                /\ UNCHANGED <<registryVars, queued>>
    BY <1>4 DEF HandleEvent
  <2>2. UNCHANGED <<tableVars, pc, call, dropped>>
    BY <1>4 DEF HandleEvent
  <2>3. /\ b.ctx \in Contexts /\ Exists(b.ctx) /\ Real(b) \in SUBSET Event
        /\ batch' \in [Threads -> SUBSET [ctx: Contexts, got: SUBSET Condition]]
        /\ \A t \in Threads : batch'[t] \subseteq batch[t]
    BY <1>2, <2>1
  <2>4. events[b.ctx] \ Real(b) \in SUBSET Event
    BY <2>3 DEF TypeOK
  <2>5. /\ interest' \in [Fds -> [events: SUBSET Event, ctx: Contexts] \cup {NoInterest}]
        /\ rdllist' \subseteq Fds
        /\ ready' = ready
        /\ \A fd \in Fds : interest'[fd] # NoInterest =>
             interest'[fd].ctx[1] = fd /\ Exists(interest'[fd].ctx)
    BY <2>1, <2>3, <2>4, WatchTypes
  <2>6. /\ events' \in [Contexts -> SUBSET Event]
        /\ waiter' \in [Contexts -> [Event -> Fibers \cup {NoFiber}]]
        /\ \A c \in Contexts : events'[c] \subseteq events[c]
        /\ queued' \in [Fibers -> Nat]
        /\ aborted' \in BOOLEAN
    <3>1. CASE Schedule(b.ctx, Real(b)) /\ Unregister(b.ctx, Real(b)) /\ UNCHANGED aborted
      <4>1. /\ events' \in [Contexts -> SUBSET Event]
            /\ waiter' \in [Contexts -> [Event -> Fibers \cup {NoFiber}]]
            /\ events'[b.ctx] = events[b.ctx] \ Real(b)
            /\ \A d \in Contexts : d # b.ctx => events'[d] = events[d]
        BY <2>3, <3>1, UnregisterTypes
      <4>2. queued' \in [Fibers -> Nat]
        BY <2>3, <3>1, ScheduleTypes
      <4>3. QED
        BY <3>1, <4>1, <4>2 DEF TypeOK
    <3>2. CASE aborted' = TRUE /\ UNCHANGED <<registryVars, queued>>
      BY <3>2 DEF TypeOK, registryVars
    <3>3. QED
      BY <2>1, <3>1, <3>2
  <2>7. TypeOK'
    BY <2>2, <2>3, <2>5, <2>6 DEF TypeOK, tableVars
  <2>8. Places'
    <3>1. \A t \in Threads : \A d \in batch'[t] : Exists(d.ctx)
      BY <2>3 DEF Places
    <3>2. QED
      BY <2>2, <2>3, <2>5, <2>6, <3>1 DEF Places, Exists, tableVars
  <2>9. QED
    BY <2>7, <2>8
<1>5. QED
  BY <1>1, <1>3, <1>4 DEF Idle

LEMMA KernelTypes ==
    ASSUME TypeOK, Places, NEW fd \in Fds, BecomeReady(fd) \/ BecomeUnready(fd)
    PROVE  TypeOK' /\ Places'
<1>1. UNCHANGED <<tableVars, registryVars, fiberVars, interest, batch, aborted>>
  BY DEF BecomeReady, BecomeUnready
<1>2. rdllist' \subseteq Fds
  BY DEF TypeOK, BecomeReady, BecomeUnready
<1>3. ready' \in [Fds -> SUBSET Condition]
  <2>1. PICK s \in SUBSET Condition : ready' = [ready EXCEPT ![fd] = s]
    <3>1. ready[fd] \in SUBSET Condition
      BY DEF TypeOK
    <3>2. CASE BecomeReady(fd)
      <4>1. PICK s \in Condition : ready' = [ready EXCEPT ![fd] = @ \cup {s}]
        BY <3>2 DEF BecomeReady
      <4>2. ready' = [ready EXCEPT ![fd] = ready[fd] \cup {s}]
        BY <4>1
      <4>3. ready[fd] \cup {s} \in SUBSET Condition
        BY <3>1
      <4>4. QED
        BY <4>2, <4>3
    <3>3. CASE BecomeUnready(fd)
      <4>1. PICK e \in Event : ready' = [ready EXCEPT ![fd] = @ \ {e}]
        BY <3>3 DEF BecomeUnready
      <4>2. ready' = [ready EXCEPT ![fd] = ready[fd] \ {e}]
        BY <4>1
      <4>3. ready[fd] \ {e} \in SUBSET Condition
        BY <3>1
      <4>4. QED
        BY <4>2, <4>3
    <3>4. QED
      BY <3>2, <3>3
  <2>2. QED
    BY <2>1 DEF TypeOK
<1>4. TypeOK'
  BY <1>1, <1>2, <1>3 DEF TypeOK, tableVars, registryVars, fiberVars
<1>5. Places'
  BY <1>1 DEF Places, Exists, tableVars, registryVars, fiberVars
<1>6. QED
  BY <1>4, <1>5

-----------------------------------------------------------------------------
(* Registrations and wake-ups.                                             *)

\* A fiber that waits and has no wake-up in the task list yet.
Waits(f) == pc[f] = "wait" /\ queued[f] = 0 /\ f \notin dropped

Waiting == {f \in Fibers : pc[f] = "wait" /\ queued[f] = 0 /\ f \notin dropped}

\* A fiber is in an EventContext exactly while it waits, and in only one.
Registered ==
    /\ \A c \in Contexts, e \in Event : waiter[c][e] # NoFiber <=> e \in events[c]
    /\ \A c \in Contexts, e \in Event :
         e \in events[c] => waiter[c][e] \in Fibers /\ Waits(waiter[c][e])
    /\ \A c, d \in Contexts, e, g \in Event :
         e \in events[c] /\ waiter[c][e] = waiter[d][g] => c = d /\ e = g
    /\ \A f \in Fibers : Waits(f) => \E c \in Contexts, e \in Event : waiter[c][e] = f

\* At most one wake-up is on its way to a fiber, and only to one that waits.
OneQueued ==
    /\ \A f \in Fibers :
         \/ queued[f] = 0
         \/ queued[f] = 1 /\ pc[f] = "wait" /\ f \notin dropped
    /\ \A f \in dropped : pc[f] = "wait"

\* The mutex of the context keeps the event an addEvent() is about to register
\* out of it.
Registering ==
    /\ \A f \in Fibers : pc[f] = "register" => call[f].event \notin events[call[f].ctx]
    /\ \A f, g \in Fibers :
         pc[f] = "register" /\ pc[g] = "register" /\ call[f].ctx = call[g].ctx => f = g

Registry == Registered /\ OneQueued /\ Registering

Counted == IsFiniteSet(Waiting) /\ m_pendingEventCount = Cardinality(Waiting)

\* One element more, one element less.
LEMMA AddOne ==
    ASSUME NEW S, IsFiniteSet(S), NEW x, x \notin S, NEW T, T = S \cup {x}
    PROVE  IsFiniteSet(T) /\ Cardinality(T) = Cardinality(S) + 1
<1>1. IsFiniteSet(S \cup {x}) /\ Cardinality(S \cup {x}) = Cardinality(S) + 1
  BY FS_AddElement
<1>2. QED
  BY <1>1

LEMMA RemoveOne ==
    ASSUME NEW S, IsFiniteSet(S), NEW x, x \in S, NEW T, T = S \ {x}
    PROVE  IsFiniteSet(T) /\ Cardinality(T) = Cardinality(S) - 1
<1>1. IsFiniteSet(S \ {x}) /\ Cardinality(S \ {x}) = Cardinality(S) - 1
  BY FS_RemoveElement
<1>2. QED
  BY <1>1

\* The two events of a descriptor, or one, or none.
LEMMA EventSets ==
    ASSUME NEW es \in SUBSET Event
    PROVE  \/ es = {}
           \/ \E e \in Event : es = {e}
           \/ \E e, g \in Event : e # g /\ es = {e, g}
<1>1. es \subseteq {"READ", "WRITE"} /\ "READ" \in Event /\ "WRITE" \in Event
  BY DEF Event
<1>2. CASE "READ" \in es /\ "WRITE" \in es
  <2>1. es = {"READ", "WRITE"}
    BY <1>1, <1>2
  <2>2. QED
    BY <1>1, <2>1
<1>3. CASE "READ" \in es /\ "WRITE" \notin es
  <2>1. es = {"READ"}
    BY <1>1, <1>3
  <2>2. QED
    BY <1>1, <2>1
<1>4. CASE "READ" \notin es /\ "WRITE" \in es
  <2>1. es = {"WRITE"}
    BY <1>1, <1>4
  <2>2. QED
    BY <1>1, <2>1
<1>5. CASE "READ" \notin es /\ "WRITE" \notin es
  <2>1. es = {}
    BY <1>1, <1>5
  <2>2. QED
    BY <2>1
<1>6. QED
  BY <1>2, <1>3, <1>4, <1>5

\* As many fibers leave as events are reset.
LEMMA LeaveCount ==
    ASSUME Registered, NEW c \in Contexts, NEW es \in SUBSET Event, es \subseteq events[c],
           Counted, NEW W, W = Waiting \ {waiter[c][e] : e \in es}
    PROVE  IsFiniteSet(W) /\ Cardinality(W) = Cardinality(Waiting) - Cardinality(es)
<1>1. IsFiniteSet(Waiting)
  BY DEF Counted
<1>2. \A e \in es : waiter[c][e] \in Waiting
  BY DEF Registered, Waits, Waiting
<1>3. \A e, g \in es : waiter[c][e] = waiter[c][g] => e = g
  BY DEF Registered
<1>4. Cardinality(Waiting) \in Nat
  BY <1>1, FS_CardinalityType
<1>5. CASE es = {}
  <2>1. Cardinality(es) = 0
    BY <1>5, FS_EmptySet
  <2>2. W = Waiting
    BY <1>5
  <2>3. QED
    BY <1>1, <1>4, <2>1, <2>2
<1>6. CASE \E e \in Event : es = {e}
  <2>1. PICK e \in Event : es = {e}
    BY <1>6
  <2>2. Cardinality(es) = 1
    BY <2>1, FS_Singleton
  <2>3. W = Waiting \ {waiter[c][e]} /\ waiter[c][e] \in Waiting
    BY <1>2, <2>1
  <2>4. QED
    BY <1>1, <2>2, <2>3, RemoveOne
<1>7. CASE \E e, g \in Event : e # g /\ es = {e, g}
  <2>1. PICK e \in Event, g \in Event : e # g /\ es = {e, g}
    BY <1>7
  <2>2. Cardinality(es) = 2
    <3>1. IsFiniteSet({e}) /\ Cardinality({e}) = 1
      BY FS_Singleton
    <3>2. es = {e} \cup {g} /\ g \notin {e}
      BY <2>1
    <3>3. QED
      BY <3>1, <3>2, AddOne
  <2> DEFINE V == Waiting \ {waiter[c][e]}
  <2>3. waiter[c][e] \in Waiting /\ waiter[c][g] \in V
    BY <1>2, <1>3, <2>1
  <2>4. W = V \ {waiter[c][g]}
    BY <2>1
  <2>5. IsFiniteSet(V) /\ Cardinality(V) = Cardinality(Waiting) - 1
    BY <1>1, <2>3, RemoveOne
  <2> HIDE DEF V
  <2>6. IsFiniteSet(W) /\ Cardinality(W) = Cardinality(V) - 1
    BY <2>3, <2>4, <2>5, RemoveOne
  <2>7. QED
    BY <1>4, <2>2, <2>5, <2>6
<1>8. QED
  BY <1>5, <1>6, <1>7, EventSets

\* The fibers of the events that are reset stop waiting: they are queued, or
\* delEvent() drops them.
Leaves(c, es) ==
    /\ Unregister(c, es)
    /\ dropped' \subseteq Fibers
    /\ \A f \in Fibers : f \in {waiter[c][e] : e \in es} =>
         \/ queued'[f] = 1 /\ f \notin dropped'
         \/ queued'[f] = 0 /\ f \in dropped'
    /\ \A f \in Fibers : f \notin {waiter[c][e] : e \in es} =>
         queued'[f] = queued[f] /\ (f \in dropped' <=> f \in dropped)
    /\ \A f \in Fibers :
         \/ pc'[f] = pc[f] /\ call'[f] = call[f]
         \/ pc[f] \in {"del", "cancel", "cancelAll"} /\ pc'[f] = "run"

LEMMA LeaveKeepsRegistry ==
    ASSUME TypeOK, Registry, Counted, NEW c \in Contexts, NEW es \in SUBSET Event,
           es \subseteq events[c], Leaves(c, es)
    PROVE  Registry' /\ Counted'
<1> DEFINE woken == {waiter[c][e] : e \in es}
<1>1. /\ events'[c] = events[c] \ es
      /\ \A e \in Event : waiter'[c][e] = IF e \in es THEN NoFiber ELSE waiter[c][e]
      /\ \A d \in Contexts : d # c => events'[d] = events[d] /\ waiter'[d] = waiter[d]
  BY UnregisterTypes DEF Leaves
<1>2. /\ dropped' \subseteq Fibers
      /\ \A f \in Fibers : f \in woken =>
           \/ queued'[f] = 1 /\ f \notin dropped'
           \/ queued'[f] = 0 /\ f \in dropped'
      /\ \A f \in Fibers : f \notin woken =>
           queued'[f] = queued[f] /\ (f \in dropped' <=> f \in dropped)
      /\ \A f \in Fibers :
           \/ pc'[f] = pc[f] /\ call'[f] = call[f]
           \/ pc[f] \in {"del", "cancel", "cancelAll"} /\ pc'[f] = "run"
  BY DEF Leaves
<1>3. \A f \in woken : f \in Fibers /\ Waits(f)
  BY DEF Registry, Registered
<1>4. \A d \in Contexts, e \in Event :
        e \in events[d] => (waiter[d][e] \in woken <=> d = c /\ e \in es)
  BY DEF Registry, Registered
<1>5. \A f \in Fibers : f \notin woken <=> \A e \in es : waiter[c][e] # f
  OBVIOUS
<1> HIDE DEF woken
<1>6. \A f \in Fibers : Waits(f)' <=> Waits(f) /\ f \notin woken
  BY <1>2, <1>3 DEF Waits
<1>7. Registered'
  <2>1. \A d \in Contexts, e \in Event : waiter'[d][e] # NoFiber <=> e \in events'[d]
    BY <1>1 DEF Registry, Registered
  <2>2. \A d \in Contexts, e \in Event : e \in events'[d] =>
          e \in events[d] /\ waiter'[d][e] = waiter[d][e] /\ ~(d = c /\ e \in es)
    BY <1>1
  <2>3. \A d \in Contexts, e \in Event :
          e \in events'[d] => waiter'[d][e] \in Fibers /\ Waits(waiter[d][e])'
    BY <1>4, <1>6, <2>2 DEF Registry, Registered, Waits
  <2>4. \A d, k \in Contexts, e, g \in Event :
          e \in events'[d] /\ waiter'[d][e] = waiter'[k][g] => d = k /\ e = g
    <3> SUFFICES ASSUME NEW d \in Contexts, NEW k \in Contexts, NEW e \in Event, NEW g \in Event,
                        e \in events'[d], waiter'[d][e] = waiter'[k][g]
                 PROVE  d = k /\ e = g
      OBVIOUS
    <3>1. g \in events'[k]
      BY <2>1
    <3>2. waiter[d][e] = waiter[k][g] /\ e \in events[d]
      BY <2>2, <3>1
    <3>3. QED
      BY <3>2 DEF Registry, Registered
  <2>5. ASSUME NEW f \in Fibers, Waits(f)'
        PROVE  \E d \in Contexts, e \in Event : waiter'[d][e] = f
    <3>1. Waits(f) /\ f \notin woken
      BY <1>6, <2>5
    <3>2. PICK d \in Contexts, e \in Event : waiter[d][e] = f
      BY <3>1 DEF Registry, Registered
    <3>3. ~(d = c /\ e \in es)
      BY <1>5, <3>1, <3>2
    <3>4. waiter'[d][e] = f
      BY <1>1, <3>2, <3>3
    <3>5. QED
      BY <3>4
  <2>6. QED
    BY <2>1, <2>3, <2>4, <2>5 DEF Registered
<1>8. OneQueued'
  <2>1. ASSUME NEW f \in Fibers
        PROVE  /\ \/ queued'[f] = 0
                  \/ queued'[f] = 1 /\ pc'[f] = "wait" /\ f \notin dropped'
               /\ f \in dropped' => pc'[f] = "wait"
    <3>1. CASE f \in woken
      BY <1>2, <1>3, <3>1 DEF Waits
    <3>2. CASE f \notin woken
      BY <1>2, <3>2 DEF Registry, OneQueued
    <3>3. QED
      BY <3>1, <3>2
  <2>2. QED
    BY <1>2, <2>1 DEF OneQueued
<1>9. Registering'
  <2>1. \A f \in Fibers : pc'[f] = "register" => pc[f] = "register" /\ call'[f] = call[f]
    BY <1>2
  <2>2. \A d \in Contexts : events'[d] \subseteq events[d]
    BY <1>1
  <2>3. \A f \in Fibers : pc[f] = "register" => call[f].ctx \in Contexts
    BY DEF TypeOK
  <2>4. QED
    BY <2>1, <2>2, <2>3 DEF Registry, Registering
<1>10. Counted'
  <2>1. Waiting' = Waiting \ {waiter[c][e] : e \in es}
    <3>1. Waiting = {f \in Fibers : Waits(f)} /\ Waiting' = {f \in Fibers : Waits(f)'}
      BY DEF Waiting, Waits
    <3>2. QED
      BY <1>6, <3>1 DEF woken
  <2>2. IsFiniteSet(Waiting') /\ Cardinality(Waiting') = Cardinality(Waiting) - Cardinality(es)
    BY <2>1, LeaveCount DEF Registry
  <2>3. m_pendingEventCount' = m_pendingEventCount - Cardinality(es)
    BY DEF Leaves, Unregister
  <2>4. QED
    BY <2>2, <2>3 DEF Counted
<1>11. QED
  BY <1>7, <1>8, <1>9, <1>10 DEF Registry

\* triggerEvent() queues each fiber once, because it is registered once.
LEMMA ScheduleOnce ==
    ASSUME TypeOK, Registry, NEW c \in Contexts, NEW es \in SUBSET Event,
           es \subseteq events[c], Schedule(c, es), NEW f \in Fibers
    PROVE  /\ f \in {waiter[c][e] : e \in es} => queued'[f] = 1 /\ f \notin dropped
           /\ f \notin {waiter[c][e] : e \in es} => queued'[f] = queued[f]
<1> DEFINE mine == {e \in es : waiter[c][e] = f}
<1>1. queued'[f] = queued[f] + Cardinality(mine) /\ queued[f] \in Nat
  BY DEF Schedule, TypeOK
<1>2. CASE f \in {waiter[c][e] : e \in es}
  <2>1. PICK e \in es : waiter[c][e] = f
    BY <1>2
  <2>2. mine = {e}
    BY <2>1 DEF Registry, Registered
  <2>3. Cardinality(mine) = 1
    BY <2>2, FS_Singleton
  <2>4. queued[f] = 0 /\ f \notin dropped
    BY <2>1 DEF Registry, Registered, Waits
  <2>5. QED
    BY <1>1, <1>2, <2>3, <2>4
<1>3. CASE f \notin {waiter[c][e] : e \in es}
  <2>1. mine = {}
    BY <1>3
  <2>2. Cardinality(mine) = 0
    BY <2>1, FS_EmptySet
  <2>3. QED
    BY <1>1, <1>3, <2>2
<1>4. QED
  BY <1>2, <1>3

LEMMA InitRegistry == Init => Registry /\ Counted
<1> SUFFICES ASSUME Init PROVE Registry /\ Counted
  OBVIOUS
<1>1. Registry
  BY DEF Init, Registry, Registered, OneQueued, Registering, Waits
<1>2. Waiting = {}
  BY DEF Init, Waiting
<1>3. QED
  BY <1>1, <1>2, FS_EmptySet DEF Init, Counted

\* A step between two points of a call, neither of which is the wait.
LEMMA MoveKeepsRegistry ==
    ASSUME TypeOK, Registry, Counted, NEW f \in Fibers,
           UNCHANGED <<registryVars, dropped, queued>>,
           pc[f] # "wait", pc'[f] # "wait", pc'[f] # "register",
           \A g \in Fibers : g # f => pc'[g] = pc[g] /\ call'[g] = call[g]
    PROVE  Registry' /\ Counted'
<1>1. \A g \in Fibers : Waits(g)' <=> Waits(g)
  BY DEF Waits
<1>2. Waiting' = Waiting
  BY <1>1 DEF Waits, Waiting
<1>3. Registered'
  BY <1>1 DEF Registry, Registered, registryVars
<1>4. OneQueued'
  BY DEF Registry, OneQueued, TypeOK
<1>5. Registering'
  BY DEF Registry, Registering, registryVars
<1>6. QED
  BY <1>2, <1>3, <1>4, <1>5 DEF Registry, Counted, registryVars

\* addEvent() between epoll_ctl() and the end of its critical section.
LEMMA WatchKeepsRegistry ==
    ASSUME TypeOK, Places, Registry, Counted, NEW f \in Fibers, WatchEvent(f)
    PROVE  Registry' /\ Counted'
<1>1. /\ pc[f] = "add"
      /\ UNCHANGED <<registryVars, dropped, queued>>
      /\ ~Locked(call[f].ctx)
      /\ call[f].event \notin events[call[f].ctx]
  BY DEF WatchEvent, tableVars, kernelVars
<1>2. CASE pc' = [pc EXCEPT ![f] = "register"] /\ call' = call
  <2>1. pc'[f] = "register" /\ \A g \in Fibers : g # f => pc'[g] = pc[g]
    BY <1>2 DEF TypeOK
  <2>2. \A g \in Fibers : Waits(g)' <=> Waits(g)
    BY <1>1, <2>1 DEF Waits
  <2>3. Waiting' = Waiting
    BY <2>2 DEF Waits, Waiting
  <2>4. Registered'
    BY <1>1, <2>2 DEF Registry, Registered, registryVars
  <2>5. OneQueued'
    BY <1>1, <2>1 DEF Registry, OneQueued, TypeOK
  <2>6. Registering'
    BY <1>1, <1>2, <2>1 DEF Registry, Registering, Locked, registryVars
  <2>7. QED
    BY <1>1, <2>3, <2>4, <2>5, <2>6 DEF Registry, Counted, registryVars
<1>3. CASE Return(f)
  <2>1. /\ pc'[f] = "run"
        /\ \A g \in Fibers : g # f => pc'[g] = pc[g] /\ call'[g] = call[g]
    BY <1>3, ReturnTypes
  <2>2. QED
    BY <1>1, <2>1, MoveKeepsRegistry
<1>4. QED
  BY <1>2, <1>3 DEF WatchEvent

\* The fiber that registers itself begins to wait.
LEMMA RegisterKeepsRegistry ==
    ASSUME TypeOK, Places, Registry, Counted, NEW f \in Fibers, Register(f)
    PROVE  Registry' /\ Counted'
<1> DEFINE c == call[f].ctx
           e == call[f].event
<1>1. pc[f] = "register" /\ c \in Contexts /\ e \in Event
  BY DEF Register, Places, Placed, Calls
<1>2. /\ m_pendingEventCount' = m_pendingEventCount + 1
      /\ events' = [events EXCEPT ![c] = events[c] \cup {e}]
      /\ waiter' = [waiter EXCEPT ![c][e] = f]
      /\ pc' = [pc EXCEPT ![f] = "wait"]
      /\ UNCHANGED <<call, dropped, queued>>
  BY DEF Register
<1>3. e \notin events[c] /\ queued[f] = 0 /\ f \notin dropped
  BY <1>1 DEF Registry, Registering, OneQueued
<1>4. \A g \in Fibers : pc[g] = "register" /\ call[g].ctx = c => g = f
  BY <1>1 DEF Registry, Registering
<1> HIDE DEF c, e
<1>5. pc'[f] = "wait" /\ \A g \in Fibers : g # f => pc'[g] = pc[g]
  BY <1>2 DEF TypeOK
<1>6. \A d \in Contexts, g \in Event :
        IF d = c /\ g = e THEN g \in events'[d] /\ waiter'[d][g] = f
                          ELSE (g \in events'[d] <=> g \in events[d]) /\ waiter'[d][g] = waiter[d][g]
  BY <1>1, <1>2 DEF TypeOK
<1>7. \A g \in Fibers : Waits(g)' <=> Waits(g) \/ g = f
  BY <1>2, <1>3, <1>5 DEF Waits
<1>8. ~Waits(f) /\ f # NoFiber
  BY <1>1, FiberAssumption DEF Waits, Fibers
<1>9. Registered'
  <2>1. \A d \in Contexts, g \in Event : waiter'[d][g] # NoFiber <=> g \in events'[d]
    BY <1>6, <1>8 DEF Registry, Registered
  <2>2. \A d \in Contexts, g \in Event :
          g \in events'[d] => waiter'[d][g] \in Fibers /\ Waits(waiter[d][g])'
    <3> SUFFICES ASSUME NEW d \in Contexts, NEW g \in Event, g \in events'[d]
                 PROVE  waiter'[d][g] \in Fibers /\ Waits(waiter[d][g])'
      OBVIOUS
    <3>1. CASE d = c /\ g = e
      BY <1>2, <1>3, <1>5, <1>6, <3>1 DEF Waits
    <3>2. CASE ~(d = c /\ g = e)
      <4>1. waiter'[d][g] = waiter[d][g] /\ waiter[d][g] \in Fibers /\ Waits(waiter[d][g])
        BY <1>6, <3>2 DEF Registry, Registered
      <4>2. QED
        BY <1>2, <1>5, <4>1 DEF Waits
    <3>3. QED
      BY <3>1, <3>2
  <2>3. \A d \in Contexts, g \in Event : waiter[d][g] # f
    BY <1>8 DEF Registry, Registered
  <2>4. \A d, k \in Contexts, g, h \in Event :
          g \in events'[d] /\ waiter'[d][g] = waiter'[k][h] => d = k /\ g = h
    BY <1>6, <2>3 DEF Registry, Registered
  <2>5. ASSUME NEW g \in Fibers, Waits(g)'
        PROVE  \E d \in Contexts, h \in Event : waiter'[d][h] = g
    <3>1. CASE g = f
      BY <1>1, <1>6, <3>1
    <3>2. CASE g # f
      <4>1. PICK d \in Contexts, h \in Event : waiter[d][h] = g
        BY <1>7, <2>5, <3>2 DEF Registry, Registered
      <4>2. h \in events[d]
        BY <4>1, FiberAssumption DEF Registry, Registered, Fibers
      <4>3. waiter'[d][h] = g
        BY <1>3, <1>6, <4>1, <4>2
      <4>4. QED
        BY <4>3
    <3>3. QED
      BY <3>1, <3>2
  <2>6. QED
    BY <2>1, <2>2, <2>4, <2>5 DEF Registered
<1>10. OneQueued'
  BY <1>2, <1>3, <1>5 DEF Registry, OneQueued, TypeOK
<1>11. Registering'
  <2>1. \A g \in Fibers : pc'[g] = "register" => pc[g] = "register" /\ call[g].ctx # c
    BY <1>4, <1>5
  <2>2. \A g \in Fibers : pc[g] = "register" => call[g].ctx \in Contexts
    BY DEF TypeOK
  <2>3. \A d \in Contexts : d # c => events'[d] = events[d]
    BY <1>2 DEF TypeOK
  <2>4. QED
    BY <1>2, <2>1, <2>2, <2>3 DEF Registry, Registering
<1>12. Counted'
  <2>1. Waiting = {g \in Fibers : Waits(g)} /\ Waiting' = {g \in Fibers : Waits(g)'}
    BY DEF Waiting, Waits
  <2>2. Waiting' = Waiting \cup {f} /\ f \notin Waiting
    BY <1>7, <1>8, <2>1
  <2>3. IsFiniteSet(Waiting') /\ Cardinality(Waiting') = Cardinality(Waiting) + 1
    BY <2>2, AddOne DEF Counted
  <2>4. QED
    BY <1>2, <2>3 DEF Counted
<1>13. QED
  BY <1>9, <1>10, <1>11, <1>12 DEF Registry

\* run() resumes a fiber whose registration has gone.
LEMMA ResumeKeepsRegistry ==
    ASSUME TypeOK, Places, Registry, Counted, NEW f \in Fibers, Resume(f)
    PROVE  Registry' /\ Counted'
<1>1. /\ pc[f] = "wait" /\ queued[f] > 0
      /\ queued' = [queued EXCEPT ![f] = queued[f] - 1]
      /\ UNCHANGED <<registryVars, dropped>>
  BY DEF Resume
<1>2. /\ pc'[f] = "run"
      /\ \A g \in Fibers : g # f => pc'[g] = pc[g] /\ call'[g] = call[g]
  BY ReturnTypes DEF Resume
<1>3. queued[f] = 1 /\ f \notin dropped
  BY <1>1 DEF Registry, OneQueued
<1>4. queued'[f] = 0 /\ \A g \in Fibers : g # f => queued'[g] = queued[g]
  BY <1>1, <1>3 DEF TypeOK
<1>5. \A g \in Fibers : Waits(g)' <=> Waits(g)
  BY <1>1, <1>2, <1>3, <1>4 DEF Waits
<1>6. Waiting' = Waiting
  BY <1>5 DEF Waits, Waiting
<1>7. Registered'
  BY <1>1, <1>5 DEF Registry, Registered, registryVars
<1>8. OneQueued'
  BY <1>1, <1>2, <1>3, <1>4 DEF Registry, OneQueued, TypeOK
<1>9. Registering'
  BY <1>1, <1>2 DEF Registry, Registering, registryVars
<1>10. QED
  BY <1>1, <1>6, <1>7, <1>8, <1>9 DEF Registry, Counted, registryVars

\* delEvent(), cancelEvent() and cancelAll().
LEMMA RemoversKeepRegistry ==
    ASSUME TypeOK, Places, Registry, Counted, NEW f \in Fibers,
           NothingToRemove(f) \/ DelEvent(f) \/ CancelEvent(f) \/ CancelAll(f)
    PROVE  Registry' /\ Counted'
<1> DEFINE c == call[f].ctx
           e == call[f].event
<1>1. pc[f] \in {"del", "cancel", "cancelAll"} /\ Return(f)
  BY DEF NothingToRemove, DelEvent, CancelEvent, CancelAll
<1>2. c \in Contexts /\ e \in Event
  BY <1>1 DEF Places, Placed, Calls
<1>3. /\ pc'[f] = "run"
      /\ \A g \in Fibers : g # f => pc'[g] = pc[g] /\ call'[g] = call[g]
  BY <1>1, ReturnTypes
<1> HIDE DEF c, e
<1>4. CASE NothingToRemove(f)
  BY <1>1, <1>3, <1>4, MoveKeepsRegistry DEF NothingToRemove, tableVars, kernelVars
<1>5. CASE DelEvent(f)
  <2>1. /\ Unregister(c, {e})
        /\ dropped' = dropped \cup {waiter[c][e]}
        /\ e \in events[c] /\ queued' = queued
    BY <1>5 DEF DelEvent, Removes, c, e
  <2>2. waiter[c][e] \in Fibers /\ Waits(waiter[c][e])
    BY <1>2, <2>1 DEF Registry, Registered
  <2>3. Leaves(c, {e})
    BY <1>1, <1>3, <2>1, <2>2 DEF Leaves, TypeOK, Waits
  <2>4. {e} \in SUBSET Event /\ {e} \subseteq events[c]
    BY <1>2, <2>1
  <2>5. QED
    BY <1>2, <2>3, <2>4, LeaveKeepsRegistry
<1>6. CASE CancelEvent(f) \/ CancelAll(f)
  <2>1. PICK es \in SUBSET Event : /\ es \subseteq events[c]
                                   /\ Schedule(c, es) /\ Unregister(c, es) /\ dropped' = dropped
    <3>1. CASE CancelEvent(f)
      <4>1. Schedule(c, {e}) /\ Unregister(c, {e}) /\ dropped' = dropped /\ e \in events[c]
        BY <3>1 DEF CancelEvent, Removes, c, e
      <4>2. {e} \in SUBSET Event
        BY <1>2
      <4>3. QED
        BY <4>1, <4>2
    <3>2. CASE CancelAll(f)
      <4>1. Schedule(c, events[c]) /\ Unregister(c, events[c]) /\ dropped' = dropped
        BY <3>2 DEF CancelAll, c
      <4>2. events[c] \in SUBSET Event
        BY <1>2 DEF TypeOK
      <4>3. QED
        BY <4>1, <4>2
    <3>3. QED
      BY <1>6, <3>1, <3>2
  <2>2. \A g \in Fibers :
          /\ g \in {waiter[c][h] : h \in es} => queued'[g] = 1 /\ g \notin dropped
          /\ g \notin {waiter[c][h] : h \in es} => queued'[g] = queued[g]
    BY <1>2, <2>1, ScheduleOnce
  <2>3. Leaves(c, es)
    BY <1>1, <1>3, <2>1, <2>2 DEF Leaves, TypeOK
  <2>4. QED
    BY <1>2, <2>1, <2>3, LeaveKeepsRegistry
<1>7. QED
  BY <1>4, <1>5, <1>6

\* idle() triggers the events that epoll reports.
LEMMA HandleKeepsRegistry ==
    ASSUME TypeOK, Places, Registry, Counted, NEW th \in Threads, HandleEvent(th), ~aborted'
    PROVE  Registry' /\ Counted'
<1>1. PICK b \in batch[th] :
        /\ Real(b) \subseteq events[b.ctx]
        /\ Schedule(b.ctx, Real(b)) /\ Unregister(b.ctx, Real(b))
  BY DEF HandleEvent
<1>2. UNCHANGED <<pc, call, dropped>>
  BY DEF HandleEvent
<1>3. b.ctx \in Contexts /\ Real(b) \in SUBSET Event
  BY DEF TypeOK, Real
<1>4. \A g \in Fibers :
        /\ g \in {waiter[b.ctx][h] : h \in Real(b)} => queued'[g] = 1 /\ g \notin dropped
        /\ g \notin {waiter[b.ctx][h] : h \in Real(b)} => queued'[g] = queued[g]
  BY <1>1, <1>3, ScheduleOnce
<1>5. Leaves(b.ctx, Real(b))
  BY <1>1, <1>2, <1>4 DEF Leaves, TypeOK
<1>6. QED
  BY <1>1, <1>3, <1>5, LeaveKeepsRegistry

LEMMA StepKeepsRegistry ==
    ASSUME TypeOK, Places, Registry, Counted, ~aborted, Next, ~aborted'
    PROVE  Registry' /\ Counted'
<1>1. ASSUME NEW f \in Fibers, LookUpToAdd(f) \/ LookUp(f) \/ Grow(f)
      PROVE  Registry' /\ Counted'
  <2>1. PICK l, fd, e, c :
          l \in {"add", "grow", "del", "cancel", "cancelAll"} /\ Enter(f, l, fd, e, c)
    BY <1>1 DEF LookUpToAdd, LookUp, Grow
  <2>2. UNCHANGED <<registryVars, dropped, queued>> /\ pc[f] # "wait"
    BY <1>1, <2>1 DEF LookUpToAdd, LookUp, Grow, Enter
  <2>3. /\ pc'[f] = l
        /\ \A g \in Fibers : g # f => pc'[g] = pc[g] /\ call'[g] = call[g]
    BY <2>1 DEF Enter, TypeOK, Places
  <2>4. QED
    BY <2>1, <2>2, <2>3, MoveKeepsRegistry
<1>2. ASSUME NEW f \in Fibers, Call(f)
      PROVE  Registry' /\ Counted'
  BY <1>1, <1>2, WatchKeepsRegistry, RegisterKeepsRegistry, ResumeKeepsRegistry,
     RemoversKeepRegistry DEF Call
<1>3. ASSUME UNCHANGED <<registryVars, fiberVars>>
      PROVE  Registry' /\ Counted'
  BY <1>3 DEF Registry, Registered, OneQueued, Registering, Counted, Waiting, Waits,
              registryVars, fiberVars
<1>4. ASSUME NEW th \in Threads, Idle(th)
      PROVE  Registry' /\ Counted'
  <2>1. CASE EpollWait(th) \/ SkipEvent(th)
    BY <1>3, <2>1 DEF EpollWait, SkipEvent
  <2>2. CASE HandleEvent(th)
    BY <2>2, HandleKeepsRegistry
  <2>3. QED
    BY <1>4, <2>1, <2>2 DEF Idle
<1>5. ASSUME NEW fd \in Fds, BecomeReady(fd) \/ BecomeUnready(fd)
      PROVE  Registry' /\ Counted'
  BY <1>3, <1>5 DEF BecomeReady, BecomeUnready
<1>6. QED
  BY <1>1, <1>2, <1>4, <1>5 DEF Next, Aborted

-----------------------------------------------------------------------------
(* The registry, for every number of contexts of a descriptor.             *)

Inv == TypeOK /\ Places /\ (~aborted => Registry /\ Counted)

LEMMA InitInv == Init => Inv
BY InitTypes, InitRegistry DEF Inv

LEMMA NextInv == Inv /\ [Next]_vars => Inv'
<1> SUFFICES ASSUME Inv, [Next]_vars PROVE Inv'
  OBVIOUS
<1>1. CASE UNCHANGED vars
  <2>1. TypeOK' /\ Places'
    BY <1>1 DEF Inv, TypeOK, Places, Exists, vars, tableVars, registryVars, fiberVars, kernelVars
  <2>2. ~aborted' => Registry' /\ Counted'
    BY <1>1 DEF Inv, Registry, Registered, OneQueued, Registering, Counted, Waiting, Waits,
                vars, registryVars, fiberVars
  <2>3. QED
    BY <2>1, <2>2 DEF Inv
<1>2. CASE Next /\ ~aborted
  <2>1. TypeOK /\ Places /\ Registry /\ Counted
    BY <1>2 DEF Inv
  <2>2. ~aborted' => Registry' /\ Counted'
    BY <1>2, <2>1, StepKeepsRegistry
  <2>3. m_pendingEventCount' \in Nat
    <3>1. CASE ~aborted'
      BY <2>2, <3>1, FS_CardinalityType DEF Counted
    <3>2. CASE aborted'
      <4>1. m_pendingEventCount' = m_pendingEventCount
        BY <1>2, <3>2
           DEF Next, Aborted, LookUpToAdd, LookUp, Call, Grow, WatchEvent, Register, Resume,
               NothingToRemove, DelEvent, CancelEvent, CancelAll, Idle, EpollWait, SkipEvent,
               HandleEvent, BecomeReady, BecomeUnready, registryVars
      <4>2. QED
        BY <2>1, <4>1 DEF TypeOK
    <3>3. QED
      BY <3>1, <3>2
  <2>4. \A c \in Contexts : \A e \in events[c] : waiter[c][e] \in Fibers
    BY <2>1 DEF TypeOK, Registry, Registered
  <2>5. TypeOK' /\ Places'
    <3>1. ASSUME NEW f \in Fibers, LookUpToAdd(f) \/ LookUp(f) \/ Call(f)
          PROVE  TypeOK' /\ Places'
      BY <2>1, <2>3, <2>4, <3>1, CallerTypes, RemoverTypes DEF Call
    <3>2. QED
      BY <1>2, <2>1, <2>3, <3>1, IdleTypes, KernelTypes DEF Next, Aborted
  <2>6. QED
    BY <2>2, <2>5 DEF Inv
<1>3. CASE Next /\ aborted
  BY <1>1, <1>3 DEF Next, Aborted
<1>4. QED
  BY <1>1, <1>2, <1>3

\* The invariant the theorems below are read off.
THEOREM Invariance == Spec => []Inv
<1>1. QED
  BY InitInv, NextInv, PTL DEF Spec

\* TypeOK holds in every reachable state: the pending count never falls below
\* zero, and a call past its look-up has a context to work on.
THEOREM TypeCorrect == Spec => []TypeOK
<1>1. Inv => TypeOK
  BY DEF Inv
<1>2. QED
  BY <1>1, Invariance, PTL

\* OneWakePerWait of iomanager.cc: addEvent(), the three ways to remove an
\* event and idle() together wake each waiting fiber exactly once, unless
\* delEvent() took its registration.
THEOREM WokenOnce == Spec => []OneWakePerWait
<1>1. Inv => OneWakePerWait
  <2> SUFFICES ASSUME Inv, ~aborted, NEW f \in Fibers
               PROVE  Cardinality(Registrations(f)) + queued[f] =
                        IF pc[f] = "wait" /\ f \notin dropped THEN 1 ELSE 0
    BY DEF OneWakePerWait
  <2>1. Registered /\ OneQueued
    BY DEF Inv, Registry
  <2>2. Registrations(f) \subseteq Contexts \X Event
    BY DEF Registrations
  <2>3. CASE Waits(f)
    <3>1. PICK c \in Contexts, e \in Event : waiter[c][e] = f
      BY <2>1, <2>3 DEF Registered
    <3>2. e \in events[c]
      BY <2>1, <3>1, FiberAssumption DEF Registered, Fibers
    <3>3. \A d \in Contexts, g \in Event : waiter[d][g] = f <=> d = c /\ g = e
      BY <2>1, <3>1, <3>2 DEF Registered
    <3>4. Registrations(f) = {<<c, e>>}
      BY <3>3 DEF Registrations
    <3>5. Cardinality(Registrations(f)) = 1
      BY <3>4, FS_Singleton
    <3>6. QED
      BY <2>3, <3>5 DEF Waits
  <2>4. CASE ~Waits(f)
    <3>1. \A c \in Contexts, e \in Event : waiter[c][e] # f
      BY <2>1, <2>4, FiberAssumption DEF Registered, Fibers
    <3>2. Registrations(f) = {}
      BY <3>1 DEF Registrations
    <3>3. Cardinality(Registrations(f)) = 0
      BY <3>2, FS_EmptySet
    <3>4. QED
      BY <2>1, <2>4, <3>3 DEF OneQueued, Waits
  <2>5. QED
    BY <2>3, <2>4
<1>2. QED
  BY <1>1, Invariance, PTL

\* PendingMatches of m_pendingEventCount, which stopping() reads: an IOManager
\* stops neither while a fiber waits nor later than the last one is queued.
THEOREM PendingIsExact == Spec => []PendingMatches
<1>1. Inv => PendingMatches
  BY DEF Inv, Counted, Waiting, PendingMatches
<1>2. QED
  BY <1>1, Invariance, PTL

-----------------------------------------------------------------------------
(* What epoll watches and reports, for descriptors with one context.       *)

\* The event an addEvent() has given to epoll and not yet to the context.
Adding(c) == {call[f].event : f \in {g \in Fibers : pc[g] = "register" /\ call[g].ctx = c}}

Watched(c) == events[c] \cup Adding(c)

Wants(c) == IF Watched(c) = {} THEN NoInterest ELSE [events |-> Watched(c), ctx |-> c]

\* Event e of descriptor fd is in epoll's list or in a batch.
Told(fd, e) ==
    \/ fd \in rdllist
    \/ \E th \in Threads : \E b \in batch[th] :
         b.ctx = <<fd, 1>> /\ (e \in b.got \/ "HUP" \in b.got)

\* While a descriptor has one context, epoll watches for what the context wants,
\* and what is watched and ready has been told.
KernelInv ==
    \A fd \in Fds : made[fd] <= 1 =>
        /\ interest[fd] = Wants(<<fd, 1>>)
        /\ \A e \in Watched(<<fd, 1>>) : e \in ready[fd] => Told(fd, e)

LEMMA NothingAdding ==
    ASSUME NEW c, ~Locked(c)
    PROVE  Adding(c) = {} /\ Watched(c) = events[c]
BY DEF Adding, Locked, Watched

LEMMA OneAdding ==
    ASSUME Registering, NEW f \in Fibers, pc[f] = "register"
    PROVE  Adding(call[f].ctx) = {call[f].event}
BY DEF Registering, Adding

\* The events that are being added to a context are those of the fibers in
\* its critical section.
LEMMA AddingSame ==
    ASSUME NEW c,
           \A f \in Fibers : (pc'[f] = "register" /\ call'[f].ctx = c)
                               <=> (pc[f] = "register" /\ call[f].ctx = c),
           \A f \in Fibers : pc'[f] = "register" => call'[f].event = call[f].event
    PROVE  Adding(c)' = Adding(c)
<1>1. {g \in Fibers : pc'[g] = "register" /\ call'[g].ctx = c}
        = {g \in Fibers : pc[g] = "register" /\ call[g].ctx = c}
  OBVIOUS
<1>2. \A f \in {g \in Fibers : pc[g] = "register" /\ call[g].ctx = c} :
        call'[f].event = call[f].event
  OBVIOUS
<1>3. QED
  BY <1>1, <1>2 DEF Adding

LEMMA WatchedTypes ==
    ASSUME TypeOK, Places, NEW c \in Contexts
    PROVE  Watched(c) \in SUBSET Event
<1>1. \A f \in Fibers : call[f].event \in Event
  BY DEF Places, Calls
<1>2. QED
  BY <1>1 DEF Watched, Adding, TypeOK

LEMMA InitKernel == Init => KernelInv
<1> SUFFICES ASSUME Init, NEW fd \in Fds
             PROVE  interest[fd] = Wants(<<fd, 1>>) /\ Watched(<<fd, 1>>) = {}
  BY DEF KernelInv
<1>1. ~Locked(<<fd, 1>>)
  BY DEF Init, Locked
<1>2. Watched(<<fd, 1>>) = {}
  BY <1>1, NothingAdding, FirstContext DEF Init
<1>3. QED
  BY <1>2 DEF Init, Wants

\* Nothing that matters to the kernel changes.
LEMMA KeepsKernel ==
    ASSUME KernelInv, UNCHANGED <<kernelVars, batch>>,
           \A fd \in Fds : made'[fd] <= 1 => made[fd] <= 1,
           \A c \in Contexts : Watched(c)' = Watched(c)
    PROVE  KernelInv'
<1> SUFFICES ASSUME NEW fd \in Fds, made'[fd] <= 1
             PROVE  /\ interest'[fd] = Wants(<<fd, 1>>)'
                    /\ \A e \in Watched(<<fd, 1>>)' : e \in ready'[fd] => Told(fd, e)'
  BY DEF KernelInv
<1>1. made[fd] <= 1 /\ Watched(<<fd, 1>>)' = Watched(<<fd, 1>>)
  BY FirstContext
<1>2. Wants(<<fd, 1>>)' = Wants(<<fd, 1>>)
  BY <1>1 DEF Wants
<1>3. \A e : Told(fd, e)' = Told(fd, e)
  BY DEF Told, kernelVars
<1>4. QED
  BY <1>1, <1>2, <1>3 DEF KernelInv, kernelVars

\* epoll_ctl() when it asks for more, or for what is left, or for nothing.
LEMMA RewatchKeepsKernel ==
    ASSUME TypeOK, Places, KernelInv, made' = made,
           NEW d \in Contexts, Exists(d), NEW es \in SUBSET Event,
           Rewatch(d[1], es, d),
           Watched(d)' = es,
           \A c \in Contexts : c # d => Watched(c)' = Watched(c),
           \A th \in Threads : \A b \in batch[th] : b.ctx # d => b \in batch'[th]
    PROVE  KernelInv'
<1> SUFFICES ASSUME NEW fd \in Fds, made'[fd] <= 1
             PROVE  /\ interest'[fd] = Wants(<<fd, 1>>)'
                    /\ \A e \in Watched(<<fd, 1>>)' : e \in ready'[fd] => Told(fd, e)'
  BY DEF KernelInv
<1>1. d[1] \in Fds /\ <<fd, 1>> \in Contexts /\ made[fd] <= 1
  BY ContextFacts, FirstContext
<1>2. CASE d[1] = fd
  <2>1. d = <<fd, 1>>
    BY <1>1, <1>2, OnlyContext
  <2>2. CASE es = {}
    <3>1. interest' = [interest EXCEPT ![fd] = NoInterest]
      BY <1>2, <2>2 DEF Rewatch, Unwatch
    <3>2. interest'[fd] = NoInterest
      BY <3>1 DEF TypeOK
    <3>3. QED
      BY <2>1, <2>2, <3>2 DEF Wants
  <2>3. CASE es # {}
    <3>1. /\ interest' = [interest EXCEPT ![fd] = [events |-> es, ctx |-> d]]
          /\ rdllist' = IF Reported(ready[fd], es) # {} THEN rdllist \cup {fd} ELSE rdllist
          /\ ready' = ready
      BY <1>2, <2>3 DEF Rewatch, Watch
    <3>2. interest'[fd] = [events |-> es, ctx |-> d]
      BY <3>1 DEF TypeOK
    <3>3. \A e \in es : e \in ready[fd] => fd \in rdllist'
      BY <3>1 DEF Reported
    <3>4. QED
      BY <2>1, <2>3, <3>1, <3>2, <3>3 DEF Wants, Told
  <2>4. QED
    BY <2>2, <2>3
<1>3. CASE d[1] # fd
  <2>1. <<fd, 1>> # d
    BY <1>3
  <2>2. Watched(<<fd, 1>>)' = Watched(<<fd, 1>>)
    BY <1>1, <2>1
  <2>3. interest'[fd] = interest[fd] /\ (fd \in rdllist => fd \in rdllist') /\ ready' = ready
    BY <1>1, <1>3 DEF Rewatch, Watch, Unwatch, TypeOK
  <2>4. Wants(<<fd, 1>>)' = Wants(<<fd, 1>>)
    BY <2>2 DEF Wants
  <2>5. \A e : Told(fd, e) => Told(fd, e)'
    BY <2>1, <2>3 DEF Told
  <2>6. QED
    BY <1>1, <2>2, <2>3, <2>4, <2>5 DEF KernelInv
<1>4. QED
  BY <1>2, <1>3

\* Events that are reset under the context's mutex leave epoll with it.
LEMMA UnregisterKeepsKernel ==
    ASSUME TypeOK, Places, KernelInv, made' = made,
           NEW d \in Contexts, Exists(d), NEW es \in SUBSET Event, ~Locked(d),
           Rewatch(d[1], events[d] \ es, d), Unregister(d, es),
           \A f \in Fibers : pc'[f] = "register" <=> pc[f] = "register",
           \A f \in Fibers : pc[f] = "register" => call'[f] = call[f],
           \A th \in Threads : \A b \in batch[th] : b.ctx # d => b \in batch'[th]
    PROVE  KernelInv'
<1>1. \A c \in Contexts : Adding(c)' = Adding(c)
  BY AddingSame
<1>2. events'[d] = events[d] \ es /\ \A c \in Contexts : c # d => events'[c] = events[c]
  BY UnregisterTypes
<1>3. Watched(d)' = events[d] \ es
  BY <1>1, <1>2, NothingAdding DEF Watched
<1>4. \A c \in Contexts : c # d => Watched(c)' = Watched(c)
  BY <1>1, <1>2 DEF Watched
<1>5. events[d] \ es \in SUBSET Event
  BY DEF TypeOK
<1>6. QED
  BY <1>3, <1>4, <1>5, RewatchKeepsKernel

\* addEvent() and run(), and a removal that finds nothing to remove.
LEMMA CallKeepsKernel ==
    ASSUME TypeOK, Places, Registry, KernelInv, NEW f \in Fibers,
           LookUpToAdd(f) \/ LookUp(f) \/ Grow(f) \/ WatchEvent(f) \/ Register(f)
             \/ Resume(f) \/ NothingToRemove(f)
    PROVE  KernelInv'
<1>1. ASSUME UNCHANGED <<events, kernelVars, batch>>,
             \A fd \in Fds : made'[fd] <= 1 => made[fd] <= 1,
             pc[f] # "register", pc'[f] # "register",
             \A g \in Fibers : g # f => pc'[g] = pc[g] /\ call'[g] = call[g]
      PROVE  KernelInv'
  <2>1. \A c \in Contexts : Adding(c)' = Adding(c)
    BY <1>1, AddingSame
  <2>2. \A c \in Contexts : Watched(c)' = Watched(c)
    BY <1>1, <2>1 DEF Watched
  <2>3. QED
    BY <1>1, <2>2, KeepsKernel
<1>2. ASSUME NEW l \in {"add", "grow", "del", "cancel", "cancelAll"}, NEW fd, NEW e, NEW c,
             Enter(f, l, fd, e, c)
      PROVE  /\ pc'[f] # "register"
             /\ \A g \in Fibers : g # f => pc'[g] = pc[g] /\ call'[g] = call[g]
  BY <1>2 DEF Enter, TypeOK, Places
<1>3. CASE LookUpToAdd(f) \/ LookUp(f)
  <2>1. PICK l, fd, e, c :
          l \in {"add", "grow", "del", "cancel", "cancelAll"} /\ Enter(f, l, fd, e, c)
    BY <1>3 DEF LookUpToAdd, LookUp
  <2>2. UNCHANGED <<events, made, kernelVars, batch>> /\ pc[f] = "run"
    BY <1>3 DEF LookUpToAdd, LookUp, registryVars, tableVars
  <2>3. QED
    BY <1>1, <1>2, <2>1, <2>2
<1>4. CASE Grow(f)
  <2> DEFINE n == (call[f].fd * 3) \div 2
  <2>1. n \in Nat
    <3>1. call[f].fd \in Nat /\ call[f].fd >= 2
      BY <1>4, FdAssumption DEF Grow, Places
    <3>2. QED
      BY <3>1, GrowsPast
  <2>2. made' = Made(n) /\ pc[f] = "grow" /\ UNCHANGED <<registryVars, kernelVars, batch>>
    BY <1>4 DEF Grow
  <2>3. \E fd, e, c : Enter(f, "add", fd, e, c)
    BY <1>4 DEF Grow
  <2> HIDE DEF n
  <2>4. \A fd \in Fds : made'[fd] >= made[fd] /\ made'[fd] \in Nat /\ made[fd] \in Nat
    BY <2>1, <2>2, MadeGrows, BoundAssumption DEF TypeOK
  <2>5. \A fd \in Fds : made'[fd] <= 1 => made[fd] <= 1
    BY <2>4
  <2>6. QED
    BY <1>1, <1>2, <2>2, <2>3, <2>5 DEF registryVars
<1>5. CASE WatchEvent(f)
  <2> DEFINE d == call[f].ctx
             e == call[f].event
  <2>1. d \in Contexts /\ Exists(d) /\ call[f].fd = d[1] /\ e \in Event
    BY <1>5 DEF WatchEvent, Places, Placed, Calls
  <2>2. /\ pc[f] = "add" /\ ~Locked(d)
        /\ UNCHANGED <<tableVars, registryVars, batch>>
    BY <1>5 DEF WatchEvent
  <2>3. CASE Return(f) /\ UNCHANGED kernelVars
    <3>1. /\ pc'[f] = "run"
          /\ \A g \in Fibers : g # f => pc'[g] = pc[g] /\ call'[g] = call[g]
      BY <2>3, ReturnTypes
    <3>2. QED
      BY <1>1, <2>2, <2>3, <3>1 DEF registryVars, tableVars
  <2>4. CASE /\ Watch(d[1], events[d] \cup {e}, d)
             /\ pc' = [pc EXCEPT ![f] = "register"] /\ call' = call
    <3>1. pc'[f] = "register" /\ \A g \in Fibers : g # f => pc'[g] = pc[g]
      BY <2>4 DEF TypeOK
    <3>2. PICK c \in Contexts : c = d
      BY <2>1
    <3>3. \A g \in Fibers : pc'[g] = "register" /\ call'[g].ctx = c <=> g = f
      BY <2>2, <2>4, <3>1, <3>2 DEF Locked
    <3>4. Watched(c)' = events[c] \cup {e}
      <4>1. {g \in Fibers : pc'[g] = "register" /\ call'[g].ctx = c} = {f}
        BY <3>3
      <4>2. Adding(c)' = {e}
        BY <2>4, <4>1 DEF Adding
      <4>3. QED
        BY <2>2, <4>2 DEF Watched, registryVars
    <3>5. \A k \in Contexts : k # c => Watched(k)' = Watched(k)
      <4>1. \A k \in Contexts : k # c => Adding(k)' = Adding(k)
        BY <2>2, <2>4, <3>1, <3>2, AddingSame
      <4>2. QED
        BY <2>2, <4>1 DEF Watched, registryVars
    <3>6. Rewatch(c[1], events[c] \cup {e}, c) /\ events[c] \cup {e} \in SUBSET Event
      BY <2>1, <2>4, <3>2 DEF Rewatch, TypeOK
    <3>7. QED
      BY <2>1, <2>2, <3>2, <3>4, <3>5, <3>6, RewatchKeepsKernel DEF tableVars
  <2>5. QED
    BY <1>5, <2>1, <2>3, <2>4 DEF WatchEvent
<1>6. CASE Register(f)
  <2> DEFINE e == call[f].event
  <2>1. PICK d \in Contexts : d = call[f].ctx
    BY <1>6 DEF Register, TypeOK
  <2>2. /\ pc[f] = "register"
        /\ events' = [events EXCEPT ![d] = events[d] \cup {e}]
        /\ pc' = [pc EXCEPT ![f] = "wait"]
        /\ UNCHANGED <<tableVars, call, kernelVars, batch>>
    BY <1>6, <2>1 DEF Register
  <2>3. pc'[f] = "wait" /\ \A g \in Fibers : g # f => pc'[g] = pc[g]
    BY <2>2 DEF TypeOK
  <2>4. Watched(d)' = Watched(d)
    <3>1. Adding(d) = {e}
      BY <2>1, <2>2, OneAdding DEF Registry
    <3>2. ~Locked(d)'
      BY <2>1, <2>2, <2>3 DEF Registry, Registering, Locked
    <3>3. Adding(d)' = {}
      BY <3>2 DEF Adding, Locked
    <3>4. events'[d] = events[d] \cup {e}
      BY <2>2 DEF TypeOK
    <3>5. QED
      BY <3>1, <3>3, <3>4 DEF Watched
  <2>5. \A c \in Contexts : c # d => Watched(c)' = Watched(c)
    <3>1. \A c \in Contexts : c # d => Adding(c)' = Adding(c)
      BY <2>1, <2>2, <2>3, AddingSame
    <3>2. \A c \in Contexts : c # d => events'[c] = events[c]
      BY <2>2 DEF TypeOK
    <3>3. QED
      BY <3>1, <3>2 DEF Watched
  <2>6. QED
    BY <2>2, <2>4, <2>5, KeepsKernel DEF tableVars
<1>7. CASE Resume(f) \/ NothingToRemove(f)
  <2>1. Return(f) /\ pc[f] # "register" /\ UNCHANGED <<tableVars, registryVars, kernelVars, batch>>
    BY <1>7 DEF Resume, NothingToRemove
  <2>2. /\ pc'[f] = "run"
        /\ \A g \in Fibers : g # f => pc'[g] = pc[g] /\ call'[g] = call[g]
    BY <2>1, ReturnTypes
  <2>3. QED
    BY <1>1, <2>1, <2>2 DEF registryVars, tableVars
<1>8. QED
  BY <1>3, <1>4, <1>5, <1>6, <1>7

\* delEvent(), cancelEvent() and cancelAll().
LEMMA RemoversKeepKernel ==
    ASSUME TypeOK, Places, KernelInv, NEW f \in Fibers,
           DelEvent(f) \/ CancelEvent(f) \/ CancelAll(f)
    PROVE  KernelInv'
<1> DEFINE e == call[f].event
<1>1. /\ pc[f] \in {"del", "cancel", "cancelAll"} /\ Return(f)
      /\ ~Locked(call[f].ctx) /\ UNCHANGED <<tableVars, batch>>
  BY DEF DelEvent, CancelEvent, CancelAll, Removes
<1>2. PICK d \in Contexts : d = call[f].ctx
  BY <1>1 DEF TypeOK
<1>3. Exists(d) /\ e \in Event
  BY <1>1, <1>2 DEF Places, Placed, Calls
<1>4. /\ pc'[f] = "run"
      /\ \A g \in Fibers : g # f => pc'[g] = pc[g] /\ call'[g] = call[g]
  BY <1>1, ReturnTypes
<1>5. PICK es \in SUBSET Event : Rewatch(d[1], events[d] \ es, d) /\ Unregister(d, es)
  <2>1. CASE DelEvent(f) \/ CancelEvent(f)
    <3>1. Rewatch(d[1], events[d] \ {e}, d) /\ Unregister(d, {e})
      BY <1>2, <2>1 DEF DelEvent, CancelEvent
    <3>2. {e} \in SUBSET Event
      BY <1>3
    <3>3. QED
      BY <3>1, <3>2
  <2>2. CASE CancelAll(f)
    <3>1. Unwatch(d[1]) /\ Unregister(d, events[d])
      BY <1>2, <2>2 DEF CancelAll
    <3>2. events[d] \in SUBSET Event /\ events[d] \ events[d] = {}
      BY DEF TypeOK
    <3>3. QED
      BY <3>1, <3>2 DEF Rewatch
  <2>3. QED
    BY <2>1, <2>2
<1>6. QED
  BY <1>1, <1>2, <1>3, <1>4, <1>5, UnregisterKeepsKernel DEF tableVars

\* epoll_wait(), and what idle() does with what it returns.
LEMMA IdleKeepsKernel ==
    ASSUME TypeOK, Places, KernelInv, NEW th \in Threads, Idle(th), ~aborted'
    PROVE  KernelInv'
<1>1. CASE EpollWait(th)
  <2> DEFINE report == {[ctx |-> interest[fd].ctx,
                         got |-> Reported(ready[fd], interest[fd].events)] :
                        fd \in {g \in Fds : Fires(g)}}
  <2>1. /\ batch[th] = {}
        /\ batch' = [batch EXCEPT ![th] = report] /\ rdllist' = {}
        /\ UNCHANGED <<tableVars, registryVars, fiberVars, interest, ready>>
    BY <1>1 DEF EpollWait
  <2>2. \A c \in Contexts : Watched(c)' = Watched(c)
    BY <2>1 DEF Watched, Adding, registryVars, fiberVars
  <2> SUFFICES ASSUME NEW fd \in Fds, made'[fd] <= 1
               PROVE  /\ interest'[fd] = Wants(<<fd, 1>>)'
                      /\ \A e \in Watched(<<fd, 1>>)' : e \in ready'[fd] => Told(fd, e)'
    BY DEF KernelInv
  <2>3. made[fd] <= 1 /\ <<fd, 1>> \in Contexts
    BY <2>1, FirstContext DEF tableVars
  <2>4. Watched(<<fd, 1>>)' = Watched(<<fd, 1>>)
    BY <2>2, <2>3
  <2>5. interest'[fd] = Wants(<<fd, 1>>)'
    BY <2>1, <2>3, <2>4 DEF KernelInv, Wants
  <2>6. ASSUME NEW e \in Watched(<<fd, 1>>), e \in ready[fd]
        PROVE  Told(fd, e)'
    <3>1. interest[fd] = [events |-> Watched(<<fd, 1>>), ctx |-> <<fd, 1>>]
      BY <2>3, <2>6 DEF KernelInv, Wants
    <3>2. interest[fd] # NoInterest
      BY <2>3, <3>1, WatchedTypes, InterestAssumption
    <3>3. CASE fd \in rdllist
      <4>1. e \in Reported(ready[fd], interest[fd].events)
        BY <2>6, <3>1 DEF Reported
      <4>2. Fires(fd)
        BY <3>2, <3>3, <4>1 DEF Fires
      <4>3. PICK b \in report : b.ctx = <<fd, 1>> /\ e \in b.got
        <5> DEFINE b == [ctx |-> interest[fd].ctx,
                         got |-> Reported(ready[fd], interest[fd].events)]
        <5>1. b \in report
          BY <4>2
        <5>2. b.ctx = <<fd, 1>> /\ e \in b.got
          BY <3>1, <4>1
        <5>3. QED
          BY <5>1, <5>2
      <4>4. b \in batch'[th]
        BY <2>1, <4>3 DEF TypeOK
      <4>5. QED
        BY <4>3, <4>4 DEF Told
    <3>4. CASE fd \notin rdllist
      <4>1. PICK t \in Threads : \E b \in batch[t] :
              b.ctx = <<fd, 1>> /\ (e \in b.got \/ "HUP" \in b.got)
        BY <2>3, <2>6, <3>4 DEF KernelInv, Told
      <4>2. t # th
        BY <2>1, <4>1
      <4>3. batch'[t] = batch[t]
        BY <2>1, <4>2 DEF TypeOK
      <4>4. QED
        BY <4>1, <4>3 DEF Told
    <3>5. QED
      BY <3>3, <3>4
  <2>7. QED
    BY <2>1, <2>4, <2>5, <2>6
<1>2. ASSUME NEW b \in batch[th], Handled(th, b)
      PROVE  \A t \in Threads : \A k \in batch[t] : k # b => k \in batch'[t]
  BY <1>2 DEF TypeOK, Handled
<1>3. CASE SkipEvent(th)
  <2>1. PICK b \in batch[th] :
          /\ ~Locked(b.ctx)
          /\ events[b.ctx] \cap Real(b) = {} \/ interest[b.ctx[1]] = NoInterest
          /\ Handled(th, b)
    BY <1>3 DEF SkipEvent
  <2>2. UNCHANGED <<tableVars, registryVars, fiberVars, kernelVars>>
    BY <1>3 DEF SkipEvent
  <2>3. \A c \in Contexts : Watched(c)' = Watched(c)
    BY <2>2 DEF Watched, Adding, registryVars, fiberVars
  <2> SUFFICES ASSUME NEW fd \in Fds, made'[fd] <= 1
               PROVE  /\ interest'[fd] = Wants(<<fd, 1>>)'
                      /\ \A e \in Watched(<<fd, 1>>)' : e \in ready'[fd] => Told(fd, e)'
    BY DEF KernelInv
  <2>4. made[fd] <= 1 /\ <<fd, 1>> \in Contexts
    BY <2>2, FirstContext DEF tableVars
  <2>5. Watched(<<fd, 1>>)' = Watched(<<fd, 1>>)
    BY <2>3, <2>4
  <2>6. interest'[fd] = Wants(<<fd, 1>>)'
    BY <2>2, <2>4, <2>5 DEF KernelInv, Wants, kernelVars
  <2>7. ASSUME NEW e \in Watched(<<fd, 1>>), e \in ready[fd]
        PROVE  Told(fd, e)'
    <3>1. Told(fd, e)
      BY <2>4, <2>7 DEF KernelInv
    <3>2. CASE b.ctx = <<fd, 1>>
      <4>1. Watched(<<fd, 1>>) = events[<<fd, 1>>]
        BY <2>1, <3>2, NothingAdding
      <4>2. interest[fd] = [events |-> Watched(<<fd, 1>>), ctx |-> <<fd, 1>>]
        BY <2>4, <2>7 DEF KernelInv, Wants
      <4>3. interest[fd] # NoInterest
        BY <2>4, <4>2, WatchedTypes, InterestAssumption
      <4>4. e \in events[b.ctx] /\ events[b.ctx] \cap Real(b) = {} /\ e \in Event
        <5>1. b.ctx[1] = fd
          BY <3>2
        <5>2. e \in events[b.ctx] /\ events[b.ctx] \cap Real(b) = {}
          BY <2>1, <2>7, <3>2, <4>1, <4>3, <5>1
        <5>3. events[b.ctx] \subseteq Event
          BY <2>4, <3>2 DEF TypeOK
        <5>4. QED
          BY <5>2, <5>3
      <4>5. e \notin b.got /\ "HUP" \notin b.got
        BY <4>4 DEF Real
      <4>6. QED
        BY <1>2, <2>1, <2>2, <3>1, <4>5 DEF Told, kernelVars
    <3>3. CASE b.ctx # <<fd, 1>>
      BY <1>2, <2>1, <2>2, <3>1, <3>3 DEF Told, kernelVars
    <3>4. QED
      BY <3>2, <3>3
  <2>8. QED
    BY <2>2, <2>5, <2>6, <2>7 DEF kernelVars
<1>4. CASE HandleEvent(th)
  <2>1. PICK b \in batch[th] :
          /\ ~Locked(b.ctx)
          /\ Rewatch(b.ctx[1], events[b.ctx] \ Real(b), b.ctx)
          /\ Handled(th, b)
          /\ Unregister(b.ctx, Real(b))
    BY <1>4 DEF HandleEvent
  <2>2. b.ctx \in Contexts /\ Exists(b.ctx) /\ Real(b) \in SUBSET Event
    BY DEF TypeOK, Places, Real
  <2>3. \A t \in Threads : \A k \in batch[t] : k.ctx # b.ctx => k \in batch'[t]
    BY <1>2, <2>1
  <2>4. UNCHANGED <<tableVars, pc, call>>
    BY <1>4 DEF HandleEvent
  <2>5. QED
    BY <2>1, <2>2, <2>3, <2>4, UnregisterKeepsKernel DEF tableVars
<1>5. QED
  BY <1>1, <1>3, <1>4 DEF Idle

\* The kernel notices what becomes ready while it is watched.
LEMMA ReadinessKeepsKernel ==
    ASSUME TypeOK, Places, KernelInv, NEW k \in Fds, BecomeReady(k) \/ BecomeUnready(k)
    PROVE  KernelInv'
<1>1. UNCHANGED <<tableVars, registryVars, fiberVars, interest, batch>>
  BY DEF BecomeReady, BecomeUnready
<1>2. \A c \in Contexts : Watched(c)' = Watched(c)
  BY <1>1 DEF Watched, Adding, registryVars, fiberVars
<1> SUFFICES ASSUME NEW fd \in Fds, made'[fd] <= 1
             PROVE  /\ interest'[fd] = Wants(<<fd, 1>>)'
                    /\ \A e \in Watched(<<fd, 1>>)' : e \in ready'[fd] => Told(fd, e)'
  BY DEF KernelInv
<1>3. made[fd] <= 1 /\ <<fd, 1>> \in Contexts
  BY <1>1, FirstContext DEF tableVars
<1>4. Watched(<<fd, 1>>)' = Watched(<<fd, 1>>)
  BY <1>2, <1>3
<1>5. interest'[fd] = Wants(<<fd, 1>>)'
  BY <1>1, <1>3, <1>4 DEF KernelInv, Wants
<1>6. ASSUME NEW e \in Watched(<<fd, 1>>), e \in ready'[fd]
      PROVE  Told(fd, e)'
  <2>1. fd \in rdllist => fd \in rdllist'
    BY DEF BecomeReady, BecomeUnready
  <2>2. CASE e \in ready[fd]
    BY <1>1, <1>3, <1>6, <2>1, <2>2 DEF KernelInv, Told
  <2>3. CASE e \notin ready[fd]
    <3>1. CASE BecomeReady(k)
      <4>1. PICK s \in Condition :
              /\ ready' = [ready EXCEPT ![k] = ready[k] \cup {s}]
              /\ rdllist' = IF /\ interest[k] # NoInterest
                               /\ Reported({s}, interest[k].events) # {}
                              THEN rdllist \cup {k} ELSE rdllist
        BY <3>1 DEF BecomeReady
      <4>2. k = fd /\ s = e
        BY <1>6, <2>3, <4>1 DEF TypeOK
      <4>3. interest[fd] = [events |-> Watched(<<fd, 1>>), ctx |-> <<fd, 1>>]
        BY <1>3, <1>6 DEF KernelInv, Wants
      <4>4. interest[fd] # NoInterest
        BY <1>3, <4>3, WatchedTypes, InterestAssumption
      <4>5. e \in Reported({s}, interest[fd].events)
        BY <1>6, <4>2, <4>3 DEF Reported
      <4>6. fd \in rdllist'
        BY <4>1, <4>2, <4>4, <4>5
      <4>7. QED
        BY <4>6 DEF Told
    <3>2. CASE BecomeUnready(k)
      <4>1. ready'[fd] \subseteq ready[fd]
        BY <3>2 DEF BecomeUnready, TypeOK
      <4>2. QED
        BY <1>6, <2>3, <4>1
    <3>3. QED
      BY <3>1, <3>2
  <2>4. QED
    BY <2>2, <2>3
<1>7. QED
  BY <1>4, <1>5, <1>6

LEMMA StepKeepsKernel ==
    ASSUME TypeOK, Places, Registry, KernelInv, ~aborted, Next, ~aborted'
    PROVE  KernelInv'
<1>1. ASSUME NEW f \in Fibers, LookUpToAdd(f) \/ LookUp(f) \/ Call(f)
      PROVE  KernelInv'
  BY <1>1, CallKeepsKernel, RemoversKeepKernel DEF Call
<1>2. QED
  BY <1>1, IdleKeepsKernel, ReadinessKeepsKernel DEF Next, Aborted

FullInv == Inv /\ (~aborted => KernelInv)

LEMMA FullInvariance == Spec => []FullInv
<1>1. Init => FullInv
  BY InitInv, InitKernel DEF FullInv
<1>2. FullInv /\ [Next]_vars => FullInv'
  <2> SUFFICES ASSUME FullInv, [Next]_vars PROVE ~aborted' => KernelInv'
    BY NextInv DEF FullInv
  <2>1. CASE UNCHANGED vars
    <3>1. \A c \in Contexts : Watched(c)' = Watched(c)
      BY <2>1 DEF Watched, Adding, vars, registryVars, fiberVars
    <3>2. aborted' = aborted /\ made' = made /\ UNCHANGED <<kernelVars, batch>>
      BY <2>1 DEF vars, tableVars
    <3>3. QED
      BY <3>1, <3>2, KeepsKernel DEF FullInv
  <2>2. CASE Next /\ ~aborted
    BY <2>2, StepKeepsKernel DEF FullInv, Inv
  <2>3. CASE Next /\ aborted
    BY <2>3 DEF Next, Aborted, vars
  <2>4. QED
    BY <2>1, <2>2, <2>3
<1>3. QED
  BY <1>1, <1>2, PTL DEF Spec

\* No descriptor has been given a second FdContext: contextResize() has not
\* dropped an entry that was made again later.
NoSecondContext == \A fd \in Fds : made[fd] <= 1

\* InterestMatches of addEvent(), delEvent(), cancelEvent(), cancelAll() and
\* idle(): between two steps of any of them epoll watches for exactly the
\* events of the context and the one that is being added.
THEOREM EpollWatchesRegistered == Spec => [](NoSecondContext => InterestMatches)
<1>1. FullInv /\ NoSecondContext => InterestMatches
  <2> SUFFICES ASSUME FullInv, NoSecondContext, ~aborted, NEW c \in Contexts, InTable(c)
               PROVE  interest[c[1]] = Wants(c)
    BY DEF InterestMatches, Wants, Watched, Adding
  <2>1. TypeOK /\ c[1] \in Fds /\ made[c[1]] <= 1
    BY ContextFacts DEF FullInv, Inv, NoSecondContext
  <2>2. Exists(c)
    <3>1. c[2] = made[c[1]] /\ made[c[1]] \in Nat
      BY <2>1, BoundAssumption DEF InTable, Slot, TypeOK
    <3>2. QED
      BY <3>1 DEF Exists
  <2>3. c = <<c[1], 1>>
    BY <2>1, <2>2, OnlyContext
  <2>4. interest[c[1]] = Wants(<<c[1], 1>>)
    BY <2>1 DEF FullInv, KernelInv
  <2>5. QED
    BY <2>3, <2>4
<1>2. QED
  BY <1>1, FullInvariance, PTL

\* ReadyIsReported of the edge-triggered epoll_wait() in idle(): no order of
\* reports, registrations and removals loses the readiness of an event that
\* is registered.
THEOREM NoReadinessIsLost == Spec => [](NoSecondContext => ReadyIsReported)
<1>1. FullInv /\ NoSecondContext => ReadyIsReported
  <2> SUFFICES ASSUME FullInv, NoSecondContext, ~aborted,
                      NEW c \in Contexts, NEW e \in events[c], e \in ready[c[1]]
               PROVE  \/ c[1] \in rdllist
                      \/ \E th \in Threads : \E b \in batch[th] : b.ctx = c /\ e \in Real(b)
    BY DEF ReadyIsReported
  <2>1. c[1] \in Fds /\ made[c[1]] <= 1 /\ Exists(c) /\ TypeOK
    BY ContextFacts DEF NoSecondContext, FullInv, Inv, Places
  <2>2. c = <<c[1], 1>>
    BY <2>1, OnlyContext
  <2>3. Told(c[1], e)
    <3>1. e \in Watched(<<c[1], 1>>)
      BY <2>2 DEF Watched
    <3>2. QED
      BY <2>1, <3>1 DEF FullInv, KernelInv
  <2>4. e \in Event
    BY <2>1 DEF TypeOK
  <2>5. ASSUME NEW th \in Threads, NEW b \in batch[th], b.ctx = c,
               e \in b.got \/ "HUP" \in b.got
        PROVE  e \in Real(b)
    BY <2>4, <2>5 DEF Real
  <2>6. QED
    BY <2>2, <2>3, <2>5 DEF Told
<1>2. QED
  BY <1>1, FullInvariance, PTL

\* A process whose descriptors are all below the size the constructor asks for
\* never resizes the table.
WithinTable ==
    /\ size = InitialSize
    /\ \A fd \in Fds : made[fd] = 1
    /\ \A f \in Fibers : pc[f] # "grow"

\* RegisteredIsInTable of the comment at iomanager.h:38, and the two properties
\* of epoll above: they hold of a process whose descriptors are below the
\* initial size, so what breaks the first is contextResize() alone.
THEOREM SmallDescriptors ==
    ASSUME \A fd \in Fds : fd < InitialSize
    PROVE  Spec => [](RegisteredIsInTable /\ InterestMatches /\ ReadyIsReported)
<1>1. Init => WithinTable
  BY DEF Init, WithinTable
<1>2. TypeOK /\ Places /\ WithinTable /\ [Next]_vars => WithinTable'
  <2> SUFFICES ASSUME TypeOK, Places, WithinTable, [Next]_vars PROVE WithinTable'
    OBVIOUS
  <2>1. ASSUME NEW f \in Fibers, LookUpToAdd(f) \/ LookUp(f)
        PROVE  WithinTable'
    <3>1. PICK l, fd, e, c : l \in {"add", "del", "cancel", "cancelAll"} /\ Enter(f, l, fd, e, c)
      BY <2>1 DEF LookUpToAdd, LookUp, WithinTable
    <3>2. \A g \in Fibers : pc'[g] # "grow"
      BY <3>1 DEF Enter, TypeOK, WithinTable
    <3>3. QED
      BY <2>1, <3>2 DEF LookUpToAdd, LookUp, WithinTable, tableVars
  <2>2. ASSUME NEW f \in Fibers, Call(f)
        PROVE  WithinTable'
    <3>1. ~Grow(f)
      BY DEF Grow, WithinTable
    <3>2. UNCHANGED tableVars /\ \A g \in Fibers : pc'[g] \in {pc[g], "run", "register", "wait"}
      BY <2>2, <3>1
         DEF Call, WatchEvent, Register, Resume, NothingToRemove, DelEvent, CancelEvent,
             CancelAll, Return, TypeOK
    <3>3. QED
      BY <3>2 DEF WithinTable, tableVars
  <2>3. ASSUME NEW th \in Threads, Idle(th)
        PROVE  WithinTable'
    BY <2>3 DEF Idle, EpollWait, SkipEvent, HandleEvent, WithinTable, tableVars, fiberVars
  <2>4. ASSUME NEW fd \in Fds, BecomeReady(fd) \/ BecomeUnready(fd)
        PROVE  WithinTable'
    BY <2>4 DEF BecomeReady, BecomeUnready, WithinTable, tableVars, fiberVars
  <2>5. CASE UNCHANGED vars
    BY <2>5 DEF WithinTable, vars, tableVars, fiberVars
  <2>6. QED
    BY <2>1, <2>2, <2>3, <2>4, <2>5 DEF Next, Aborted
<1>3. Inv => TypeOK /\ Places
  BY DEF Inv
<1>4. Spec => []WithinTable
  BY <1>1, <1>2, <1>3, Invariance, PTL DEF Spec
<1>5. WithinTable => NoSecondContext
  BY DEF WithinTable, NoSecondContext
<1>6. Inv /\ WithinTable => RegisteredIsInTable
  <2> SUFFICES ASSUME Inv, WithinTable, NEW c \in Contexts, events[c] # {}
               PROVE  InTable(c)
    BY DEF RegisteredIsInTable
  <2>1. TypeOK /\ Exists(c) /\ c[1] \in Fds /\ made[c[1]] = 1 /\ size = InitialSize
    BY ContextFacts DEF Inv, Places, WithinTable
  <2>2. c = <<c[1], 1>>
    BY <2>1, OnlyContext
  <2>3. QED
    BY <2>1, <2>2 DEF InTable, Slot
<1>7. QED
  BY <1>4, <1>5, <1>6, Invariance, EpollWatchesRegistered, NoReadinessIsLost, PTL
=============================================================================
