------------------------------- MODULE HookIo -------------------------------
(***************************************************************************)
(* The system calls sylar/hook.cc replaces and the table of descriptors of *)
(* sylar/fd_manager.cc.  A fiber that would block registers with the       *)
(* IOManager and yields; the event, the callback of its condition timer or *)
(* another fiber's close() wakes it, each on a thread of its own.          *)
(*                                                                         *)
(* The IOManager appears through what the hook layer sees of it: who is    *)
(* registered for an event (FdEvents has the details), and callbacks that  *)
(* run some time after their timer expired (TimerManager).  Time is left   *)
(* out: a timer expires at some moment after it was added.                 *)
(***************************************************************************)
EXTENDS Integers, FiniteSets

CONSTANTS
    Fibers,
    NoFiber,
    Fds,        \* descriptor numbers
    MaxSockets, \* bound: sockets made; numbers are reused, sockets are not
    MaxCalls,   \* bound: hooked calls per fiber
    MaxRounds,  \* bound: waits within one call
    MaxLate     \* bound: callbacks of expired timers on their way

Event == {"READ", "WRITE"}
Sockets == 1..MaxSockets
Closed == 0
NoCtx == [sock |-> Closed, userNonblock |-> FALSE, timeout |-> FALSE]
Nobody == [fiber |-> NoFiber, sock |-> Closed]

VARIABLES
    sock,      \* the socket behind a descriptor
    made,      \* how many sockets there have been
    conn,      \* how far a socket's connection is
    nonblock,  \* sockets with O_NONBLOCK in the kernel
    size,      \* FdManager: m_datas.size()
    m_datas,   \* FdManager: the FdCtx of a descriptor
    unhooked,  \* history: numbers closed without hooks, their FdCtx left
    waiter,    \* IOManager: who waits for an event, on which socket
    woken,     \* what has scheduled a parked fiber
    armed,     \* condition timers in the IOManager, of a wait of a call
    fired,     \* expired timers whose callback has not looked at its tinfo
    cancels,   \* callbacks that have set the tinfo and will cancel the event
    expired,   \* history: fibers one of whose call's timers has expired
    cancelled, \* the tinfo of the fiber's call holds ETIMEDOUT
    pc, call,  \* where a fiber is, and in which call
    calls,     \* how many calls it has begun
    closed,    \* history: fibers whose descriptor close() was called for
    result     \* what its last call returned

sockVars == <<sock, made, conn, nonblock>>
tableVars == <<size, m_datas, unhooked>>
waitVars == <<waiter, woken>>
timerVars == <<armed, fired, cancels, expired>>
fiberVars == <<pc, call, calls, closed, result, cancelled>>
vars == <<sockVars, tableVars, waitVars, timerVars, fiberVars>>

NoCall == [kind |-> "none", fd |-> 0, sock |-> Closed, event |-> "NONE",
           timed |-> FALSE, round |-> 0, cause |-> "no", early |-> FALSE]

Init ==
    /\ sock = [fd \in Fds |-> Closed]
    /\ made = 0
    /\ conn = [s \in Sockets |-> "new"]
    /\ nonblock = {}
    /\ size = 64
    /\ m_datas = [fd \in Fds |-> NoCtx]
    /\ unhooked = {}
    /\ waiter = [fd \in Fds |-> [e \in Event |-> Nobody]]
    /\ woken = [f \in Fibers |-> "no"]
    /\ armed = {} /\ fired = {} /\ cancels = {} /\ expired = {}
    /\ cancelled = [f \in Fibers |-> FALSE]
    /\ pc = [f \in Fibers |-> "idle"]
    /\ call = [f \in Fibers |-> NoCall]
    /\ calls = [f \in Fibers |-> 0]
    /\ closed = {}
    /\ result = [f \in Fibers |-> "none"]

-----------------------------------------------------------------------------
Goto(f, l) == pc' = [pc EXCEPT ![f] = l]

\* FdManager::get() without auto_create, under the read lock.
Get(fd) == IF size <= fd THEN NoCtx ELSE m_datas[fd]

\* A call begins with a new tinfo.
Enter(f, kind, fd, e, timed, l) ==
    /\ pc[f] = "idle" /\ calls[f] < MaxCalls
    /\ call' = [call EXCEPT ![f] = [NoCall EXCEPT !.kind = kind, !.fd = fd,
                     !.sock = sock[fd], !.event = e, !.timed = timed]]
    /\ calls' = [calls EXCEPT ![f] = @ + 1]
    /\ cancelled' = [cancelled EXCEPT ![f] = FALSE]
    /\ result' = [result EXCEPT ![f] = "none"]
    /\ expired' = expired \ {f}
    /\ Goto(f, l)

\* It ends: the tinfo is gone.  What connect() found is kept for comparison.
Return(f, r) ==
    /\ result' = [result EXCEPT ![f] = r]
    /\ cancelled' = [cancelled EXCEPT ![f] = FALSE]
    /\ Goto(f, "idle")
    /\ IF call[f].kind = "connect" /\ r = "ok" THEN UNCHANGED <<call, closed>>
       ELSE call' = [call EXCEPT ![f] = NoCall] /\ closed' = closed \ {f}
    /\ UNCHANGED calls

Step(f, l) == Goto(f, l) /\ UNCHANGED <<call, calls, closed, result, cancelled>>

Using(fd) == {f \in Fibers : pc[f] # "idle" /\ call[f].fd = fd}

\* What the callers see to: one fiber at a time waits for an event of a
\* socket, and one makes or closes it.  A call of an earlier socket of the
\* number may still be on its way.
Exclusive(fd, e) ==
    \A f \in Using(fd) : call[f].sock \in {sock[fd], Closed} => call[f].event # e

-----------------------------------------------------------------------------
(* FdManager and the calls that make and destroy descriptors.              *)

\* socket(): the kernel hands out a number that is not in use.  A socket
\* that need not be connected, because it listens, say, counts as connected.
Socket(f) ==
    /\ made < MaxSockets
    /\ \E fd \in Fds :
        /\ sock[fd] = Closed
        /\ sock' = [sock EXCEPT ![fd] = made + 1]
        /\ Enter(f, "socket", fd, "NONE", FALSE, "lookup")
    /\ made' = made + 1
    /\ \E c \in {"new", "ok"} : conn' = [conn EXCEPT ![made + 1] = c]
    /\ closed' = closed \ {f}
    /\ UNCHANGED <<nonblock, tableVars, waitVars, armed, fired, cancels>>

\* get(fd, true) looks under the read lock ...
LookUp(f) ==
    /\ pc[f] = "lookup"
    /\ IF Get(call[f].fd) = NoCtx THEN Step(f, "create") ELSE Return(f, "ok")
    /\ UNCHANGED <<sockVars, tableVars, waitVars, timerVars>>

\* ... and creates under the write lock, which it takes afterwards.  The
\* constructor of FdCtx makes the socket non-blocking.
Create(f) ==
    /\ pc[f] = "create"
    /\ LET fd == call[f].fd IN
        /\ size' = IF fd >= size THEN (fd * 3) \div 2 ELSE size
        /\ m_datas' = [m_datas EXCEPT ![fd] = [NoCtx EXCEPT !.sock = sock[fd]]]
        /\ unhooked' = unhooked \ {fd}
        /\ nonblock' = nonblock \cup {sock[fd]}
    /\ Return(f, "ok")
    /\ UNCHANGED <<sock, made, conn, waitVars, timerVars>>

\* Events the kernel still watches: a registration ends with its socket, the
\* IOManager's entry does not.
Watched(fd) == {e \in Event : waiter[fd][e] # Nobody /\ waiter[fd][e].sock = sock[fd]}

\* Mutant: cancelling an event takes the fiber off and does not schedule it.
WakeEvents(fd, es, cause) ==
    LET fs == {waiter[fd][e].fiber : e \in es} IN
    /\ waiter' = [waiter EXCEPT ![fd] = [e \in Event |-> IF e \in es THEN Nobody ELSE @[e]]]
    /\ woken' = [f \in Fibers |-> IF f \in fs /\ cause = "event" THEN cause ELSE woken[f]]

\* Waking the fibers registered for some events.
Wake(fd, es, cause) ==
    LET fs == {waiter[fd][e].fiber : e \in es} IN
    /\ waiter' = [waiter EXCEPT ![fd] = [e \in Event |-> IF e \in es THEN Nobody ELSE @[e]]]
    /\ woken' = [f \in Fibers |-> IF f \in fs THEN cause ELSE woken[f]]

\* close() of a known descriptor: cancelAll(), which fails if the kernel
\* watches nothing, then del(), then the system call.
Close(f) ==
    /\ \E fd \in Fds :
        /\ sock[fd] # Closed /\ Get(fd) # NoCtx
        /\ Exclusive(fd, "NONE")
        /\ Enter(f, "close", fd, "NONE", FALSE, "del")
        /\ Wake(fd, Watched(fd), "cancel")
        /\ closed' = (closed \ {f}) \cup Using(fd)
    /\ UNCHANGED <<sockVars, tableVars, armed, fired, cancels>>

\* Mutant: del() leaves the context in the table.
DelForgets(f) ==
    /\ pc[f] = "del"
    /\ Step(f, "close")
    /\ UNCHANGED <<sockVars, tableVars, waitVars, timerVars>>

Del(f) ==
    /\ pc[f] = "del"
    /\ m_datas' = [m_datas EXCEPT ![call[f].fd] = NoCtx]
    /\ unhooked' = unhooked \ {call[f].fd}
    /\ Step(f, "close")
    /\ UNCHANGED <<sockVars, size, waitVars, timerVars>>

CloseSocket(f) ==
    /\ pc[f] = "close"
    /\ sock' = [sock EXCEPT ![call[f].fd] = Closed]
    /\ closed' = closed \cup (Using(call[f].fd) \ {f})
    /\ call' = [call EXCEPT ![f] = NoCall]
    /\ result' = [result EXCEPT ![f] = "ok"]
    /\ Goto(f, "idle")
    /\ UNCHANGED <<calls, cancelled>>
    /\ UNCHANGED <<made, conn, nonblock, tableVars, waitVars, timerVars>>

\* close() on a thread without hooks is the system call alone: what the table
\* and the IOManager have of the descriptor stays.
CloseUnhooked(fd) ==
    /\ sock[fd] # Closed
    /\ Exclusive(fd, "NONE")
    /\ sock' = [sock EXCEPT ![fd] = Closed]
    /\ unhooked' = unhooked \cup {fd}
    /\ closed' = closed \cup Using(fd)
    /\ UNCHANGED <<made, conn, nonblock, size, m_datas, waitVars, timerVars,
                   pc, call, calls, cancelled, result>>

-----------------------------------------------------------------------------
(* Options.  Each is one call that does not wait.                          *)
Options(f, fd) ==
    /\ pc[f] = "idle" /\ calls[f] < MaxCalls
    /\ Exclusive(fd, "NONE") /\ sock[fd] # Closed
    /\ calls' = [calls EXCEPT ![f] = @ + 1]
    /\ result' = [result EXCEPT ![f] = "none"]
    /\ UNCHANGED <<sock, made, conn, size, unhooked, waitVars, timerVars, pc, call,
                   closed, cancelled>>

\* fcntl(F_SETFL): the caller's wish is recorded, the kernel's flag stays set.
Fcntl(f) ==
    \E fd \in Fds, on \in BOOLEAN :
        /\ Options(f, fd)
        /\ IF Get(fd) # NoCtx
             THEN /\ m_datas' = [m_datas EXCEPT ![fd].userNonblock = on]
                  /\ nonblock' = nonblock \cup {sock[fd]}
             ELSE /\ nonblock' = IF on THEN nonblock \cup {sock[fd]} ELSE nonblock \ {sock[fd]}
                  /\ UNCHANGED m_datas

\* ioctl(FIONBIO): the wish is recorded and also handed to the kernel.
Ioctl(f) ==
    \E fd \in Fds, on \in BOOLEAN :
        /\ Options(f, fd)
        /\ m_datas' = IF Get(fd) # NoCtx THEN [m_datas EXCEPT ![fd].userNonblock = on]
                                         ELSE m_datas
        /\ nonblock' = IF on THEN nonblock \cup {sock[fd]} ELSE nonblock \ {sock[fd]}

\* setsockopt(SO_RCVTIMEO or SO_SNDTIMEO), here one timeout for both.
SetTimeout(f) ==
    \E fd \in Fds :
        /\ Options(f, fd)
        /\ m_datas' = IF Get(fd) # NoCtx THEN [m_datas EXCEPT ![fd].timeout = TRUE]
                                         ELSE m_datas
        /\ UNCHANGED <<nonblock>>

-----------------------------------------------------------------------------
(* do_io(): accept, read, write and their relatives.                       *)

\* Without a context, or when the caller has asked for O_NONBLOCK, the
\* original call is made as it is.
DoIo(f) ==
    /\ \E fd \in Fds, e \in Event :
        /\ sock[fd] # Closed /\ conn[sock[fd]] = "ok" /\ Exclusive(fd, e)
        /\ LET ctx == Get(fd) IN
             IF ctx = NoCtx \/ ctx.userNonblock
               THEN Enter(f, "direct", fd, e, FALSE, "try")
               ELSE Enter(f, "io", fd, e, ctx.timeout, "try")
    /\ closed' = closed \ {f}
    /\ UNCHANGED <<sockVars, tableVars, waitVars, armed, fired, cancels>>

\* The original call: it fails on a closed descriptor, succeeds, or would
\* block, when it returns EAGAIN from a non-blocking socket only.
Try(f) ==
    /\ pc[f] = "try"
    /\ LET s == sock[call[f].fd] IN
         \/ s = Closed /\ Return(f, "EBADF")
         \/ s # Closed /\ Return(f, "ok")
         \/ s \in nonblock /\ call[f].kind = "direct" /\ Return(f, "EAGAIN")
         \/ s \in nonblock /\ call[f].kind = "io" /\ call[f].round < MaxRounds /\ Step(f, "arm")
    /\ UNCHANGED <<sockVars, tableVars, waitVars, timerVars>>

\* The condition timer of this wait, if the call has a timeout.
TimerOf(f) == [fiber |-> f, call |-> calls[f], round |-> call[f].round,
               fd |-> call[f].fd, event |-> call[f].event]

Arm(f) ==
    /\ pc[f] = "arm"
    /\ armed' = IF call[f].timed THEN armed \cup {TimerOf(f)} ELSE armed
    /\ Step(f, "add")
    /\ UNCHANGED <<sockVars, tableVars, waitVars, fired, cancels, expired>>

\* The callbacks of the fiber's call that have still to cancel its event.
Cancelling(f) == {x \in cancels : x.fiber = f /\ x.call = calls[f]}

\* What addEvent() asks of epoll: to modify what it watches if the FdContext
\* has events, to add the descriptor otherwise.  Both fail on a closed one, and
\* the kernel has nothing to modify if the events are of an earlier socket.
Registrable(fd) ==
    /\ sock[fd] # Closed
    /\ \A e \in Event : waiter[fd][e] # Nobody => e \in Watched(fd)

\* addEvent() for the running fiber, which then yields.
AddEvent(f) ==
    /\ pc[f] = "add"
    /\ waiter[call[f].fd][call[f].event] = Nobody
    /\ Registrable(call[f].fd)
    /\ waiter' = [waiter EXCEPT ![call[f].fd][call[f].event] =
                     [fiber |-> f, sock |-> sock[call[f].fd]]]
    /\ woken' = [woken EXCEPT ![f] = "no"]
    /\ call' = [call EXCEPT ![f].early = cancelled[f] /\ Cancelling(f) = {}]
    /\ Goto(f, "parked")
    /\ UNCHANGED <<calls, closed, result, cancelled>>
    /\ UNCHANGED <<sockVars, tableVars, timerVars>>

\* It fails: do_io() gives up, connect_with_timeout() goes on to getsockopt().
AddEventFails(f) ==
    /\ pc[f] = "add"
    /\ waiter[call[f].fd][call[f].event] = Nobody
    /\ ~Registrable(call[f].fd)
    /\ armed' = armed \ {TimerOf(f)}
    /\ IF call[f].kind = "io"
         THEN Return(f, IF sock[call[f].fd] = Closed THEN "EBADF" ELSE "ENOENT")
         ELSE /\ Goto(f, "sockopt")
              /\ call' = [call EXCEPT ![f].cause = "error"]
              /\ UNCHANGED <<calls, closed, result, cancelled>>
    /\ UNCHANGED <<sockVars, tableVars, waitVars, fired, cancels, expired>>

\* Its assertion fails when somebody is registered for the event, who can only
\* be a fiber that has come over from an earlier socket: the process ends.
AddEventAborts(f) ==
    /\ pc[f] = "add"
    /\ waiter[call[f].fd][call[f].event] # Nobody
    /\ Step(f, "aborted")
    /\ UNCHANGED <<sockVars, tableVars, waitVars, timerVars>>

\* The fiber resumes: the timer is cancelled if it has not expired.
Resume(f) ==
    /\ pc[f] = "parked" /\ woken[f] # "no"
    /\ armed' = armed \ {TimerOf(f)}
    /\ woken' = [woken EXCEPT ![f] = "no"]
    /\ IF cancelled[f] THEN Return(f, "ETIMEDOUT")
       ELSE /\ Goto(f, IF call[f].kind = "io" THEN "try" ELSE "sockopt")
            /\ call' = [call EXCEPT ![f].round = @ + 1, ![f].cause = woken[f]]
            /\ UNCHANGED <<calls, closed, result, cancelled>>
    /\ UNCHANGED <<sockVars, tableVars, waiter, fired, cancels, expired>>

-----------------------------------------------------------------------------
(* connect_with_timeout()                                                  *)

\* connect_f() is in progress; a result it has at once is simply returned.
Connect(f) ==
    /\ \E fd \in Fds, timed \in BOOLEAN :
        /\ sock[fd] \in nonblock /\ conn[sock[fd]] = "new" /\ Exclusive(fd, "WRITE")
        /\ Get(fd) # NoCtx /\ ~Get(fd).userNonblock
        /\ conn' = [conn EXCEPT ![sock[fd]] = "progress"]
        /\ Enter(f, "connect", fd, "WRITE", timed, "arm")
    /\ closed' = closed \ {f}
    /\ UNCHANGED <<sock, made, nonblock, tableVars, waitVars, armed, fired, cancels>>

\* getsockopt(SO_ERROR) has no error while the connection is in progress.
SockOpt(f) ==
    /\ pc[f] = "sockopt"
    /\ LET s == sock[call[f].fd] IN
         Return(f, IF s = Closed THEN "EBADF"
                   ELSE IF conn[s] = "refused" THEN "refused" ELSE "ok")
    /\ UNCHANGED <<sockVars, tableVars, waitVars, timerVars>>

-----------------------------------------------------------------------------
(* Timers: a condition timer expires, its callback looks whether the call  *)
(* that made it is still waiting and has not timed out, and cancels the    *)
(* event.                                                                  *)
TimerExpires(x) ==
    /\ Cardinality(fired \cup cancels) < MaxLate
    /\ armed' = armed \ {x}
    /\ fired' = fired \cup {x}
    /\ expired' = expired \cup {x.fiber}
    /\ UNCHANGED <<sockVars, tableVars, waitVars, fiberVars, cancels>>

\* Mutant: the callback holds a plain pointer to the tinfo.
TinfoAnswers(x) == pc[x.fiber] # "idle"

\* The weak_ptr of the callback can be locked.
TinfoLives(x) == calls[x.fiber] = x.call /\ pc[x.fiber] # "idle"

Callback(x) ==
    /\ fired' = fired \ {x}
    /\ IF TinfoLives(x) /\ ~cancelled[x.fiber]
         THEN /\ cancelled' = [cancelled EXCEPT ![x.fiber] = TRUE]
              /\ cancels' = cancels \cup {x}
         ELSE UNCHANGED <<cancelled, cancels>>
    /\ UNCHANGED <<sockVars, tableVars, waitVars, armed, expired, pc, call, calls,
                   closed, result>>

CancelEvent(x) ==
    /\ cancels' = cancels \ {x}
    /\ IF x.event \in Watched(x.fd) THEN Wake(x.fd, {x.event}, "cancel")
                                    ELSE UNCHANGED waitVars
    /\ UNCHANGED <<sockVars, tableVars, fiberVars, armed, fired, expired>>

-----------------------------------------------------------------------------
(* The peers and the event loop.                                           *)
ConnectEnds(fd) ==
    /\ sock[fd] # Closed /\ conn[sock[fd]] = "progress"
    /\ \E c \in {"ok", "refused"} : conn' = [conn EXCEPT ![sock[fd]] = c]
    /\ UNCHANGED <<sock, made, nonblock, tableVars, waitVars, timerVars,
                   fiberVars>>

\* Mutant: a socket counts as writable while it is being connected.
ReportEarly(fd, e) ==
    /\ e \in Watched(fd)
    /\ Wake(fd, {e}, "event")
    /\ UNCHANGED <<sockVars, tableVars, timerVars, fiberVars>>

\* A socket that is being connected is writable when that has ended.
Report(fd, e) ==
    /\ e \in Watched(fd) /\ conn[sock[fd]] # "progress"
    /\ Wake(fd, {e}, "event")
    /\ UNCHANGED <<sockVars, tableVars, timerVars, fiberVars>>

Call(f) ==
    \/ Socket(f) \/ LookUp(f) \/ Create(f)
    \/ Close(f) \/ Del(f) \/ CloseSocket(f)
    \/ Fcntl(f) \/ Ioctl(f) \/ SetTimeout(f)
    \/ DoIo(f) \/ Try(f) \/ Arm(f)
    \/ AddEvent(f) \/ AddEventFails(f) \/ AddEventAborts(f)
    \/ Resume(f) \/ Connect(f) \/ SockOpt(f)

Next ==
    /\ \A f \in Fibers : pc[f] # "aborted"
    /\ \/ \E f \in Fibers : Call(f)
       \/ \E x \in armed : TimerExpires(x)
       \/ \E x \in fired : Callback(x)
       \/ \E x \in cancels : CancelEvent(x)
       \/ \E fd \in Fds, e \in Event : Report(fd, e)
       \/ \E fd \in Fds : ConnectEnds(fd) \/ CloseUnhooked(fd)

Spec == Init /\ [][Next]_vars

-----------------------------------------------------------------------------
\* Every variable has its type; only a parked fiber is registered or woken.
TypeOK ==
    /\ sock \in [Fds -> {Closed} \cup Sockets]
    /\ made \in 0..MaxSockets
    /\ conn \in [Sockets -> {"new", "progress", "ok", "refused"}]
    /\ nonblock \subseteq Sockets
    /\ size \in Nat
    /\ m_datas \in [Fds -> [sock : {Closed} \cup Sockets, userNonblock : BOOLEAN,
                           timeout : BOOLEAN]]
    /\ unhooked \subseteq Fds
    /\ \A fd \in Fds, e \in Event :
         LET f == waiter[fd][e].fiber IN
           f # NoFiber => pc[f] = "parked" /\ call[f].fd = fd /\ call[f].event = e
    /\ woken \in [Fibers -> {"no", "event", "cancel"}]
    /\ \A f \in Fibers : woken[f] # "no" => pc[f] = "parked"
    /\ calls \in [Fibers -> 0..MaxCalls]
    /\ \A x \in armed \cup fired \cup cancels : x.call \in 1..MaxCalls
    /\ result \in [Fibers -> {"none", "ok", "EBADF", "ENOENT", "EAGAIN", "ETIMEDOUT",
                           "refused"}]

\* A call times out only when one of its own timers has expired, however
\* late the callbacks of earlier calls run (hook.cc:156).
TimeoutIsOwn ==
    \A f \in Fibers : result[f] = "ETIMEDOUT" => f \in expired

\* The comment at hook.cc:314: a timeout also triggers the event, so that
\* no fiber stays parked when its callback is through.
Overdue(f) == pc[f] = "parked" /\ woken[f] = "no" /\ cancelled[f] /\ Cancelling(f) = {}
TimeoutResumes == \A f \in Fibers : ~Overdue(f)

\* What holds: the timeout is lost only on a fiber whose callback was through
\* before addEvent(), or whose descriptor has been closed meanwhile.
OnlyEarlyTimersStrand == \A f \in Fibers : Overdue(f) => call[f].early \/ f \in closed

\* connect() reports success of a connection that is not established only if
\* its descriptor was closed meanwhile, its wait was cancelled by the callback
\* of somebody else's call, or addEvent() failed, after which getsockopt()
\* finds no error yet (hook.cc:330, 348).
ConnectReportsTheTruth ==
    \A f \in Fibers :
        call[f].kind = "connect" /\ result[f] = "ok" =>
            conn[call[f].sock] = "ok" \/ f \in closed \/ call[f].cause \in {"cancel", "error"}

\* The context in the table is that of the socket now behind the number,
\* although numbers are reused, unless a thread without hooks closed one that
\* had the number since the context was made (hook.cc:432).
ContextIsOfSocket ==
    \A fd \in Fds \ unhooked : Get(fd) # NoCtx => Get(fd).sock = sock[fd]
=============================================================================
