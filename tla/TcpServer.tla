------------------------------- MODULE TcpServer -------------------------------
(***************************************************************************)
(* sylar/tcp_server.cc and the listening half of socket.cc: binding, the   *)
(* accept loops that start() schedules on the accept worker, and the       *)
(* closing of the sockets that stop() schedules there.  The loops and the  *)
(* closing run on different threads of the worker; a second closing begins *)
(* after the first, and bind() is not called during one.                   *)
(***************************************************************************)
EXTENDS Integers, Sequences, FiniteSets

CONSTANTS
    Listeners, \* addresses, each bound at most once; also the sockets
    Clients,   \* connections of peers
    MaxLoops,  \* bound: accept loops ever scheduled
    MaxStops   \* bound: calls of stop()

Loops == 1..MaxLoops
Nothing == [sock |-> "none", at |-> "none"]

VARIABLES
    m_isStop,
    m_socks,   \* the sockets of the server
    lstate,    \* a socket: unbound, listening (m_sock is a descriptor), closed
    loop,      \* the accept loops
    stops,     \* calls of stop()
    queued,    \* closings that are scheduled
    todo, at,  \* the closing that runs: sockets left, and where it is in one
    client,    \* a connection: none, the socket it waits at, accepted, reset
    aborted,   \* an assertion of the IOManager has failed
    restarted, \* history: start() came before stop() was through
    dropped,   \* history: sockets a failing bind() took off the server
    slipped    \* history: loops registered while their socket was being closed

vars == <<m_isStop, m_socks, lstate, loop, stops, queued, todo, at, client,
          aborted, restarted, dropped, slipped>>

Init ==
    /\ m_isStop = TRUE
    /\ m_socks = {}
    /\ lstate = [l \in Listeners |-> "unbound"]
    /\ loop = [k \in Loops |-> Nothing]
    /\ stops = 0 /\ queued = 0
    /\ todo = {} /\ at = "idle"
    /\ client = [c \in Clients |-> "none"]
    /\ aborted = FALSE /\ restarted = FALSE
    /\ dropped = {} /\ slipped = {}

Alive(k) == loop[k].at \notin {"none", "ended"}
Held(l) == \E k \in Loops : Alive(k) /\ loop[k].sock = l

\* Connections that wait at a socket are reset when it is closed.
Reset(ls) == client' = [c \in Clients |-> IF client[c] \in ls THEN "reset" ELSE client[c]]

-----------------------------------------------------------------------------
\* bind(): one failure clears m_socks, those of earlier calls included.  A
\* socket is closed with the last pointer to it, which a loop may hold.
Bind ==
    /\ at = "idle" /\ ~aborted
    /\ \E new \in SUBSET {l \in Listeners : lstate[l] = "unbound"} : \E ok \in SUBSET new :
        /\ new # {}
        /\ LET gone == IF ok = new THEN {} ELSE m_socks \cup new IN
            /\ m_socks' = (m_socks \cup ok) \ gone
            /\ dropped' = dropped \cup {l \in gone : Held(l)}
            /\ lstate' = [l \in Listeners |->
                            IF l \in gone THEN (IF Held(l) THEN lstate[l] ELSE "closed")
                            ELSE IF l \in new THEN "listening" ELSE lstate[l]]
            /\ Reset({l \in gone : ~Held(l)})
    /\ UNCHANGED <<m_isStop, loop, stops, queued, todo, at, aborted, restarted, slipped>>

\* start(): a loop for every socket, unless it is started.  It waits for no
\* closing: m_socks may hold sockets that are being closed.
Start ==
    /\ m_isStop /\ ~aborted
    /\ \E order \in [1..Cardinality(m_socks) -> m_socks] :
        LET used == Cardinality({k \in Loops : loop[k] # Nothing}) IN
        /\ \A i, j \in DOMAIN order : order[i] = order[j] => i = j
        /\ used + Len(order) <= MaxLoops
        /\ loop' = [k \in Loops |-> IF k - used \in DOMAIN order
                                      THEN [sock |-> order[k - used], at |-> "queued"]
                                      ELSE loop[k]]
    /\ m_isStop' = FALSE
    /\ restarted' = (restarted \/ queued > 0 \/ at # "idle" \/ \E k \in Loops : Alive(k))
    /\ UNCHANGED <<m_socks, lstate, stops, queued, todo, at, client, aborted,
                   dropped, slipped>>

Stop ==
    /\ stops < MaxStops /\ ~aborted
    /\ m_isStop' = TRUE
    /\ stops' = stops + 1 /\ queued' = queued + 1
    /\ UNCHANGED <<m_socks, lstate, loop, todo, at, client, aborted, restarted,
                   dropped, slipped>>

-----------------------------------------------------------------------------
(* What stop() has scheduled.  A socket is closed by cancelAll(), by the   *)
(* cancelAll() of the hooked close(), and then by the system call.         *)
Closing == UNCHANGED <<m_isStop, stops, aborted, restarted, dropped>>

BeginClosing ==
    /\ at = "idle" /\ queued > 0 /\ ~aborted
    /\ queued' = queued - 1
    /\ todo' = m_socks
    /\ at' = "cancel"
    /\ Closing /\ UNCHANGED <<m_socks, lstate, loop, client, slipped>>

\* Mutant: cancelling takes the event off and does not schedule the fiber.
CancelledOnly(l) == UNCHANGED loop

Cancelled(l) ==
    loop' = [k \in Loops |-> IF loop[k] = [sock |-> l, at |-> "parked"]
                               THEN [sock |-> l, at |-> "try"] ELSE loop[k]]

Target == CHOOSE l \in todo : TRUE

CancelAll ==
    /\ at \in {"cancel", "close"} /\ todo # {} /\ ~aborted
    /\ IF lstate[Target] = "listening" THEN Cancelled(Target) ELSE UNCHANGED loop
    /\ at' = IF at = "cancel" THEN "close" ELSE "fd"
    /\ Closing /\ UNCHANGED <<m_socks, lstate, queued, todo, client, slipped>>

CloseFd ==
    /\ at = "fd" /\ ~aborted
    /\ lstate' = [lstate EXCEPT ![Target] = "closed"]
    /\ Reset({Target})
    /\ todo' = todo \ {Target}
    /\ at' = "cancel"
    /\ Closing /\ UNCHANGED <<m_socks, loop, queued, slipped>>

EndClosing ==
    /\ at = "cancel" /\ todo = {} /\ ~aborted
    /\ m_socks' = {}
    /\ at' = "idle"
    /\ Closing /\ UNCHANGED <<lstate, loop, queued, todo, client, slipped>>

-----------------------------------------------------------------------------
(* startAccept(), with the accept() of the hook in it.                     *)
LoopStep(k, a) ==
    /\ ~aborted
    /\ loop' = [loop EXCEPT ![k].at = a]
    /\ UNCHANGED <<m_isStop, m_socks, stops, queued, todo, at, restarted, dropped>>

\* The last loop of a socket that is no longer the server's closes it.
LoopEnds(k) ==
    LET l == loop[k].sock
        last == l \notin m_socks /\ ~\E j \in Loops \ {k} : Alive(j) /\ loop[j].sock = l
    IN  IF last THEN lstate' = [lstate EXCEPT ![l] = "closed"] /\ Reset({l})
                ELSE UNCHANGED <<lstate, client>>

LoopTest(k) ==
    /\ loop[k].at \in {"queued", "test"}
    /\ IF m_isStop THEN LoopStep(k, "ended") /\ LoopEnds(k)
                   ELSE LoopStep(k, "try") /\ UNCHANGED <<lstate, client>>
    /\ UNCHANGED <<aborted, slipped>>

Waiting(l) == {c \in Clients : client[c] = l}

\* accept() fails on a closed socket; a connection is handed to the io worker.
Accept(k) ==
    /\ loop[k].at = "try"
    /\ LET l == loop[k].sock IN
        \/ lstate[l] = "closed" /\ LoopStep(k, "test") /\ UNCHANGED client
        \/ /\ lstate[l] = "listening" /\ Waiting(l) # {}
           /\ \E c \in Waiting(l) : client' = [client EXCEPT ![c] = "accepted"]
           /\ LoopStep(k, "test")
        \/ /\ lstate[l] = "listening" /\ Waiting(l) = {}
           /\ LoopStep(k, "add") /\ UNCHANGED client
    /\ UNCHANGED <<lstate, aborted, slipped>>

\* addEvent() asserts that nobody waits for the event.
AddEvent(k) ==
    /\ loop[k].at = "add"
    /\ IF lstate[loop[k].sock] = "closed" THEN LoopStep(k, "test") /\ UNCHANGED <<aborted, slipped>>
       ELSE /\ LoopStep(k, "parked")
            /\ aborted' = \E j \in Loops \ {k} :
                 loop[j] = [sock |-> loop[k].sock, at |-> "parked"]
            /\ slipped' = IF at = "fd" /\ Target = loop[k].sock THEN slipped \cup {k}
                                                              ELSE slipped
    /\ UNCHANGED <<lstate, client>>

Report(k) ==
    /\ loop[k].at = "parked" /\ lstate[loop[k].sock] = "listening"
    /\ Waiting(loop[k].sock) # {}
    /\ LoopStep(k, "try")
    /\ UNCHANGED <<lstate, client, aborted, slipped>>

\* The other program.
Connect(c) ==
    /\ client[c] = "none" /\ ~aborted
    /\ \E l \in Listeners : lstate[l] = "listening" /\ client' = [client EXCEPT ![c] = l]
    /\ UNCHANGED <<m_isStop, m_socks, lstate, loop, stops, queued, todo, at,
                   aborted, restarted, dropped, slipped>>

Next ==
    \/ Bind \/ Start \/ Stop
    \/ BeginClosing \/ CancelAll \/ CloseFd \/ EndClosing
    \/ \E k \in Loops : LoopTest(k) \/ Accept(k) \/ AddEvent(k) \/ Report(k)
    \/ \E c \in Clients : Connect(c)

Spec == Init /\ [][Next]_vars

-----------------------------------------------------------------------------
TypeOK ==
    /\ m_isStop \in BOOLEAN /\ m_socks \subseteq Listeners /\ todo \subseteq Listeners
    /\ lstate \in [Listeners -> {"unbound", "listening", "closed"}]
    /\ \A k \in Loops : loop[k].at \in {"none", "queued", "test", "try", "add", "parked", "ended"}
    /\ at \in {"idle", "cancel", "close", "fd"}
    /\ client \in [Clients -> {"none", "accepted", "reset"} \cup Listeners]

\* When what stop() has scheduled is through, no accept loop goes on waiting
\* (tcp_server.cc:135), but for those whose socket a failing bind() took off
\* the server and those that registered between the cancelling and the closing
\* of their descriptor.  And no two loops wait at one socket, which aborts the
\* program, and none spins on a closed one, unless start() was called again
\* before the closing was through and every earlier loop had ended.
StopReachesEveryLoop ==
    /\ m_isStop /\ queued = 0 /\ at = "idle" =>
         \A k \in Loops : loop[k].at = "parked" => loop[k].sock \in dropped \/ k \in slipped
    /\ aborted => restarted
    /\ \A k \in Loops : ~m_isStop /\ Alive(k) /\ lstate[loop[k].sock] = "closed" => restarted
=============================================================================
