-------------------------- MODULE HttpConnectionPool --------------------------
(***************************************************************************)
(* The HTTP client of sylar/http/http_connection.cc with the Socket and    *)
(* SocketStream under it: requests on a connection of their own, and       *)
(* requests on connections a pool keeps for the next request.  A user is a *)
(* fiber; the steps of one request are those between which it may wait.    *)
(***************************************************************************)
EXTENDS Integers, Sequences, FiniteSets, FiniteSetsExt

CONSTANTS
    Users,
    MaxConns,     \* bound: connections ever made
    MaxCalls,     \* bound: requests ever made
    MaxRequest,   \* m_maxRequest
    MaxAliveTime, \* m_maxAliveTime, a 32-bit number of milliseconds
    Now           \* milliseconds since 1970, beyond every 32-bit number

Conns == 1..MaxConns
NoConn == 0
\* m_createTime, which nothing but its initialiser sets.
CreateTime == 0

VARIABLES
    m_conns,   \* the connections that wait for a request
    m_total,   \* m_total
    state,     \* HttpConnection: unmade, open (m_isConnected), closed, deleted
    m_request, \* HttpConnection: how often it has been released
    peer,      \* connections whose other end is open
    wire,      \* requests on their way to the peer
    answers,   \* answers on their way back
    pc, conn,  \* where a user is, and its connection
    pooled,    \* whether its request goes through the pool
    invalid,   \* connections it has taken out of the pool to delete
    request,   \* the request it is making
    result,    \* what it returned, and the request that was answered
    calls      \* requests so far

poolVars == <<m_conns, m_total>>
netVars == <<peer, wire, answers>>
userVars == <<pc, conn, pooled, invalid, request, result>>
vars == <<poolVars, netVars, userVars, state, m_request, calls>>

NoResult == [error |-> "none", of |-> 0]
NoRequest == [id |-> 0, keep |-> FALSE]

Init ==
    /\ m_conns = <<>> /\ m_total = 0
    /\ state = [c \in Conns |-> "unmade"]
    /\ m_request = [c \in Conns |-> 0]
    /\ peer = {}
    /\ wire = [c \in Conns |-> <<>>]
    /\ answers = [c \in Conns |-> <<>>]
    /\ pc = [u \in Users |-> "idle"]
    /\ conn = [u \in Users |-> NoConn]
    /\ pooled = [u \in Users |-> FALSE]
    /\ invalid = [u \in Users |-> {}]
    /\ request = [u \in Users |-> NoRequest]
    /\ result = [u \in Users |-> NoResult]
    /\ calls = 0

Goto(u, l) == pc' = [pc EXCEPT ![u] = l]

-----------------------------------------------------------------------------
\* doRequest(): the request asks to keep the connection if a header says so.
DoRequest(u) ==
    /\ pc[u] = "idle" /\ calls < MaxCalls
    /\ calls' = calls + 1
    /\ \E k \in BOOLEAN, p \in BOOLEAN :
        /\ request' = [request EXCEPT ![u] = [id |-> calls + 1, keep |-> k]]
        /\ pooled' = [pooled EXCEPT ![u] = p]
        /\ Goto(u, IF p THEN "get" ELSE "open")
    /\ result' = [result EXCEPT ![u] = NoResult]
    /\ UNCHANGED <<poolVars, netVars, state, m_request, conn, invalid>>

Expired == CreateTime + MaxAliveTime > Now

\* getConnection() under m_mutex: the first connection that can be used; those
\* before it leave the pool too.
GetConnection(u) ==
    /\ pc[u] = "get"
    /\ LET usable == {i \in 1..Len(m_conns) : state[m_conns[i]] = "open" /\ ~Expired}
           first == Min(usable \cup {Len(m_conns) + 1})
       IN  /\ m_conns' = SubSeq(m_conns, first + 1, Len(m_conns))
           /\ conn' = [conn EXCEPT ![u] = IF usable = {} THEN NoConn ELSE m_conns[first]]
           /\ invalid' = [invalid EXCEPT ![u] = {m_conns[i] : i \in 1..first - 1}]
    /\ Goto(u, "purge")
    /\ UNCHANGED <<m_total, netVars, state, m_request, pooled, request, result, calls>>

\* Without the lock they are deleted and counted off.
Purge(u) ==
    /\ pc[u] = "purge"
    /\ state' = [c \in Conns |-> IF c \in invalid[u] THEN "deleted" ELSE state[c]]
    /\ peer' = peer \ invalid[u]
    /\ m_total' = m_total - Cardinality(invalid[u])
    /\ invalid' = [invalid EXCEPT ![u] = {}]
    /\ Goto(u, IF conn[u] = NoConn THEN "open" ELSE "send")
    /\ UNCHANGED <<m_conns, wire, answers, m_request, conn, pooled, request, result, calls>>

\* A new connection: the address is looked up, a socket made and connected.
\* Only the pool counts it.
Open(u) ==
    /\ pc[u] = "open"
    /\ \/ \E c \in Conns :
           /\ state[c] = "unmade" /\ \A d \in 1..c - 1 : state[d] # "unmade"
           /\ state' = [state EXCEPT ![c] = "open"]
           /\ peer' = peer \cup {c}
           /\ conn' = [conn EXCEPT ![u] = c]
           /\ m_total' = IF pooled[u] THEN m_total + 1 ELSE m_total
           /\ Goto(u, "send")
           /\ UNCHANGED result
       \/ /\ result' = [result EXCEPT ![u].error = IF pooled[u] THEN "POOL_GET_CONNECTION"
                                                               ELSE "CONNECT_FAIL"]
          /\ Goto(u, "idle")
          /\ UNCHANGED <<state, peer, conn, m_total>>
    /\ UNCHANGED <<m_conns, wire, answers, m_request, pooled, invalid, request, calls>>

\* sendRequest(): the kernel takes the bytes even if the peer has closed but
\* that is not known yet; a failure leaves the connection as it is.
Send(u) ==
    /\ pc[u] = "send"
    /\ \/ /\ wire' = [wire EXCEPT ![conn[u]] = Append(@, request[u])]
          /\ Goto(u, "recv")
          /\ UNCHANGED result
       \/ /\ conn[u] \notin peer
          /\ result' = [result EXCEPT ![u].error = "SEND_SOCKET_ERROR"]
          /\ Goto(u, "release")
          /\ UNCHANGED wire
    /\ UNCHANGED <<poolVars, peer, answers, state, m_request, conn, pooled,
                   invalid, request, calls>>

\* recvResponse() has parsed an answer; whatever else it has read is lost.
RecvResponse(u) ==
    /\ pc[u] = "recv" /\ answers[conn[u]] # <<>>
    /\ result' = [result EXCEPT ![u] = [error |-> "OK", of |-> Head(answers[conn[u]])]]
    /\ \E n \in 1..Len(answers[conn[u]]) :
         answers' = [answers EXCEPT ![conn[u]] = SubSeq(@, n + 1, Len(@))]
    /\ Goto(u, "release")
    /\ UNCHANGED <<poolVars, peer, wire, state, m_request, conn, pooled, invalid,
                   request, calls>>

\* Mutant: a connection that did not answer in time stays open.
FailsOpen(u) ==
    /\ pc[u] = "recv"
    /\ result' = [result EXCEPT ![u].error = "TIMEOUT"]
    /\ Goto(u, "release")
    /\ UNCHANGED <<poolVars, netVars, state, m_request, conn, pooled, invalid, request, calls>>

\* Reading times out, fails or ends, or the bytes are no answer: the
\* connection is closed, and every such result is called TIMEOUT.
RecvFails(u) ==
    /\ pc[u] = "recv"
    /\ state' = [state EXCEPT ![conn[u]] = "closed"]
    /\ peer' = peer \ {conn[u]}
    /\ result' = [result EXCEPT ![u].error = "TIMEOUT"]
    /\ Goto(u, "release")
    /\ UNCHANGED <<poolVars, wire, answers, m_request, conn, pooled, invalid, request, calls>>

\* Mutant: a connection that is not kept is not counted off.
ReleaseUncounted(u) ==
    /\ pc[u] = "release"
    /\ LET c == conn[u] keep == pooled[u] /\ state[c] = "open" /\ m_request[c] + 1 < MaxRequest
       IN  /\ m_request' = IF pooled[u] THEN [m_request EXCEPT ![c] = @ + 1] ELSE m_request
           /\ m_conns' = IF keep THEN Append(m_conns, c) ELSE m_conns
           /\ state' = IF keep THEN state ELSE [state EXCEPT ![c] = "deleted"]
           /\ peer' = IF keep THEN peer ELSE peer \ {c}
    /\ conn' = [conn EXCEPT ![u] = NoConn]
    /\ Goto(u, "idle")
    /\ UNCHANGED <<m_total, wire, answers, pooled, invalid, request, result, calls>>

\* The last pointer goes: ReleasePtr() puts a pooled connection back or deletes
\* it.  The test of the age is the wrong way round, and never true.
TooOld == CreateTime + MaxAliveTime >= Now
Release(u) ==
    /\ pc[u] = "release"
    /\ LET c == conn[u]
           keep == /\ pooled[u] /\ state[c] = "open" /\ ~TooOld
                   /\ m_request[c] + 1 < MaxRequest
       IN  /\ m_request' = IF pooled[u] THEN [m_request EXCEPT ![c] = @ + 1] ELSE m_request
           /\ m_conns' = IF keep THEN Append(m_conns, c) ELSE m_conns
           /\ state' = IF keep THEN state ELSE [state EXCEPT ![c] = "deleted"]
           /\ peer' = IF keep THEN peer ELSE peer \ {c}
           /\ m_total' = IF pooled[u] /\ ~keep THEN m_total - 1 ELSE m_total
    /\ conn' = [conn EXCEPT ![u] = NoConn]
    /\ Goto(u, "idle")
    /\ UNCHANGED <<wire, answers, pooled, invalid, request, result, calls>>

-----------------------------------------------------------------------------
\* The peer answers requests one after the other, and closes after one that
\* does not ask to keep the connection.
Answer(c) ==
    /\ c \in peer /\ wire[c] # <<>>
    /\ LET r == Head(wire[c]) IN
        /\ answers' = [answers EXCEPT ![c] = Append(@, r.id)]
        /\ peer' = IF r.keep THEN peer ELSE peer \ {c}
    /\ wire' = [wire EXCEPT ![c] = Tail(@)]
    /\ UNCHANGED <<poolVars, userVars, state, m_request, calls>>

PeerCloses(c) ==
    /\ c \in peer
    /\ peer' = peer \ {c}
    /\ UNCHANGED <<poolVars, wire, answers, userVars, state, m_request, calls>>

Next ==
    \/ \E u \in Users :
        \/ DoRequest(u) \/ GetConnection(u) \/ Purge(u) \/ Open(u) \/ Send(u)
        \/ RecvResponse(u) \/ RecvFails(u) \/ Release(u)
    \/ \E c \in Conns : Answer(c) \/ PeerCloses(c)

Spec == Init /\ [][Next]_vars

-----------------------------------------------------------------------------
Pool == {m_conns[i] : i \in 1..Len(m_conns)}
InUse == {conn[u] : u \in {v \in Users : pooled[v]}} \ {NoConn}

TypeOK ==
    /\ m_conns \in Seq(Conns) /\ m_total \in Int
    /\ state \in [Conns -> {"unmade", "open", "closed", "deleted"}]
    /\ peer \subseteq {c \in Conns : state[c] = "open"}
    /\ \A u \in Users : conn[u] # NoConn => state[conn[u]] \in {"open", "closed"}

\* The answer a request returns is the answer to it, although connections are
\* used again and an earlier answer may come late (http_connection.cc:43).
AnswerIsOwn ==
    \A u \in Users : result[u].error = "OK" => result[u].of = request[u].id

\* m_total is the number of connections of the pool, waiting, in use or about
\* to be deleted, and each of them is in one place.
PoolCounts ==
    /\ m_total = Cardinality(Pool \cup InUse \cup UNION {invalid[u] : u \in Users})
    /\ Cardinality(Pool) = Len(m_conns)
    /\ Pool \cap {conn[u] : u \in Users} = {}
    /\ \A u, v \in Users : u # v /\ conn[u] = conn[v] => conn[u] = NoConn
=============================================================================
