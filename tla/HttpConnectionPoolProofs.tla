-------------------- MODULE HttpConnectionPoolProofs --------------------
(***************************************************************************)
(* Proofs about HttpConnectionPool for any users, connections and requests *)
(* and any limits of the pool; about HttpParser, as the instance Reader,   *)
(* for any number of messages and any cuts of the stream; and about        *)
(* HttpRequest, as the instance Query, for any names, values and texts.    *)
(***************************************************************************)
EXTENDS HttpConnectionPool, FiniteSetTheorems, SequenceTheorems, WellFoundedInduction, TLAPS

-----------------------------------------------------------------------------
(* The inductive invariant.                                                *)

RequestType == [id : Nat, keep : BOOLEAN]

Errors == {"none", "OK", "POOL_GET_CONNECTION", "CONNECT_FAIL", "SEND_SOCKET_ERROR", "TIMEOUT"}

Types ==
    /\ m_conns \in Seq(Conns) /\ m_total \in Int
    /\ state \in [Conns -> {"unmade", "open", "closed", "deleted"}]
    /\ m_request \in [Conns -> Nat]
    /\ peer \subseteq Conns
    /\ wire \in [Conns -> Seq(RequestType)]
    /\ answers \in [Conns -> Seq(Nat)]
    /\ pc \in [Users -> {"idle", "get", "purge", "open", "send", "recv", "release"}]
    /\ conn \in [Users -> Conns \cup {NoConn}]
    /\ pooled \in [Users -> BOOLEAN]
    /\ invalid \in [Users -> SUBSET Conns]
    /\ request \in [Users -> RequestType]
    /\ result \in [Users -> [error : Errors, of : Nat]]
    /\ calls \in Nat

Elems(s) == {s[i] : i \in 1..Len(s)}

Distinct(s) == \A i, j \in 1..Len(s) : s[i] = s[j] => i = j

\* A connection is in one place: it waits in the pool, a user has it, or a
\* user is about to delete it.
OnePlace ==
    /\ Distinct(m_conns)
    /\ \A u \in Users : conn[u] # NoConn =>
         /\ conn[u] \notin Elems(m_conns)
         /\ \A v \in Users : conn[u] \notin invalid[v] /\ (v # u => conn[v] # conn[u])
    /\ \A u \in Users :
         /\ invalid[u] \cap Elems(m_conns) = {}
         /\ \A v \in Users : v # u => invalid[u] \cap invalid[v] = {}

\* What a user has, by where it is.
Holding ==
    \A u \in Users :
      /\ pc[u] \in {"idle", "get", "open"} => conn[u] = NoConn
      /\ pc[u] \in {"send", "recv", "release"} => conn[u] # NoConn
      /\ pc[u] # "purge" => invalid[u] = {}
      /\ pc[u] \in {"get", "purge"} => pooled[u]

\* Only its user closes a connection, so those that wait are open.
Connected ==
    /\ \A c \in Elems(m_conns) : state[c] = "open"
    /\ \A u \in Users : \A c \in invalid[u] : state[c] = "open"
    /\ \A u \in Users : conn[u] # NoConn =>
         /\ state[conn[u]] \in {"open", "closed"}
         /\ pc[u] # "release" => state[conn[u]] = "open"
    /\ \A c \in peer : state[c] = "open"

\* Nothing is left on the connection by earlier requests.
Clean(c) == wire[c] = <<>> /\ answers[c] = <<>>

\* One request at a time: it is under way, or its answer is.
OneRequest ==
    /\ \A c \in Conns : state[c] = "unmade" => Clean(c)
    /\ \A c \in Elems(m_conns) : Clean(c)
    /\ \A u \in Users : \A c \in invalid[u] : Clean(c)
    /\ \A u \in Users : conn[u] # NoConn =>
         /\ pc[u] \in {"purge", "send"} => Clean(conn[u])
         /\ pc[u] = "release" /\ state[conn[u]] = "open" => Clean(conn[u])
         /\ pc[u] = "recv" =>
              \/ wire[conn[u]] = <<request[u]>> /\ answers[conn[u]] = <<>>
              \/ wire[conn[u]] = <<>> /\ answers[conn[u]] = <<request[u].id>>

\* The connections of the pool, wherever they are.
Owned == Elems(m_conns) \cup InUse \cup UNION {invalid[u] : u \in Users}

Counted == m_total = Cardinality(Owned)

Inv == Types /\ OnePlace /\ Holding /\ Connected /\ OneRequest /\ AnswerIsOwn /\ Counted

-----------------------------------------------------------------------------
(* Sequences, sets and what they count.                                    *)

LEMMA EmptyElems == Elems(<<>>) = {} /\ Distinct(<<>>)
BY DEF Elems, Distinct

LEMMA AppendElems ==
    ASSUME NEW s \in Seq(Conns), NEW c \in Conns, NEW t, t = Append(s, c)
    PROVE  /\ t \in Seq(Conns) /\ Elems(t) = Elems(s) \cup {c}
           /\ Distinct(s) /\ c \notin Elems(s) => Distinct(t)
<1>1. /\ t \in Seq(Conns) /\ Len(t) = Len(s) + 1 /\ t[Len(s) + 1] = c
      /\ \A i \in 1..Len(s) : t[i] = s[i]
      /\ Len(s) \in Nat
  OBVIOUS
<1>2. Elems(t) = Elems(s) \cup {c}
  BY <1>1 DEF Elems
<1>3. Distinct(s) /\ c \notin Elems(s) => Distinct(t)
  BY <1>1 DEF Distinct, Elems
<1>4. QED
  BY <1>1, <1>2, <1>3

LEMMA RestElems ==
    ASSUME NEW s \in Seq(Conns), Len(s) > 0, Distinct(s), NEW t, t = SubSeq(s, 2, Len(s))
    PROVE  /\ t \in Seq(Conns) /\ Distinct(t)
           /\ s[1] \in Conns /\ s[1] \notin Elems(t)
           /\ Elems(s) = Elems(t) \cup {s[1]}
<1>1. Len(s) \in Nat /\ s[1] \in Conns
  OBVIOUS
<1>2. /\ t \in Seq(Conns) /\ Len(t) = Len(s) - 1
      /\ \A i \in 1..Len(t) : t[i] = s[i + 1]
  <2>1. 2 \in Int /\ Len(s) \in Int /\ \A i \in 2..Len(s) : s[i] \in Conns
    BY <1>1
  <2>2. /\ t \in Seq(Conns) /\ Len(t) = IF 2 <= Len(s) THEN Len(s) - 2 + 1 ELSE 0
        /\ \A i \in 1..Len(s) - 2 + 1 : t[i] = s[2 + i - 1]
    BY <2>1, SubSeqProperties
  <2>3. Len(t) = Len(s) - 1 /\ \A i \in 1..Len(t) : 2 + i - 1 = i + 1
    BY <1>1, <2>2
  <2>4. QED
    BY <1>1, <2>2, <2>3
<1>3. Distinct(t)
  BY <1>1, <1>2 DEF Distinct
<1>4. s[1] \notin Elems(t)
  BY <1>1, <1>2 DEF Distinct, Elems
<1>5. Elems(s) = Elems(t) \cup {s[1]}
  <2>1. ASSUME NEW i \in 1..Len(s), i # 1
        PROVE  s[i] = t[i - 1] /\ i - 1 \in 1..Len(t)
    BY <1>1, <1>2, <2>1
  <2>2. \A i \in 1..Len(t) : i + 1 \in 1..Len(s)
    BY <1>1, <1>2
  <2>3. Elems(s) \subseteq Elems(t) \cup {s[1]}
    BY <2>1 DEF Elems
  <2>4. Elems(t) \cup {s[1]} \subseteq Elems(s)
    BY <1>1, <1>2, <2>2 DEF Elems
  <2>5. QED
    BY <2>3, <2>4
<1>6. QED
  BY <1>1, <1>2, <1>3, <1>4, <1>5

\* Connections without duplicates are counted by the length.
LEMMA DistinctCount ==
    ASSUME NEW s \in Seq(Conns), Distinct(s)
    PROVE  Cardinality(Elems(s)) = Len(s)
<1> DEFINE f == [i \in 1..Len(s) |-> s[i]]
<1>1. Len(s) \in Nat
  OBVIOUS
<1>2. f \in [1..Len(s) -> Elems(s)]
  BY DEF Elems
<1>3. f \in Injection(1..Len(s), Elems(s))
  BY <1>2 DEF Injection, Distinct, IsInjective
<1>4. f \in Surjection(1..Len(s), Elems(s))
  BY <1>2 DEF Surjection, Elems
<1>5. ExistsBijection(1..Len(s), Elems(s))
  BY <1>3, <1>4 DEF ExistsBijection, Bijection
<1>6. QED
  BY <1>1, <1>5, FS_CountingElements

LEMMA FiniteOwned ==
    ASSUME MaxConns \in Nat, NEW S \in SUBSET Conns
    PROVE  IsFiniteSet(S) /\ Cardinality(S) \in Nat
<1>1. IsFiniteSet(Conns)
  BY FS_Interval DEF Conns
<1>2. QED
  BY <1>1, FS_Subset, FS_CardinalityType

LEMMA OwnedConns ==
    ASSUME Types
    PROVE  Owned \subseteq Conns /\ Elems(m_conns) \subseteq Conns
<1>1. Elems(m_conns) \subseteq Conns
  BY DEF Types, Elems
<1>2. InUse \subseteq Conns
  BY DEF Types, InUse
<1>3. QED
  BY <1>1, <1>2 DEF Types, Owned

-----------------------------------------------------------------------------
(* The actions of a user.                                                  *)

\* Of the connections the pool owns, what a step that moves them about
\* between pool, user and the list to delete keeps.
LEMMA SameOwned ==
    ASSUME Counted, Owned' = Owned, m_total' = m_total
    PROVE  Counted'
BY DEF Counted

LEMMA UnionWithout ==
    ASSUME NEW f, NEW g, NEW D, \A v \in Users : g[v] = f[v] \ D
    PROVE  UNION {g[v] : v \in Users} = (UNION {f[v] : v \in Users}) \ D
OBVIOUS

LEMMA DoRequestKeeps ==
    ASSUME Inv, NEW u \in Users, DoRequest(u)
    PROVE  Inv'
<1> USE DEF Inv
<1>1. PICK k \in BOOLEAN, p \in BOOLEAN :
        /\ request' = [request EXCEPT ![u] = [id |-> calls + 1, keep |-> k]]
        /\ pooled' = [pooled EXCEPT ![u] = p]
        /\ pc' = [pc EXCEPT ![u] = IF p THEN "get" ELSE "open"]
  BY DEF DoRequest, Goto
<1>2. /\ pc[u] = "idle" /\ calls' = calls + 1
      /\ result' = [result EXCEPT ![u] = NoResult]
      /\ UNCHANGED <<m_conns, m_total, peer, wire, answers, state, m_request, conn, invalid>>
  BY DEF DoRequest, poolVars, netVars
<1>3. /\ request'[u] = [id |-> calls + 1, keep |-> k] /\ pooled'[u] = p
      /\ pc'[u] = (IF p THEN "get" ELSE "open")
      /\ result'[u] = NoResult
      /\ \A v \in Users : v # u =>
           /\ request'[v] = request[v] /\ pooled'[v] = pooled[v] /\ pc'[v] = pc[v]
           /\ result'[v] = result[v]
  BY <1>1, <1>2 DEF Types
<1>4. Types'
  BY <1>1, <1>2 DEF Types, RequestType, NoResult, Errors
<1>5. conn[u] = NoConn
  BY <1>2 DEF Holding
<1>6. OnePlace'
  BY <1>2 DEF OnePlace
<1>7. Holding'
  BY <1>2, <1>3, <1>5 DEF Holding
<1>8. Connected'
  BY <1>2, <1>3, <1>5 DEF Connected
<1>9. OneRequest'
  BY <1>2, <1>3, <1>5 DEF OneRequest, Clean
<1>10. AnswerIsOwn'
  BY <1>3 DEF AnswerIsOwn, NoResult
<1>11. Counted'
  <2>1. InUse' = InUse
    BY <1>2, <1>3, <1>5 DEF InUse
  <2>2. Owned' = Owned
    BY <1>2, <2>1 DEF Owned
  <2>3. QED
    BY <1>2, <2>2, SameOwned
<1>12. QED
  BY <1>4, <1>6, <1>7, <1>8, <1>9, <1>10, <1>11

\* getConnection() finds the pool empty or takes the first connection; if it
\* takes them all for expired, all are to be deleted.
LEMMA GetFacts ==
    ASSUME Inv, NEW u \in Users, GetConnection(u)
    PROVE  \/ /\ m_conns' = <<>>
              /\ conn' = [conn EXCEPT ![u] = NoConn]
              /\ invalid' = [invalid EXCEPT ![u] = Elems(m_conns)]
           \/ /\ Len(m_conns) > 0
              /\ m_conns' = SubSeq(m_conns, 2, Len(m_conns))
              /\ conn' = [conn EXCEPT ![u] = m_conns[1]]
              /\ invalid' = [invalid EXCEPT ![u] = {}]
<1> DEFINE n == Len(m_conns)
           usable == {i \in 1..n : state[m_conns[i]] = "open" /\ ~Expired}
           first == Min(usable \cup {n + 1})
<1>1. /\ m_conns' = SubSeq(m_conns, first + 1, n)
      /\ conn' = [conn EXCEPT ![u] = IF usable = {} THEN NoConn ELSE m_conns[first]]
      /\ invalid' = [invalid EXCEPT ![u] = {m_conns[i] : i \in 1..first - 1}]
  BY DEF GetConnection
<1>2. n \in Nat
  BY DEF Inv, Types
<1>3. CASE Expired \/ n = 0
  <2>1. usable = {}
    BY <1>2, <1>3
  <2>2. first = n + 1
    BY <1>2, <2>1 DEF Min
  <2> HIDE DEF first, usable
  <2>3. SubSeq(m_conns, first + 1, n) = <<>>
    <3>1. first + 1 \in Int /\ n \in Int /\ n < first + 1
      BY <1>2, <2>2
    <3>2. QED
      BY <3>1, SubSeqEmpty
  <2>4. {m_conns[i] : i \in 1..first - 1} = Elems(m_conns)
    BY <1>2, <2>2 DEF Elems
  <2>5. QED
    BY <1>1, <2>1, <2>3, <2>4
<1>4. CASE ~Expired /\ n # 0
  <2>1. \A i \in 1..n : state[m_conns[i]] = "open"
    BY DEF Inv, Connected, Elems
  <2>2. usable = 1..n
    BY <1>4, <2>1
  <2>3. first = 1
    <3>1. 1 \in usable \cup {n + 1} /\ \A y \in usable \cup {n + 1} : 1 =< y /\ y \in Nat
      BY <1>2, <1>4, <2>2
    <3>2. \A x \in usable \cup {n + 1} :
            (\A y \in usable \cup {n + 1} : x =< y) => x = 1
      BY <3>1
    <3>3. QED
      BY <3>1, <3>2 DEF Min
  <2>4. usable # {}
    BY <1>2, <1>4, <2>2
  <2> HIDE DEF first, usable
  <2>5. {m_conns[i] : i \in 1..first - 1} = {} /\ first + 1 = 2
    BY <2>3
  <2>6. m_conns' = SubSeq(m_conns, 2, n)
    BY <1>1, <2>5
  <2>7. conn' = [conn EXCEPT ![u] = m_conns[1]]
    BY <1>1, <2>3, <2>4
  <2>8. invalid' = [invalid EXCEPT ![u] = {}]
    BY <1>1, <2>5
  <2>9. QED
    BY <1>2, <1>4, <2>6, <2>7, <2>8
<1>5. QED
  BY <1>3, <1>4

LEMMA GetKeeps ==
    ASSUME Inv, NEW u \in Users, GetConnection(u)
    PROVE  Inv'
<1> USE DEF Inv
<1>1. /\ pc[u] = "get" /\ pc' = [pc EXCEPT ![u] = "purge"]
      /\ UNCHANGED <<m_total, peer, wire, answers, state, m_request, pooled, request,
                     result, calls>>
  BY DEF GetConnection, Goto, netVars
<1>2. pc'[u] = "purge" /\ \A v \in Users : v # u => pc'[v] = pc[v]
  BY <1>1 DEF Types
<1>3. conn[u] = NoConn /\ invalid[u] = {} /\ pooled[u]
  BY <1>1 DEF Holding
<1>4. AnswerIsOwn'
  BY <1>1 DEF AnswerIsOwn
<1>5. Elems(m_conns) \subseteq Conns /\ m_conns \in Seq(Conns)
  BY OwnedConns DEF Types
<1>6. CASE /\ m_conns' = <<>>
           /\ conn' = [conn EXCEPT ![u] = NoConn]
           /\ invalid' = [invalid EXCEPT ![u] = Elems(m_conns)]
  <2>1. /\ conn' = conn /\ invalid'[u] = Elems(m_conns)
        /\ \A v \in Users : v # u => invalid'[v] = invalid[v]
    BY <1>3, <1>6 DEF Types
  <2>2. Elems(m_conns') = {} /\ Distinct(m_conns')
    BY <1>6, EmptyElems
  <2>3. Types'
    BY <1>1, <1>5, <1>6, <2>1 DEF Types
  <2>4. OnePlace'
    BY <1>3, <2>1, <2>2 DEF OnePlace
  <2>5. Holding'
    BY <1>1, <1>2, <1>3, <2>1 DEF Holding
  <2>6. Connected'
    BY <1>1, <1>2, <1>3, <2>1, <2>2 DEF Connected
  <2>7. OneRequest'
    BY <1>1, <1>2, <1>3, <2>1, <2>2 DEF OneRequest, Clean
  <2>8. InUse' = InUse
    BY <1>1, <2>1 DEF InUse
  <2>9. UNION {invalid'[v] : v \in Users}
          = Elems(m_conns) \cup UNION {invalid[v] : v \in Users}
    BY <1>3, <2>1
  <2>10. Owned' = Owned
    BY <2>2, <2>8, <2>9 DEF Owned
  <2>11. Counted'
    BY <1>1, <2>10, SameOwned
  <2>12. QED
    BY <1>4, <2>3, <2>4, <2>5, <2>6, <2>7, <2>11
<1>7. CASE /\ Len(m_conns) > 0
           /\ m_conns' = SubSeq(m_conns, 2, Len(m_conns))
           /\ conn' = [conn EXCEPT ![u] = m_conns[1]]
           /\ invalid' = [invalid EXCEPT ![u] = {}]
  <2>1. PICK c \in Conns : c = m_conns[1]
    BY <1>5, <1>7
  <2>2. /\ m_conns' \in Seq(Conns) /\ Distinct(m_conns')
        /\ c \notin Elems(m_conns')
        /\ Elems(m_conns) = Elems(m_conns') \cup {c}
    BY <1>5, <1>7, <2>1, RestElems DEF OnePlace
  <2>3. /\ conn'[u] = c /\ invalid' = invalid
        /\ \A v \in Users : v # u => conn'[v] = conn[v]
    BY <1>3, <1>7, <2>1 DEF Types
  <2>4. Types'
    BY <1>1, <1>7, <2>1, <2>2, <2>3 DEF Types
  <2>5. \A v \in Users : conn[v] # c /\ c \notin invalid[v]
    BY <2>1, <2>2 DEF OnePlace, NoConn, Conns
  <2>6. OnePlace'
    BY <1>3, <2>2, <2>3, <2>5 DEF OnePlace
  <2>7. Holding'
    BY <1>1, <1>2, <1>3, <2>3 DEF Holding
  <2>8. state[c] = "open" /\ Clean(c)
    BY <2>2 DEF Connected, OneRequest
  <2>9. Connected'
    BY <1>1, <1>2, <1>3, <2>2, <2>3, <2>8 DEF Connected
  <2>10. OneRequest'
    <3>1. UNCHANGED <<wire, answers, state, request>>
      BY <1>1
    <3>2. \A d \in Elems(m_conns') : Clean(d)'
      BY <2>2, <3>1 DEF OneRequest, Clean
    <3>3. \A v \in Users : \A d \in invalid'[v] : Clean(d)'
      BY <2>3, <3>1 DEF OneRequest, Clean
    <3>4. ASSUME NEW v \in Users, conn'[v] # NoConn
          PROVE  /\ pc'[v] \in {"purge", "send"} => Clean(conn[v])' 
                 /\ pc'[v] = "release" /\ state[conn'[v]] = "open" => Clean(conn[v])'
                 /\ pc'[v] = "recv" =>
                      \/ wire[conn'[v]] = <<request[v]>> /\ answers[conn'[v]] = <<>>
                      \/ wire[conn'[v]] = <<>> /\ answers[conn'[v]] = <<request[v].id>>
      <4>1. CASE v = u
        BY <1>2, <2>3, <2>8, <3>1, <4>1 DEF Clean
      <4>2. CASE v # u
        BY <1>2, <2>3, <3>1, <3>4, <4>2 DEF OneRequest, Clean
      <4>3. QED
        BY <4>1, <4>2
    <3>5. QED
      BY <3>1, <3>2, <3>3, <3>4 DEF OneRequest, Clean
  <2>11. c # NoConn
    BY DEF Conns, NoConn
  <2>12. InUse' = InUse \cup {c}
    BY <1>1, <1>3, <2>3, <2>11 DEF InUse
  <2>13. Owned' = Owned
    BY <2>2, <2>3, <2>12 DEF Owned
  <2>14. Counted'
    BY <1>1, <2>13, SameOwned
  <2>15. QED
    BY <1>4, <2>4, <2>6, <2>7, <2>9, <2>10, <2>14
<1>8. QED
  BY <1>6, <1>7, GetFacts

\* A step that moves no connection.
LEMMA Unmoved ==
    ASSUME Inv, UNCHANGED <<m_conns, m_total, conn, invalid, pooled>>
    PROVE  OnePlace' /\ Counted'
<1>1. InUse' = InUse
  BY DEF InUse
<1>2. Owned' = Owned
  BY <1>1 DEF Owned
<1>3. QED
  BY <1>2, SameOwned DEF Inv, OnePlace

LEMMA PurgeKeeps ==
    ASSUME Inv, MaxConns \in Nat, NEW u \in Users, Purge(u)
    PROVE  Inv'
<1> USE DEF Inv
<1>1. PICK l \in {"open", "send"} :
        /\ l = "open" <=> conn[u] = NoConn
        /\ pc' = [pc EXCEPT ![u] = l]
  BY DEF Purge, Goto
<1>2. /\ pc[u] = "purge"
      /\ state' = [c \in Conns |-> IF c \in invalid[u] THEN "deleted" ELSE state[c]]
      /\ peer' = peer \ invalid[u]
      /\ m_total' = m_total - Cardinality(invalid[u])
      /\ invalid' = [invalid EXCEPT ![u] = {}]
      /\ UNCHANGED <<m_conns, wire, answers, m_request, conn, pooled, request, result, calls>>
  BY DEF Purge
<1>3. pc'[u] = l /\ \A v \in Users : v # u => pc'[v] = pc[v]
  BY <1>1 DEF Types
<1>4. invalid'[u] = {} /\ \A v \in Users : v # u => invalid'[v] = invalid[v]
  BY <1>2 DEF Types
<1>5. invalid[u] \subseteq Owned /\ invalid[u] \subseteq Conns /\ Owned \subseteq Conns
  BY OwnedConns DEF Owned, Types
<1>6. /\ \A c \in Conns \ invalid[u] : state'[c] = state[c]
      /\ \A c \in invalid[u] : state'[c] = "deleted"
  BY <1>2, <1>5
<1>7. IsFiniteSet(Owned) /\ IsFiniteSet(invalid[u])
      /\ Cardinality(Owned) \in Nat /\ Cardinality(invalid[u]) \in Nat
  BY <1>5, FiniteOwned
<1>8. Types'
  BY <1>1, <1>2, <1>7 DEF Types
<1>9. OnePlace'
  BY <1>2, <1>4 DEF OnePlace
<1>10. Holding'
  BY <1>1, <1>2, <1>3, <1>4 DEF Holding
<1>11. AnswerIsOwn'
  BY <1>2 DEF AnswerIsOwn
<1>12. \A v \in Users : conn[v] # NoConn => conn[v] \in Conns \ invalid[u]
  BY DEF OnePlace, Types
<1>13. Elems(m_conns) \subseteq Conns \ invalid[u]
  BY OwnedConns DEF OnePlace
<1>14. \A v \in Users : v # u => invalid[v] \subseteq Conns \ invalid[u]
  BY DEF OnePlace, Types
<1>15. Connected'
  <2>1. \A c \in Elems(m_conns') : state'[c] = "open"
    BY <1>2, <1>6, <1>13 DEF Connected
  <2>2. \A v \in Users : \A c \in invalid'[v] : state'[c] = "open"
    BY <1>4, <1>6, <1>14 DEF Connected
  <2>3. \A v \in Users : conn'[v] # NoConn =>
         /\ state'[conn'[v]] \in {"open", "closed"}
         /\ pc'[v] # "release" => state'[conn'[v]] = "open"
    BY <1>2, <1>3, <1>6, <1>12 DEF Connected
  <2>4. \A c \in peer' : state'[c] = "open"
    BY <1>2, <1>6 DEF Connected, Types
  <2>5. QED
    BY <2>1, <2>2, <2>3, <2>4 DEF Connected
<1>16. OneRequest'
  <2>1. \A c \in Conns : state'[c] = "unmade" => Clean(c)'
    BY <1>2, <1>6 DEF OneRequest, Clean
  <2>2. \A c \in Elems(m_conns') : Clean(c)'
    BY <1>2 DEF OneRequest, Clean
  <2>3. \A v \in Users : \A c \in invalid'[v] : Clean(c)'
    BY <1>2, <1>4 DEF OneRequest, Clean
  <2>4. ASSUME NEW v \in Users, conn[v] # NoConn
        PROVE  /\ pc'[v] \in {"purge", "send"} => Clean(conn[v])
               /\ pc'[v] = "release" /\ state'[conn[v]] = "open" => Clean(conn[v])
               /\ pc'[v] = "recv" =>
                    \/ wire[conn[v]] = <<request[v]>> /\ answers[conn[v]] = <<>>
                    \/ wire[conn[v]] = <<>> /\ answers[conn[v]] = <<request[v].id>>
    <3>1. state'[conn[v]] = state[conn[v]]
      BY <1>6, <1>12, <2>4
    <3>2. CASE v = u
      BY <1>2, <1>3, <2>4, <3>2 DEF OneRequest
    <3>3. CASE v # u
      BY <1>3, <2>4, <3>1, <3>3 DEF OneRequest
    <3>4. QED
      BY <3>2, <3>3
  <2>5. QED
    BY <1>2, <2>1, <2>2, <2>3, <2>4 DEF OneRequest, Clean
<1>17. Counted'
  <2>1. InUse' = InUse
    BY <1>2 DEF InUse
  <2>2. InUse \cap invalid[u] = {}
    BY DEF InUse, OnePlace
  <2>3. \A v \in Users : invalid'[v] = invalid[v] \ invalid[u]
    <3>1. ASSUME NEW v \in Users, v # u
          PROVE  invalid'[v] = invalid[v] \ invalid[u]
      BY <1>4, <3>1 DEF OnePlace
    <3>2. QED
      BY <1>4, <3>1
  <2>4. Owned' = Owned \ invalid[u]
    <3>1. UNION {invalid'[v] : v \in Users} = (UNION {invalid[v] : v \in Users}) \ invalid[u]
      BY <2>3, UnionWithout
    <3>2. Elems(m_conns') = Elems(m_conns) \ invalid[u]
      BY <1>2, <1>13
    <3>3. InUse' = InUse \ invalid[u]
      BY <2>1, <2>2
    <3>4. QED
      BY <3>1, <3>2, <3>3 DEF Owned
  <2>5. Owned \cap invalid[u] = invalid[u]
    BY <1>5
  <2>6. Cardinality(Owned') = Cardinality(Owned) - Cardinality(invalid[u])
    BY <1>7, <2>4, <2>5, FS_Difference
  <2>7. QED
    BY <1>2, <2>6 DEF Counted
<1>18. QED
  BY <1>8, <1>9, <1>10, <1>11, <1>15, <1>16, <1>17

LEMMA OpenKeeps ==
    ASSUME Inv, MaxConns \in Nat, NEW u \in Users, Open(u)
    PROVE  Inv'
<1> USE DEF Inv
<1>1. /\ pc[u] = "open"
      /\ UNCHANGED <<m_conns, wire, answers, m_request, pooled, invalid, request, calls>>
  BY DEF Open
<1>2. conn[u] = NoConn /\ invalid[u] = {}
  BY <1>1 DEF Holding
<1>3. ASSUME NEW c \in Conns, state[c] = "unmade",
             state' = [state EXCEPT ![c] = "open"],
             peer' = peer \cup {c},
             conn' = [conn EXCEPT ![u] = c],
             m_total' = IF pooled[u] THEN m_total + 1 ELSE m_total,
             pc' = [pc EXCEPT ![u] = "send"],
             UNCHANGED result
      PROVE  Inv'
  <2>1. pc'[u] = "send" /\ \A v \in Users : v # u => pc'[v] = pc[v]
    BY <1>3 DEF Types
  <2>2. conn'[u] = c /\ \A v \in Users : v # u => conn'[v] = conn[v]
    BY <1>3 DEF Types
  <2>3. state'[c] = "open" /\ \A d \in Conns : d # c => state'[d] = state[d]
    BY <1>3 DEF Types
  <2>4. /\ c \notin Elems(m_conns)
        /\ \A v \in Users : conn[v] # c /\ c \notin invalid[v]
    BY <1>3 DEF Connected, Conns, NoConn
  <2>5. c # NoConn /\ Clean(c)
    BY <1>3 DEF Conns, NoConn, OneRequest
  <2>6. Types'
    BY <1>1, <1>3 DEF Types
  <2>7. OnePlace'
    BY <1>1, <1>2, <2>2, <2>4 DEF OnePlace
  <2>8. Holding'
    BY <1>1, <1>2, <2>1, <2>2, <2>5 DEF Holding
  <2>9. Connected'
    <3>1. \A d \in Elems(m_conns') : state'[d] = "open"
      BY <1>1, <2>3, <2>4, OwnedConns DEF Connected
    <3>2. \A v \in Users : \A d \in invalid'[v] : state'[d] = "open"
      BY <1>1, <2>3, <2>4 DEF Connected, Types
    <3>3. ASSUME NEW v \in Users, conn'[v] # NoConn
          PROVE  /\ state'[conn'[v]] \in {"open", "closed"}
                 /\ pc'[v] # "release" => state'[conn'[v]] = "open"
      <4>1. CASE v = u
        BY <2>2, <2>3, <4>1
      <4>2. CASE v # u
        <5>1. conn'[v] = conn[v] /\ conn[v] \in Conns /\ conn[v] # c
          BY <2>2, <2>4, <3>3, <4>2 DEF Types
        <5>2. QED
          BY <2>1, <2>3, <3>3, <4>2, <5>1 DEF Connected
      <4>3. QED
        BY <4>1, <4>2
    <3>4. \A d \in peer' : state'[d] = "open"
      BY <1>3, <2>3 DEF Connected, Types
    <3>5. QED
      BY <3>1, <3>2, <3>3, <3>4 DEF Connected
  <2>10. OneRequest'
    <3>1. \A d \in Conns : state'[d] = "unmade" => Clean(d)'
      BY <1>1, <2>3 DEF OneRequest, Clean
    <3>2. \A d \in Elems(m_conns') : Clean(d)'
      BY <1>1 DEF OneRequest, Clean
    <3>3. \A v \in Users : \A d \in invalid'[v] : Clean(d)'
      BY <1>1 DEF OneRequest, Clean
    <3>4. ASSUME NEW v \in Users, conn'[v] # NoConn
          PROVE  /\ pc'[v] \in {"purge", "send"} => Clean(conn[v])'
                 /\ pc'[v] = "release" /\ state'[conn'[v]] = "open" => Clean(conn[v])'
                 /\ pc'[v] = "recv" =>
                      \/ wire[conn'[v]] = <<request[v]>> /\ answers[conn'[v]] = <<>>
                      \/ wire[conn'[v]] = <<>> /\ answers[conn'[v]] = <<request[v].id>>
      <4>1. CASE v = u
        BY <1>1, <2>1, <2>2, <2>5, <4>1 DEF Clean
      <4>2. CASE v # u
        <5>1. conn'[v] = conn[v] /\ conn[v] \in Conns /\ conn[v] # c
          BY <2>2, <2>4, <3>4, <4>2 DEF Types
        <5>2. state'[conn[v]] = state[conn[v]] /\ pc'[v] = pc[v]
          BY <2>1, <2>3, <4>2, <5>1
        <5>3. QED
          BY <1>1, <3>4, <5>1, <5>2 DEF OneRequest, Clean
      <4>3. QED
        BY <4>1, <4>2
    <3>5. QED
      BY <1>1, <3>1, <3>2, <3>3, <3>4 DEF OneRequest, Clean
  <2>11. AnswerIsOwn'
    BY <1>1, <1>3 DEF AnswerIsOwn
  <2>12. Counted'
    <3>1. Owned \subseteq Conns
      BY OwnedConns
    <3>2. IsFiniteSet(Owned) /\ Cardinality(Owned) \in Nat
      BY <3>1, FiniteOwned
    <3>3. CASE pooled[u]
      <4>1. InUse' = InUse \cup {c}
        BY <1>1, <1>2, <2>2, <2>5, <3>3 DEF InUse
      <4>2. Owned' = Owned \cup {c}
        BY <1>1, <4>1 DEF Owned
      <4>3. c \notin Owned
        BY <2>4 DEF Owned, InUse
      <4>4. Cardinality(Owned \cup {c}) = Cardinality(Owned) + 1
        BY <3>2, <4>3, FS_AddElement
      <4>5. QED
        BY <1>3, <3>3, <4>2, <4>4 DEF Counted
    <3>4. CASE ~pooled[u]
      <4>1. InUse' = InUse
        BY <1>1, <1>2, <2>2, <3>4 DEF InUse
      <4>2. Owned' = Owned
        BY <1>1, <4>1 DEF Owned
      <4>3. QED
        BY <1>3, <3>4, <4>2 DEF Counted
    <3>5. QED
      BY <3>3, <3>4
  <2>13. QED
    BY <2>6, <2>7, <2>8, <2>9, <2>10, <2>11, <2>12
<1>4. ASSUME NEW r \in {"POOL_GET_CONNECTION", "CONNECT_FAIL"},
             result' = [result EXCEPT ![u].error = r],
             pc' = [pc EXCEPT ![u] = "idle"],
             UNCHANGED <<state, peer, conn, m_total>>
      PROVE  Inv'
  <2>1. pc'[u] = "idle" /\ \A v \in Users : v # u => pc'[v] = pc[v]
    BY <1>4 DEF Types
  <2>2. /\ result'[u].error = r /\ result' \in [Users -> [error : Errors, of : Nat]]
        /\ \A v \in Users : v # u => result'[v] = result[v]
    BY <1>4 DEF Types, Errors
  <2>3. Types'
    BY <1>1, <1>4, <2>2 DEF Types
  <2>4. OnePlace' /\ Counted'
    BY <1>1, <1>4, Unmoved
  <2>5. Holding' /\ Connected' /\ OneRequest'
    BY <1>1, <1>2, <1>4, <2>1 DEF Holding, Connected, OneRequest, Clean
  <2>6. AnswerIsOwn'
    BY <1>1, <2>2 DEF AnswerIsOwn
  <2>7. QED
    BY <2>3, <2>4, <2>5, <2>6
<1>5. QED
  BY <1>3, <1>4 DEF Open, Goto

LEMMA SendKeeps ==
    ASSUME Inv, NEW u \in Users, Send(u)
    PROVE  Inv'
<1> USE DEF Inv
<1>1. /\ pc[u] = "send"
      /\ UNCHANGED <<m_conns, m_total, peer, answers, state, m_request, conn, pooled,
                     invalid, request, calls>>
  BY DEF Send, poolVars
<1>2. PICK c \in Conns : c = conn[u]
  BY <1>1 DEF Holding, Types
<1>3. c # NoConn /\ Clean(c) /\ state[c] = "open"
  BY <1>1, <1>2 DEF Holding, OneRequest, Connected, Conns, NoConn
<1>4. OnePlace' /\ Counted'
  BY <1>1, Unmoved
<1>5. ASSUME wire' = [wire EXCEPT ![c] = Append(@, request[u])],
             pc' = [pc EXCEPT ![u] = "recv"], UNCHANGED result
      PROVE  Inv'
  <2>1. pc'[u] = "recv" /\ \A v \in Users : v # u => pc'[v] = pc[v]
    BY <1>5 DEF Types
  <2>2. request[u] \in RequestType /\ wire[c] = <<>>
    BY <1>3 DEF Types, Clean
  <2>3. wire'[c] = <<request[u]>> /\ \A d \in Conns : d # c => wire'[d] = wire[d]
    BY <1>5, <2>2 DEF Types
  <2>4. /\ \A v \in Users : v # u => conn[v] # c
        /\ \A v \in Users : c \notin invalid[v]
        /\ c \notin Elems(m_conns)
    BY <1>2, <1>3 DEF OnePlace
  <2>5. Types'
    <3>1. <<request[u]>> \in Seq(RequestType)
      BY <2>2
    <3>2. wire' = [wire EXCEPT ![c] = <<request[u]>>]
      BY <1>5, <2>2, <2>3 DEF Types
    <3>3. QED
      BY <1>1, <1>5, <3>1, <3>2 DEF Types
  <2>6. Holding' /\ Connected'
    BY <1>1, <1>2, <1>3, <2>1 DEF Holding, Connected
  <2>7. OneRequest'
    <3>1. \A d \in Conns : state'[d] = "unmade" => Clean(d)'
      BY <1>1, <1>3, <2>3 DEF OneRequest, Clean
    <3>2. \A d \in Elems(m_conns') : Clean(d)'
      BY <1>1, <2>3, <2>4, OwnedConns DEF OneRequest, Clean
    <3>3. \A v \in Users : \A d \in invalid'[v] : Clean(d)'
      BY <1>1, <2>3, <2>4 DEF OneRequest, Clean, Types
    <3>4. ASSUME NEW v \in Users, conn[v] # NoConn
          PROVE  /\ pc'[v] \in {"purge", "send"} => Clean(conn[v])'
                 /\ pc'[v] = "release" /\ state'[conn[v]] = "open" => Clean(conn[v])'
                 /\ pc'[v] = "recv" =>
                      \/ wire'[conn[v]] = <<request[v]>> /\ answers[conn[v]] = <<>>
                      \/ wire'[conn[v]] = <<>> /\ answers[conn[v]] = <<request[v].id>>
      <4>1. CASE v = u
        BY <1>2, <1>3, <2>1, <2>3, <4>1 DEF Clean
      <4>2. CASE v # u
        <5>1. conn[v] \in Conns /\ conn[v] # c /\ wire'[conn[v]] = wire[conn[v]]
          BY <2>3, <2>4, <3>4, <4>2 DEF Types
        <5>2. QED
          BY <1>1, <2>1, <3>4, <4>2, <5>1 DEF OneRequest, Clean
      <4>3. QED
        BY <4>1, <4>2
    <3>5. QED
      BY <1>1, <3>1, <3>2, <3>3, <3>4 DEF OneRequest, Clean
  <2>8. AnswerIsOwn'
    BY <1>1, <1>5 DEF AnswerIsOwn
  <2>9. QED
    BY <1>4, <2>5, <2>6, <2>7, <2>8
<1>6. ASSUME result' = [result EXCEPT ![u].error = "SEND_SOCKET_ERROR"],
             pc' = [pc EXCEPT ![u] = "release"], UNCHANGED wire
      PROVE  Inv'
  <2>1. pc'[u] = "release" /\ \A v \in Users : v # u => pc'[v] = pc[v]
    BY <1>6 DEF Types
  <2>2. /\ result'[u].error = "SEND_SOCKET_ERROR"
        /\ result' \in [Users -> [error : Errors, of : Nat]]
        /\ \A v \in Users : v # u => result'[v] = result[v]
    BY <1>6 DEF Types, Errors
  <2>3. Types'
    BY <1>1, <1>6, <2>2 DEF Types
  <2>4. Holding' /\ Connected'
    BY <1>1, <1>2, <1>3, <2>1 DEF Holding, Connected
  <2>5. OneRequest'
    BY <1>1, <1>2, <1>3, <1>6, <2>1 DEF OneRequest, Clean
  <2>6. AnswerIsOwn'
    BY <1>1, <2>2 DEF AnswerIsOwn
  <2>7. QED
    BY <1>4, <2>3, <2>4, <2>5, <2>6
<1>7. QED
  BY <1>2, <1>5, <1>6 DEF Send, Goto

\* The one answer on the connection is the answer to the user's own request.
LEMMA RecvResponseKeeps ==
    ASSUME Inv, NEW u \in Users, RecvResponse(u)
    PROVE  Inv'
<1> USE DEF Inv
<1>1. /\ pc[u] = "recv" /\ answers[conn[u]] # <<>>
      /\ result' = [result EXCEPT ![u] = [error |-> "OK", of |-> Head(answers[conn[u]])]]
      /\ pc' = [pc EXCEPT ![u] = "release"]
      /\ UNCHANGED <<m_conns, m_total, peer, wire, state, m_request, conn, pooled,
                     invalid, request, calls>>
  BY DEF RecvResponse, Goto, poolVars
<1>2. PICK c \in Conns : c = conn[u]
  BY <1>1 DEF Holding, Types
<1>3. c # NoConn /\ state[c] = "open"
  BY <1>1, <1>2 DEF Connected, Conns, NoConn
<1>4. wire[c] = <<>> /\ answers[c] = <<request[u].id>> /\ request[u].id \in Nat
  BY <1>1, <1>2, <1>3 DEF OneRequest, Types, RequestType
<1>5. PICK n \in 1..Len(answers[c]) :
        answers' = [answers EXCEPT ![c] = SubSeq(@, n + 1, Len(@))]
  BY <1>2 DEF RecvResponse
<1>6. n = 1 /\ SubSeq(answers[c], n + 1, Len(answers[c])) = <<>>
  <2>1. Len(answers[c]) = 1
    BY <1>4
  <2>2. n = 1 /\ n + 1 \in Int /\ Len(answers[c]) \in Int /\ Len(answers[c]) < n + 1
    BY <2>1
  <2>3. answers[c] \in Seq(Nat)
    BY DEF Types
  <2>4. QED
    BY <2>2, <2>3, SubSeqEmpty
<1>7. answers' = [answers EXCEPT ![c] = <<>>]
  BY <1>5, <1>6
<1>8. answers'[c] = <<>> /\ \A d \in Conns : d # c => answers'[d] = answers[d]
  BY <1>7 DEF Types
<1>9. pc'[u] = "release" /\ \A v \in Users : v # u => pc'[v] = pc[v]
  BY <1>1 DEF Types
<1>10. result' = [result EXCEPT ![u] = [error |-> "OK", of |-> request[u].id]]
  BY <1>1, <1>2, <1>4
<1>11. Types'
  <2>1. result' \in [Users -> [error : Errors, of : Nat]]
    BY <1>4, <1>10 DEF Types, Errors
  <2>2. answers' \in [Conns -> Seq(Nat)]
    BY <1>7, EmptySeq DEF Types
  <2>3. QED
    BY <1>1, <2>1, <2>2 DEF Types
<1>12. OnePlace' /\ Counted'
  BY <1>1, Unmoved
<1>13. Holding' /\ Connected'
  BY <1>1, <1>2, <1>3, <1>9 DEF Holding, Connected
<1>14. OneRequest'
  <2>1. \A d \in Conns : Clean(d) => Clean(d)'
    BY <1>1, <1>8 DEF Clean
  <2>2. Clean(c)'
    BY <1>1, <1>4, <1>8 DEF Clean
  <2>3. \A d \in Conns : state'[d] = "unmade" => Clean(d)'
    BY <1>1, <2>1 DEF OneRequest
  <2>4. \A d \in Elems(m_conns') : Clean(d)'
    BY <1>1, <2>1, OwnedConns DEF OneRequest
  <2>5. \A v \in Users : \A d \in invalid'[v] : Clean(d)'
    BY <1>1, <2>1 DEF OneRequest, Types
  <2>6. ASSUME NEW v \in Users, conn[v] # NoConn
        PROVE  /\ pc'[v] \in {"purge", "send"} => Clean(conn[v])'
               /\ pc'[v] = "release" /\ state'[conn[v]] = "open" => Clean(conn[v])'
               /\ pc'[v] = "recv" =>
                    \/ wire'[conn[v]] = <<request[v]>> /\ answers'[conn[v]] = <<>>
                    \/ wire'[conn[v]] = <<>> /\ answers'[conn[v]] = <<request[v].id>>
    <3>1. CASE v = u
      BY <1>1, <1>2, <1>9, <2>2, <3>1 DEF Clean
    <3>2. CASE v # u
      <4>1. conn[v] \in Conns /\ conn[v] # c
        BY <1>2, <1>3, <2>6, <3>2 DEF OnePlace, Types
      <4>2. answers'[conn[v]] = answers[conn[v]] /\ pc'[v] = pc[v]
        BY <1>8, <1>9, <3>2, <4>1
      <4>3. QED
        BY <1>1, <2>6, <4>2 DEF OneRequest, Clean
    <3>3. QED
      BY <3>1, <3>2
  <2>7. QED
    BY <1>1, <2>3, <2>4, <2>5, <2>6 DEF OneRequest, Clean
<1>15. AnswerIsOwn'
  <2>1. result'[u].of = request'[u].id
    BY <1>1, <1>10 DEF Types
  <2>2. \A v \in Users : v # u => result'[v] = result[v] /\ request'[v] = request[v]
    BY <1>1, <1>10 DEF Types
  <2>3. QED
    BY <2>1, <2>2 DEF AnswerIsOwn
<1>16. QED
  BY <1>11, <1>12, <1>13, <1>14, <1>15

LEMMA RecvFailsKeeps ==
    ASSUME Inv, NEW u \in Users, RecvFails(u)
    PROVE  Inv'
<1> USE DEF Inv
<1>1. /\ pc[u] = "recv" /\ state' = [state EXCEPT ![conn[u]] = "closed"]
      /\ peer' = peer \ {conn[u]}
      /\ result' = [result EXCEPT ![u].error = "TIMEOUT"]
      /\ pc' = [pc EXCEPT ![u] = "release"]
      /\ UNCHANGED <<m_conns, m_total, wire, answers, m_request, conn, pooled, invalid,
                     request, calls>>
  BY DEF RecvFails, Goto, poolVars
<1>2. PICK c \in Conns : c = conn[u]
  BY <1>1 DEF Holding, Types
<1>3. c # NoConn /\ state[c] = "open"
  BY <1>1, <1>2 DEF Connected, Conns, NoConn
<1>4. pc'[u] = "release" /\ \A v \in Users : v # u => pc'[v] = pc[v]
  BY <1>1 DEF Types
<1>5. state'[c] = "closed" /\ \A d \in Conns : d # c => state'[d] = state[d]
  BY <1>1, <1>2 DEF Types
<1>6. /\ \A v \in Users : v # u => conn[v] # c
      /\ \A v \in Users : c \notin invalid[v]
      /\ c \notin Elems(m_conns)
  BY <1>2, <1>3 DEF OnePlace
<1>7. /\ result'[u].error = "TIMEOUT"
      /\ result' \in [Users -> [error : Errors, of : Nat]]
      /\ \A v \in Users : v # u => result'[v] = result[v]
  BY <1>1 DEF Types, Errors
<1>8. Types'
  BY <1>1, <1>2, <1>7 DEF Types
<1>9. OnePlace' /\ Counted'
  BY <1>1, Unmoved
<1>10. Holding'
  BY <1>1, <1>2, <1>3, <1>4 DEF Holding
<1>11. \A v \in Users : v # u /\ conn[v] # NoConn =>
         state'[conn[v]] = state[conn[v]] /\ pc'[v] = pc[v]
  BY <1>4, <1>5, <1>6 DEF Types
<1>12. Connected'
  <2>1. \A d \in Elems(m_conns') : state'[d] = "open"
    BY <1>1, <1>5, <1>6, OwnedConns DEF Connected
  <2>2. \A v \in Users : \A d \in invalid'[v] : state'[d] = "open"
    BY <1>1, <1>5, <1>6 DEF Connected, Types
  <2>3. \A v \in Users : conn'[v] # NoConn =>
          /\ state'[conn'[v]] \in {"open", "closed"}
          /\ pc'[v] # "release" => state'[conn'[v]] = "open"
    BY <1>1, <1>2, <1>4, <1>5, <1>11 DEF Connected
  <2>4. \A d \in peer' : state'[d] = "open"
    BY <1>1, <1>2, <1>5 DEF Connected, Types
  <2>5. QED
    BY <2>1, <2>2, <2>3, <2>4 DEF Connected
<1>13. OneRequest'
  <2>1. \A d \in Conns : state'[d] = "unmade" => Clean(d)'
    BY <1>1, <1>5 DEF OneRequest, Clean
  <2>2. ASSUME NEW v \in Users, conn[v] # NoConn
        PROVE  /\ pc'[v] \in {"purge", "send"} => Clean(conn[v])
               /\ pc'[v] = "release" /\ state'[conn[v]] = "open" => Clean(conn[v])
               /\ pc'[v] = "recv" =>
                    \/ wire[conn[v]] = <<request[v]>> /\ answers[conn[v]] = <<>>
                    \/ wire[conn[v]] = <<>> /\ answers[conn[v]] = <<request[v].id>>
    <3>1. CASE v = u
      BY <1>2, <1>4, <1>5, <3>1
    <3>2. CASE v # u
      BY <1>11, <2>2, <3>2 DEF OneRequest
    <3>3. QED
      BY <3>1, <3>2
  <2>3. QED
    BY <1>1, <2>1, <2>2 DEF OneRequest, Clean
<1>14. AnswerIsOwn'
  BY <1>1, <1>7 DEF AnswerIsOwn
<1>15. QED
  BY <1>8, <1>9, <1>10, <1>12, <1>13, <1>14

LEMMA ReleaseKeeps ==
    ASSUME Inv, MaxConns \in Nat, NEW u \in Users, Release(u)
    PROVE  Inv'
<1> USE DEF Inv
<1>1. PICK c \in Conns : c = conn[u]
  BY DEF Release, Holding, Types
<1>2. PICK keep \in BOOLEAN :
        /\ keep => pooled[u] /\ state[c] = "open"
        /\ m_request' = IF pooled[u] THEN [m_request EXCEPT ![c] = @ + 1] ELSE m_request
        /\ m_conns' = IF keep THEN Append(m_conns, c) ELSE m_conns
        /\ state' = IF keep THEN state ELSE [state EXCEPT ![c] = "deleted"]
        /\ peer' = IF keep THEN peer ELSE peer \ {c}
        /\ m_total' = IF pooled[u] /\ ~keep THEN m_total - 1 ELSE m_total
  <2> DEFINE k == /\ pooled[u] /\ state[c] = "open" /\ ~TooOld
                  /\ m_request[c] + 1 < MaxRequest
  <2>1. /\ k \in BOOLEAN
        /\ k => pooled[u] /\ state[c] = "open"
    OBVIOUS
  <2>2. /\ m_request' = IF pooled[u] THEN [m_request EXCEPT ![c] = @ + 1] ELSE m_request
        /\ m_conns' = IF k THEN Append(m_conns, c) ELSE m_conns
        /\ state' = IF k THEN state ELSE [state EXCEPT ![c] = "deleted"]
        /\ peer' = IF k THEN peer ELSE peer \ {c}
        /\ m_total' = IF pooled[u] /\ ~k THEN m_total - 1 ELSE m_total
    BY <1>1 DEF Release
  <2> HIDE DEF k
  <2>3. QED
    BY <2>1, <2>2
<1>3. /\ pc[u] = "release" /\ conn' = [conn EXCEPT ![u] = NoConn]
      /\ pc' = [pc EXCEPT ![u] = "idle"]
      /\ UNCHANGED <<wire, answers, pooled, invalid, request, result, calls>>
  BY DEF Release, Goto
<1>4. pc'[u] = "idle" /\ \A v \in Users : v # u => pc'[v] = pc[v]
  BY <1>3 DEF Types
<1>5. conn'[u] = NoConn /\ \A v \in Users : v # u => conn'[v] = conn[v]
  BY <1>3 DEF Types
<1>6. c # NoConn /\ state[c] \in {"open", "closed"} /\ invalid[u] = {}
  BY <1>1, <1>3 DEF Connected, Conns, NoConn, Holding
<1>7. /\ \A v \in Users : v # u => conn[v] # c
      /\ \A v \in Users : c \notin invalid[v]
      /\ c \notin Elems(m_conns)
  BY <1>1, <1>6 DEF OnePlace
<1>8. /\ m_conns' \in Seq(Conns) /\ Distinct(m_conns')
      /\ Elems(m_conns') = IF keep THEN Elems(m_conns) \cup {c} ELSE Elems(m_conns)
  <2>1. m_conns \in Seq(Conns) /\ Distinct(m_conns)
    BY DEF Types, OnePlace
  <2>2. QED
    BY <1>2, <1>7, <2>1, AppendElems
<1>9. /\ keep => state'[c] = "open"
      /\ ~keep => state'[c] = "deleted"
      /\ \A d \in Conns : d # c => state'[d] = state[d]
  BY <1>2 DEF Types
<1>10. keep => Clean(c)
  BY <1>1, <1>2, <1>3, <1>6 DEF OneRequest
<1>11. Types'
  <2>1. m_request' \in [Conns -> Nat]
    BY <1>2 DEF Types
  <2>2. /\ state' \in [Conns -> {"unmade", "open", "closed", "deleted"}]
        /\ peer' \subseteq Conns /\ m_total' \in Int
    BY <1>2 DEF Types
  <2>3. /\ pc' \in [Users -> {"idle", "get", "purge", "open", "send", "recv", "release"}]
        /\ conn' \in [Users -> Conns \cup {NoConn}]
    BY <1>3 DEF Types
  <2>4. QED
    BY <1>3, <1>8, <2>1, <2>2, <2>3 DEF Types
<1>12. OnePlace'
  <2>1. \A v \in Users : conn'[v] # NoConn => v # u /\ conn'[v] = conn[v] /\ conn[v] # c
    BY <1>5, <1>7
  <2>2. \A v \in Users : conn'[v] # NoConn =>
          /\ conn'[v] \notin Elems(m_conns')
          /\ \A w \in Users : conn'[v] \notin invalid'[w] /\ (w # v => conn'[w] # conn'[v])
    BY <1>3, <1>5, <1>8, <2>1 DEF OnePlace
  <2>3. \A v \in Users :
          /\ invalid'[v] \cap Elems(m_conns') = {}
          /\ \A w \in Users : w # v => invalid'[v] \cap invalid'[w] = {}
    BY <1>3, <1>7, <1>8 DEF OnePlace
  <2>4. QED
    BY <1>8, <2>2, <2>3 DEF OnePlace
<1>13. Holding'
  BY <1>3, <1>4, <1>5, <1>6 DEF Holding
<1>14. Connected'
  <2>1. \A d \in Elems(m_conns') : state'[d] = "open"
    BY <1>7, <1>8, <1>9, OwnedConns DEF Connected
  <2>2. \A v \in Users : \A d \in invalid'[v] : state'[d] = "open"
    BY <1>3, <1>7, <1>9 DEF Connected, Types
  <2>3. ASSUME NEW v \in Users, conn'[v] # NoConn
        PROVE  /\ state'[conn'[v]] \in {"open", "closed"}
               /\ pc'[v] # "release" => state'[conn'[v]] = "open"
    <3>1. v # u /\ conn'[v] = conn[v] /\ conn[v] # NoConn
      BY <1>5, <2>3
    <3>2. conn[v] \in Conns /\ conn[v] # c /\ pc'[v] = pc[v]
      BY <1>4, <1>7, <3>1 DEF Types
    <3>3. QED
      BY <1>9, <3>1, <3>2 DEF Connected
  <2>4. \A d \in peer' : state'[d] = "open"
    BY <1>2, <1>9 DEF Connected, Types
  <2>5. QED
    BY <2>1, <2>2, <2>3, <2>4 DEF Connected
<1>15. OneRequest'
  <2>1. \A d \in Conns : state'[d] = "unmade" => Clean(d)'
    BY <1>2, <1>3, <1>9 DEF OneRequest, Clean
  <2>2. \A d \in Elems(m_conns') : Clean(d)'
    BY <1>3, <1>8, <1>10 DEF OneRequest, Clean
  <2>3. \A v \in Users : \A d \in invalid'[v] : Clean(d)'
    BY <1>3 DEF OneRequest, Clean
  <2>4. ASSUME NEW v \in Users, conn'[v] # NoConn
        PROVE  /\ pc'[v] \in {"purge", "send"} => Clean(conn[v])'
               /\ pc'[v] = "release" /\ state'[conn'[v]] = "open" => Clean(conn[v])'
               /\ pc'[v] = "recv" =>
                    \/ wire'[conn'[v]] = <<request'[v]>> /\ answers'[conn'[v]] = <<>>
                    \/ wire'[conn'[v]] = <<>> /\ answers'[conn'[v]] = <<request'[v].id>>
    <3>1. v # u /\ conn'[v] = conn[v] /\ conn[v] # NoConn
      BY <1>5, <2>4
    <3>2. conn[v] \in Conns /\ conn[v] # c /\ pc'[v] = pc[v]
      BY <1>4, <1>7, <3>1 DEF Types
    <3>3. state'[conn[v]] = state[conn[v]]
      BY <1>9, <3>2
    <3>4. QED
      BY <1>3, <3>1, <3>2, <3>3 DEF OneRequest, Clean
  <2>5. QED
    BY <2>1, <2>2, <2>3, <2>4 DEF OneRequest
<1>16. AnswerIsOwn'
  BY <1>3 DEF AnswerIsOwn
<1>17. Counted'
  <2>1. Owned \subseteq Conns /\ IsFiniteSet(Owned) /\ Cardinality(Owned) \in Nat
    BY OwnedConns, FiniteOwned
  <2>2. \A v \in Users : invalid'[v] = invalid[v]
    BY <1>3
  <2>3. CASE pooled[u]
    <3>1. c \in InUse
      BY <1>1, <1>6, <2>3 DEF InUse
    <3>2. InUse' = InUse \ {c}
      BY <1>3, <1>5, <1>7, <1>1 DEF InUse
    <3>3. CASE keep
      <4>1. Owned' = Owned
        BY <1>3, <1>8, <3>1, <3>2, <3>3 DEF Owned
      <4>2. m_total' = m_total
        BY <1>2, <3>3
      <4>3. QED
        BY <4>1, <4>2, SameOwned
    <3>4. CASE ~keep
      <4>1. Elems(m_conns') = Elems(m_conns) /\ c \notin Elems(m_conns)
        BY <1>7, <1>8, <3>4
      <4>2. c \notin UNION {invalid[v] : v \in Users}
        BY <1>7
      <4>3. Owned' = Owned \ {c} /\ c \in Owned
        BY <1>3, <3>1, <3>2, <4>1, <4>2 DEF Owned
      <4>4. Cardinality(Owned') = Cardinality(Owned) - 1
        BY <2>1, <4>3, FS_RemoveElement
      <4>5. m_total' = m_total - 1
        BY <1>2, <2>3, <3>4
      <4>6. QED
        BY <4>4, <4>5 DEF Counted
    <3>5. QED
      BY <3>3, <3>4
  <2>4. CASE ~pooled[u]
    <3>1. InUse' = InUse
      BY <1>3, <1>5, <2>4 DEF InUse
    <3>2. m_conns' = m_conns /\ m_total' = m_total
      BY <1>2, <2>4
    <3>3. Owned' = Owned
      BY <1>3, <3>1, <3>2 DEF Owned
    <3>4. QED
      BY <3>2, <3>3, SameOwned
  <2>5. QED
    BY <2>3, <2>4
<1>18. QED
  BY <1>11, <1>12, <1>13, <1>14, <1>15, <1>16, <1>17

-----------------------------------------------------------------------------
(* The actions of the peer.                                                *)

\* It answers the one request there is, of the user that waits for it.
LEMMA AnswerKeeps ==
    ASSUME Inv, NEW c \in Conns, Answer(c)
    PROVE  Inv'
<1> USE DEF Inv
<1>1. /\ c \in peer /\ wire[c] # <<>>
      /\ answers' = [answers EXCEPT ![c] = Append(@, Head(wire[c]).id)]
      /\ peer' \subseteq peer
      /\ wire' = [wire EXCEPT ![c] = Tail(@)]
      /\ UNCHANGED <<m_conns, m_total, pc, conn, pooled, invalid, request, result,
                     state, m_request, calls>>
  BY DEF Answer, poolVars, userVars
<1>2. /\ c \notin Elems(m_conns) /\ state[c] # "unmade"
      /\ \A u \in Users : c \notin invalid[u]
  BY <1>1 DEF OneRequest, Clean
<1>3. \A u \in Users : conn[u] = c =>
        /\ pc[u] = "recv" /\ wire[c] = <<request[u]>> /\ answers[c] = <<>>
  <2>1. ASSUME NEW u \in Users, conn[u] = c
        PROVE  /\ pc[u] = "recv" /\ wire[c] = <<request[u]>> /\ answers[c] = <<>>
    <3>1. conn[u] # NoConn /\ state[c] = "open" /\ ~Clean(c)
      BY <1>1, <2>1 DEF Conns, NoConn, Connected, Clean
    <3>2. pc[u] = "recv"
      BY <2>1, <3>1 DEF OneRequest, Types, Holding
    <3>3. QED
      BY <1>1, <2>1, <3>1, <3>2 DEF OneRequest
  <2>2. QED
    BY <2>1
<1>4. Head(wire[c]) \in RequestType /\ Tail(wire[c]) \in Seq(RequestType)
  BY <1>1 DEF Types
<1>5. \A d \in Conns : d # c => wire'[d] = wire[d] /\ answers'[d] = answers[d]
  BY <1>1 DEF Types
<1>6. wire'[c] = Tail(wire[c]) /\ answers'[c] = Append(answers[c], Head(wire[c]).id)
  BY <1>1 DEF Types
<1>7. Types'
  <2>1. Append(answers[c], Head(wire[c]).id) \in Seq(Nat)
    BY <1>4 DEF Types, RequestType
  <2>2. wire' \in [Conns -> Seq(RequestType)] /\ answers' \in [Conns -> Seq(Nat)]
    BY <1>1, <1>4, <2>1 DEF Types
  <2>3. QED
    BY <1>1, <2>2 DEF Types
<1>8. OnePlace' /\ Counted'
  BY <1>1, Unmoved
<1>9. Holding' /\ Connected' /\ AnswerIsOwn'
  BY <1>1 DEF Holding, Connected, AnswerIsOwn
<1>10. OneRequest'
  <2>1. \A d \in Conns : d # c => (Clean(d)' <=> Clean(d))
    BY <1>5 DEF Clean
  <2>2. \A d \in Conns : state'[d] = "unmade" => Clean(d)'
    BY <1>1, <1>2, <2>1 DEF OneRequest
  <2>3. \A d \in Elems(m_conns') : Clean(d)'
    BY <1>1, <1>2, <2>1, OwnedConns DEF OneRequest
  <2>4. \A v \in Users : \A d \in invalid'[v] : Clean(d)'
    BY <1>1, <1>2, <2>1 DEF OneRequest, Types
  <2>5. ASSUME NEW v \in Users, conn[v] # NoConn
        PROVE  /\ pc[v] \in {"purge", "send"} => Clean(conn[v])'
               /\ pc[v] = "release" /\ state[conn[v]] = "open" => Clean(conn[v])'
               /\ pc[v] = "recv" =>
                    \/ wire'[conn[v]] = <<request[v]>> /\ answers'[conn[v]] = <<>>
                    \/ wire'[conn[v]] = <<>> /\ answers'[conn[v]] = <<request[v].id>>
    <3>1. CASE conn[v] = c
      <4>1. pc[v] = "recv" /\ wire[c] = <<request[v]>> /\ answers[c] = <<>>
        BY <1>3, <3>1
      <4>2. wire'[c] = <<>> /\ answers'[c] = <<request[v].id>>
        <5>1. Tail(wire[c]) = <<>> /\ Head(wire[c]) = request[v]
          BY <4>1
        <5>2. Append(answers[c], request[v].id) = <<request[v].id>>
          BY <4>1
        <5>3. QED
          BY <1>6, <5>1, <5>2
      <4>3. QED
        BY <3>1, <4>1, <4>2
    <3>2. CASE conn[v] # c
      <4>1. conn[v] \in Conns
        BY <2>5 DEF Types
      <4>2. wire'[conn[v]] = wire[conn[v]] /\ answers'[conn[v]] = answers[conn[v]]
        BY <1>5, <3>2, <4>1
      <4>3. QED
        BY <1>1, <2>5, <4>2 DEF OneRequest, Clean
    <3>3. QED
      BY <3>1, <3>2
  <2>6. QED
    BY <1>1, <2>2, <2>3, <2>4, <2>5 DEF OneRequest, Clean
<1>11. QED
  BY <1>7, <1>8, <1>9, <1>10

LEMMA PeerClosesKeeps ==
    ASSUME Inv, NEW c \in Conns, PeerCloses(c)
    PROVE  Inv'
<1> USE DEF Inv
<1>1. /\ peer' = peer \ {c}
      /\ UNCHANGED <<m_conns, m_total, wire, answers, pc, conn, pooled, invalid, request,
                     result, state, m_request, calls>>
  BY DEF PeerCloses, poolVars, userVars
<1>2. OnePlace' /\ Counted'
  BY <1>1, Unmoved
<1>3. Types' /\ Holding' /\ Connected'
  BY <1>1 DEF Types, Holding, Connected
<1>4. OneRequest' /\ AnswerIsOwn'
  BY <1>1 DEF OneRequest, Clean, AnswerIsOwn
<1>5. QED
  BY <1>2, <1>3, <1>4

-----------------------------------------------------------------------------
(* The theorems.                                                           *)

LEMMA InitInv == Init => Inv
<1> SUFFICES ASSUME Init PROVE Inv
  OBVIOUS
<1> USE DEF Init
<1>1. Types
  <2>1. NoRequest \in RequestType /\ NoResult \in [error : Errors, of : Nat]
    BY DEF NoRequest, NoResult, RequestType, Errors
  <2>2. QED
    BY <2>1, EmptySeq DEF Types
<1>2. OnePlace
  BY EmptyElems DEF OnePlace
<1>3. Holding
  BY DEF Holding
<1>4. Connected /\ OneRequest
  BY EmptyElems DEF Connected, OneRequest, Clean
<1>5. AnswerIsOwn
  BY DEF AnswerIsOwn, NoResult
<1>6. Counted
  <2>1. InUse = {}
    BY DEF InUse
  <2>2. Owned = {}
    BY <2>1, EmptyElems DEF Owned
  <2>3. QED
    BY <2>2, FS_EmptySet DEF Counted
<1>7. QED
  BY <1>1, <1>2, <1>3, <1>4, <1>5, <1>6 DEF Inv

LEMMA NextInv ==
    ASSUME Inv, MaxConns \in Nat, [Next]_vars
    PROVE  Inv'
<1>1. ASSUME NEW u \in Users, DoRequest(u) PROVE Inv'
  BY <1>1, DoRequestKeeps
<1>2. ASSUME NEW u \in Users, GetConnection(u) PROVE Inv'
  BY <1>2, GetKeeps
<1>3. ASSUME NEW u \in Users, Purge(u) PROVE Inv'
  BY <1>3, PurgeKeeps
<1>4. ASSUME NEW u \in Users, Open(u) PROVE Inv'
  BY <1>4, OpenKeeps
<1>5. ASSUME NEW u \in Users, Send(u) PROVE Inv'
  BY <1>5, SendKeeps
<1>6. ASSUME NEW u \in Users, RecvResponse(u) PROVE Inv'
  BY <1>6, RecvResponseKeeps
<1>7. ASSUME NEW u \in Users, RecvFails(u) PROVE Inv'
  BY <1>7, RecvFailsKeeps
<1>8. ASSUME NEW u \in Users, Release(u) PROVE Inv'
  BY <1>8, ReleaseKeeps
<1>9. ASSUME NEW c \in Conns, Answer(c) PROVE Inv'
  BY <1>9, AnswerKeeps
<1>10. ASSUME NEW c \in Conns, PeerCloses(c) PROVE Inv'
  BY <1>10, PeerClosesKeeps
<1>11. CASE UNCHANGED vars
  <2>1. UNCHANGED <<m_conns, m_total, peer, wire, answers, pc, conn, pooled, invalid,
                    request, result, state, m_request, calls>>
    BY <1>11 DEF vars, poolVars, netVars, userVars
  <2>2. OnePlace' /\ Counted'
    BY <2>1, Unmoved
  <2>3. Types' /\ Holding' /\ Connected'
    BY <2>1 DEF Inv, Types, Holding, Connected
  <2>4. OneRequest' /\ AnswerIsOwn'
    BY <2>1 DEF Inv, OneRequest, Clean, AnswerIsOwn
  <2>5. QED
    BY <2>2, <2>3, <2>4 DEF Inv
<1>12. QED
  BY <1>1, <1>2, <1>3, <1>4, <1>5, <1>6, <1>7, <1>8, <1>9, <1>10, <1>11 DEF Next

\* Each connection of the pool and of its users is in one place, only its user
\* closes it, and nothing is left on it by an earlier request
\* (http_connection.cc:331).
THEOREM Invariance ==
    ASSUME MaxConns \in Nat
    PROVE  Spec => []Inv
<1>1. Inv /\ [Next]_vars => Inv'
  BY NextInv
<1>2. QED
  BY <1>1, InitInv, PTL DEF Spec

\* The state is of its types, a user's connection has not been deleted, and
\* the other end is open only for connections that are.
THEOREM TypeCorrect ==
    ASSUME MaxConns \in Nat
    PROVE  Spec => []TypeOK
<1>1. Inv => TypeOK
  BY DEF Inv, Types, Connected, TypeOK
<1>2. QED
  BY <1>1, Invariance, PTL

\* A request that returns an answer returns its own, however often its
\* connection has been used and whenever the answer comes
\* (http_connection.cc:43).
THEOREM AnswersAreOwn ==
    ASSUME MaxConns \in Nat
    PROVE  Spec => []AnswerIsOwn
<1>1. Inv => AnswerIsOwn
  BY DEF Inv
<1>2. QED
  BY <1>1, Invariance, PTL

\* m_total counts the connections that wait in the pool, are in use or are
\* about to be deleted, and each of them is in one of these places
\* (http_connection.cc:394).
THEOREM PoolIsCounted ==
    ASSUME MaxConns \in Nat
    PROVE  Spec => []PoolCounts
<1>1. Inv => PoolCounts
  <2> SUFFICES ASSUME Inv PROVE PoolCounts
    OBVIOUS
  <2>1. Pool = Elems(m_conns)
    BY DEF Pool, Elems
  <2>2. m_total = Cardinality(Pool \cup InUse \cup UNION {invalid[u] : u \in Users})
    BY <2>1 DEF Inv, Counted, Owned
  <2>3. Cardinality(Pool) = Len(m_conns)
    BY <2>1, DistinctCount DEF Inv, Types, OnePlace
  <2>4. NoConn \notin Pool
    BY <2>1, OwnedConns DEF Inv, Conns, NoConn
  <2>5. Pool \cap {conn[u] : u \in Users} = {}
    BY <2>1, <2>4 DEF Inv, OnePlace
  <2>6. \A u, v \in Users : u # v /\ conn[u] = conn[v] => conn[u] = NoConn
    BY DEF Inv, OnePlace
  <2>7. QED
    BY <2>2, <2>3, <2>5, <2>6 DEF PoolCounts
<1>2. QED
  BY <1>1, Invariance, PTL

-----------------------------------------------------------------------------
(* Induction over the natural numbers.                                     *)

Less == {p \in Nat \X Nat : p[1] < p[2]}

LEMMA LessIsWellFounded == IsWellFoundedOn(Less, Nat)
<1>1. Less = OpToRel(<, Nat)
  BY DEF OpToRel, Less
<1>2. QED
  BY <1>1, NatLessThanWellFounded

LEMMA LeastExists ==
    ASSUME NEW S \in SUBSET Nat, S # {}
    PROVE  LET least == CHOOSE n \in S : \A k \in S : n <= k IN
           least \in S /\ \A k \in S : least <= k
<1>1. PICK x \in S : \A y \in S : ~(<<y, x>> \in Less)
  BY LessIsWellFounded, WFMin
<1>2. ASSUME NEW y \in S
      PROVE  x <= y
  <2>1. x \in Nat /\ y \in Nat /\ <<y, x>> \notin Less
    BY <1>1
  <2>2. QED
    BY <2>1 DEF Less
<1>3. QED
  BY <1>2

LEMMA SetInduction ==
    ASSUME NEW T, 0 \in T, \A n \in Nat : n \in T => n + 1 \in T
    PROVE  Nat \subseteq T
<1>1. SUFFICES ASSUME Nat \ T # {} PROVE FALSE
  OBVIOUS
<1>2. PICK x \in Nat \ T : \A y \in Nat \ T : ~(<<y, x>> \in Less)
  BY <1>1, LessIsWellFounded, WFMin
<1>3. x # 0
  BY <1>2
<1>4. x - 1 \in Nat /\ x - 1 \notin T
  BY <1>2, <1>3
<1>5. ~(<<x - 1, x>> \in Less)
  BY <1>2, <1>4
<1>6. QED
  BY <1>4, <1>5 DEF Less

-----------------------------------------------------------------------------
(* HttpParser, which fills the requests of HttpServer and the responses of  *)
(* HttpConnectionPool.                                                     *)

CONSTANTS BuffSize, MaxMessages

VARIABLES kind, messages, unread, stage, chunk, dead, m_data, m_field, m_finished,
          m_error, cut, merged

Reader == INSTANCE HttpParser WITH inbox <- unread, pc <- stage

ReaderSpec == Reader!Init /\ [][Reader!Next]_(Reader!vars)

Message == [keep : BOOLEAN, body : BOOLEAN]

\* The text of the character that ends a token.
Ending == ""

\* What messages are made of.
Words == {Reader!Url[i] : i \in 1..3} \cup {Reader!Name[i] : i \in 1..2}
           \cup {Reader!Body[i] : i \in 1..2} \cup {"keep-", "alive", "close", ""}
Byte == [tok : {"url", "status", "field", "value", "headers", "body"}, of : Nat, text : Words]

\* Where the headers of a message end, and where the message ends: path, name
\* and value have a character each that ends them.
ValueLength(m) == IF m.keep THEN 2 ELSE 1
HeadersEnd(m) == 9 + ValueLength(m)
MessageEnd(m) == IF m.body THEN HeadersEnd(m) + 2 ELSE HeadersEnd(m)

First(k) == IF k = "request" THEN "url" ELSE "status"

\* One byte of a message after another.
TokOf(k, m, p) ==
    IF p <= 4 THEN First(k) ELSE IF p <= 7 THEN "field"
    ELSE IF p < HeadersEnd(m) THEN "value" ELSE IF p = HeadersEnd(m) THEN "headers" ELSE "body"
EndedBy(texts) == Append(texts, Ending)
TextOf(m, p) ==
    IF p <= 4 THEN EndedBy(Reader!Url)[p] ELSE IF p <= 7 THEN EndedBy(Reader!Name)[p - 4]
    ELSE IF p < HeadersEnd(m) THEN EndedBy(Reader!Value(m.keep))[p - 7]
    ELSE IF p = HeadersEnd(m) THEN Ending ELSE Reader!Body[p - HeadersEnd(m)]
ByteAt(k, m, i, p) == [tok |-> TokOf(k, m, p), of |-> i, text |-> TextOf(m, p)]

\* The texts of a token as the model writes them.
LEMMA TextsAre ==
    /\ Len(Reader!Url) = 3 /\ Len(Reader!Name) = 2 /\ Len(Reader!Body) = 2
    /\ Reader!Url[1] = "/a" /\ Reader!Url[2] = "/b" /\ Reader!Url[3] = "c"
    /\ \A keep \in BOOLEAN : Len(Reader!Value(keep)) = IF keep THEN 2 ELSE 1
    /\ Reader!Url \in Seq(Words) /\ Reader!Name \in Seq(Words) /\ Reader!Body \in Seq(Words)
    /\ \A keep \in BOOLEAN : Reader!Value(keep) \in Seq(Words)
    /\ Reader!Value(TRUE) # Reader!Value(FALSE)
    /\ \A p \in 1..2 : Reader!Body[p] # Ending /\ Reader!Name[p] # Ending
<1>1. ASSUME NEW a, NEW b, NEW c
      PROVE  Len(<<a, b, c>>) = 3 /\ <<a, b, c>>[1] = a /\ <<a, b, c>>[2] = b /\ <<a, b, c>>[3] = c
  OBVIOUS
<1>2. ASSUME NEW a, NEW b
      PROVE  Len(<<a, b>>) = 2 /\ <<a, b>>[1] = a /\ <<a, b>>[2] = b
  OBVIOUS
<1>3. ASSUME NEW a
      PROVE  Len(<<a>>) = 1 /\ <<a>>[1] = a
  OBVIOUS
<1>4. ASSUME NEW S, NEW a \in S, NEW b \in S, NEW c \in S
      PROVE  <<a, b, c>> \in Seq(S) /\ <<a, b>> \in Seq(S) /\ <<a>> \in Seq(S)
  OBVIOUS
<1>5. Reader!Url[1] = "/a" /\ Reader!Url[2] = "/b" /\ Reader!Url[3] = "c" /\ Len(Reader!Url) = 3
  BY Zenon, <1>1 DEF Reader!Url
<1>6. Reader!Name[1] = "connec" /\ Reader!Name[2] = "tion" /\ Len(Reader!Name) = 2
  BY Zenon, <1>2 DEF Reader!Name
<1>7. Reader!Body[1] = "x" /\ Reader!Body[2] = "y" /\ Len(Reader!Body) = 2
  BY Zenon, <1>2 DEF Reader!Body
<1>8. 1 \in 1..3 /\ 2 \in 1..3 /\ 3 \in 1..3 /\ 1 \in 1..2 /\ 2 \in 1..2
  OBVIOUS
<1>9. /\ "/a" \in Words /\ "/b" \in Words /\ "c" \in Words
      /\ "connec" \in Words /\ "tion" \in Words /\ "x" \in Words /\ "y" \in Words
      /\ "keep-" \in Words /\ "alive" \in Words /\ "close" \in Words
  BY Zenon, <1>5, <1>6, <1>7, <1>8 DEF Words
<1>10. Reader!Url \in Seq(Words) /\ Reader!Name \in Seq(Words) /\ Reader!Body \in Seq(Words)
  BY Zenon, <1>4, <1>9 DEF Reader!Url, Reader!Name, Reader!Body
<1>11. /\ Reader!Value(TRUE) = <<"keep-", "alive">> /\ Reader!Value(FALSE) = <<"close">>
       /\ Reader!Value(TRUE) \in Seq(Words) /\ Reader!Value(FALSE) \in Seq(Words)
       /\ Len(Reader!Value(TRUE)) = 2 /\ Len(Reader!Value(FALSE)) = 1
  BY Zenon, <1>2, <1>3, <1>4, <1>9 DEF Reader!Value
<1>12. Reader!Value(TRUE) # Reader!Value(FALSE)
  <2>1. 2 # 1
    OBVIOUS
  <2>2. QED
    BY Zenon, <1>11, <2>1
<1>13. \A keep \in BOOLEAN : Len(Reader!Value(keep)) = IF keep THEN 2 ELSE 1
  BY Zenon, <1>11
<1>14. \A keep \in BOOLEAN : Reader!Value(keep) \in Seq(Words)
  BY Zenon, <1>11
<1>15. \A p \in 1..2 : Reader!Body[p] # Ending /\ Reader!Name[p] # Ending
  <2>1. \A p \in 1..2 : p = 1 \/ p = 2
    OBVIOUS
  <2>2. /\ Reader!Body[1] # Ending /\ Reader!Body[2] # Ending
        /\ Reader!Name[1] # Ending /\ Reader!Name[2] # Ending
    BY Zenon, <1>6, <1>7 DEF Ending
  <2>3. QED
    BY Zenon, <2>1, <2>2
<1>16. QED
  BY Zenon, <1>5, <1>6, <1>7, <1>10, <1>12, <1>13, <1>14, <1>15

\* The character that ends a token comes after its texts, and is none of them.
LEMMA EndedIs ==
    ASSUME NEW w \in Seq(Words)
    PROVE  /\ EndedBy(w) \in Seq(Words) /\ Len(EndedBy(w)) = Len(w) + 1
           /\ EndedBy(w)[Len(w) + 1] = Ending
           /\ \A p \in 1..Len(w) : EndedBy(w)[p] = w[p]
<1>1. Ending \in Words
  BY Zenon DEF Words, Ending
<1>2. QED
  BY <1>1 DEF EndedBy

LEMMA TokenIs ==
    ASSUME NEW tok \in {"url", "status", "field", "value", "headers", "body"}, NEW of \in Nat,
           NEW texts \in Seq(Words)
    PROVE  /\ Reader!Token(tok, of, texts) \in Seq(Byte)
           /\ Len(Reader!Token(tok, of, texts)) = Len(texts)
           /\ \A p \in 1..Len(texts) :
                Reader!Token(tok, of, texts)[p] = [tok |-> tok, of |-> of, text |-> texts[p]]
<1> DEFINE byte(p) == [tok |-> tok, of |-> of, text |-> texts[p]]
<1>1. \A p \in 1..Len(texts) : texts[p] \in Words
  OBVIOUS
<1>2. \A p \in 1..Len(texts) : byte(p) \in Byte
  BY <1>1 DEF Byte
<1>3. Reader!Token(tok, of, texts) = [p \in 1..Len(texts) |-> byte(p)]
  BY Zenon DEF Reader!Token
<1>4. Len(texts) \in Nat
  OBVIOUS
<1> HIDE DEF byte
<1>5. /\ [p \in 1..Len(texts) |-> byte(p)] \in Seq(Byte)
      /\ Len([p \in 1..Len(texts) |-> byte(p)]) = Len(texts)
  BY <1>2, <1>4
<1>6. QED
  BY Zenon, <1>3, <1>5 DEF byte

LEMMA EndsAre ==
    ASSUME NEW m \in Message
    PROVE  /\ ValueLength(m) \in 1..2 /\ ValueLength(m) = Len(Reader!Value(m.keep))
           /\ HeadersEnd(m) = 9 + ValueLength(m) /\ HeadersEnd(m) \in 10..11
           /\ MessageEnd(m) = IF m.body THEN HeadersEnd(m) + 2 ELSE HeadersEnd(m)
           /\ MessageEnd(m) \in HeadersEnd(m)..13 /\ MessageEnd(m) \in Nat
           /\ m.keep \in BOOLEAN /\ m.body \in BOOLEAN /\ Reader!Value(m.keep) \in Seq(Words)
<1>1. m.keep \in BOOLEAN /\ m.body \in BOOLEAN
  BY DEF Message
<1>2. Len(Reader!Value(m.keep)) = (IF m.keep THEN 2 ELSE 1) /\ Reader!Value(m.keep) \in Seq(Words)
  BY Zenon, <1>1, TextsAre
<1>3. ValueLength(m) = Len(Reader!Value(m.keep))
  BY Zenon, <1>2 DEF ValueLength
<1>4. ValueLength(m) \in 1..2
  BY <1>1 DEF ValueLength
<1>5. HeadersEnd(m) = 9 + ValueLength(m) /\ HeadersEnd(m) \in 10..11
  BY <1>4 DEF HeadersEnd
<1>6. MessageEnd(m) = (IF m.body THEN HeadersEnd(m) + 2 ELSE HeadersEnd(m))
  BY Zenon DEF MessageEnd
<1> DEFINE e == MessageEnd(m)
           h == HeadersEnd(m)
<1>7. h \in 10..11 /\ e = IF m.body THEN h + 2 ELSE h
  BY Zenon, <1>5, <1>6
<1> HIDE DEF e, h
<1>8. e \in h..13 /\ e \in Nat
  BY <1>1, <1>7
<1>9. QED
  BY Zenon, <1>1, <1>2, <1>3, <1>4, <1>5, <1>6, <1>8 DEF e, h

\* A message is its tokens.
LEMMA BytesAre ==
    ASSUME NEW k \in {"request", "response"}, NEW m \in Message, NEW i \in Nat
    PROVE  /\ Reader!Bytes(k, m, i) \in Seq(Byte)
           /\ Len(Reader!Bytes(k, m, i)) = MessageEnd(m)
           /\ \A p \in 1..MessageEnd(m) : Reader!Bytes(k, m, i)[p] = ByteAt(k, m, i, p)
<1> DEFINE f == First(k)
           path == EndedBy(Reader!Url)
           name == EndedBy(Reader!Name)
           value == EndedBy(Reader!Value(m.keep))
           u == Reader!Token(f, i, path)
           n == Reader!Token("field", i, name)
           v == Reader!Token("value", i, value)
           h == Reader!Mark("headers", i)
           b == IF m.body THEN Reader!Token("body", i, Reader!Body) ELSE <<>>
           V == ValueLength(m)
           H == HeadersEnd(m)
           E == MessageEnd(m)
<1>1. f \in {"url", "status"} /\ f \in {"url", "status", "field", "value", "headers", "body"}
  BY DEF First
<1>2. /\ V \in 1..2 /\ V = Len(Reader!Value(m.keep)) /\ H = 9 + V
      /\ E = (IF m.body THEN H + 2 ELSE H) /\ m.body \in BOOLEAN
      /\ Reader!Value(m.keep) \in Seq(Words)
  BY Zenon, EndsAre
<1>3. /\ u \in Seq(Byte) /\ Len(u) = 4
      /\ \A p \in 1..4 : u[p] = [tok |-> f, of |-> i, text |-> path[p]]
  <2>1. path \in Seq(Words) /\ Len(path) = 4
    <3>1. Reader!Url \in Seq(Words) /\ Len(Reader!Url) = 3
      BY Zenon, TextsAre
    <3>2. 3 + 1 = 4
      OBVIOUS
    <3>3. QED
      BY Zenon, <3>1, <3>2, EndedIs
  <2>2. f \in {"url", "status", "field", "value", "headers", "body"}
    BY Zenon, <1>1
  <2> HIDE DEF f, path
  <2> DEFINE L == Len(path)
  <2>3. /\ u \in Seq(Byte) /\ Len(u) = L
        /\ \A p \in 1..L : u[p] = [tok |-> f, of |-> i, text |-> path[p]]
    <3> DEFINE S == {"url", "status", "field", "value", "headers", "body"}
               fine(x) == /\ Reader!Token(x, i, path) \in Seq(Byte)
                          /\ Len(Reader!Token(x, i, path)) = L
                          /\ \A p \in 1..L : Reader!Token(x, i, path)[p]
                                            = [tok |-> x, of |-> i, text |-> path[p]]
    <3>1. ASSUME NEW x \in S
          PROVE  fine(x)
      BY Zenon, <2>1, TokenIs
    <3>2. f \in S
      BY Zenon, <2>2
    <3> HIDE DEF S, fine
    <3>3. fine(f)
      BY Zenon, <3>1, <3>2
    <3>4. QED
      BY Zenon, <3>3 DEF fine
  <2>4. L = 4
    BY Zenon, <2>1
  <2> HIDE DEF L, u
  <2>5. QED
    BY Zenon, <2>3, <2>4
<1>4. /\ n \in Seq(Byte) /\ Len(n) = 3
      /\ \A p \in 1..3 : n[p] = [tok |-> "field", of |-> i, text |-> name[p]]
  <2>1. name \in Seq(Words) /\ Len(name) = 3
    <3>1. Reader!Name \in Seq(Words) /\ Len(Reader!Name) = 2
      BY Zenon, TextsAre
    <3>2. 2 + 1 = 3
      OBVIOUS
    <3>3. QED
      BY Zenon, <3>1, <3>2, EndedIs
  <2> HIDE DEF name
  <2> DEFINE L == Len(name)
  <2>2. /\ n \in Seq(Byte) /\ Len(n) = L
        /\ \A p \in 1..L : n[p] = [tok |-> "field", of |-> i, text |-> name[p]]
    <3> HIDE DEF f, path, value, u, v, h, b, V, H, E
    <3>1. "field" \in {"url", "status", "field", "value", "headers", "body"}
      OBVIOUS
    <3>2. name \in Seq(Words)
      BY Zenon, <2>1
    <3>3. QED
      BY Zenon, <3>1, <3>2, TokenIs
  <2>3. L = 3
    BY Zenon, <2>1
  <2> HIDE DEF L, n
  <2>4. QED
    BY Zenon, <2>2, <2>3
<1>5. /\ v \in Seq(Byte) /\ Len(v) = V + 1
      /\ \A p \in 1..(V + 1) : v[p] = [tok |-> "value", of |-> i, text |-> value[p]]
  <2>1. value \in Seq(Words) /\ Len(value) = V + 1
    BY Zenon, <1>2, EndedIs
  <2> HIDE DEF value
  <2> DEFINE L == Len(value)
  <2>2. /\ v \in Seq(Byte) /\ Len(v) = L
        /\ \A p \in 1..L : v[p] = [tok |-> "value", of |-> i, text |-> value[p]]
    <3> HIDE DEF f, path, name, u, n, h, b, V, H, E
    <3>1. "value" \in {"url", "status", "field", "value", "headers", "body"}
      OBVIOUS
    <3>2. value \in Seq(Words)
      BY Zenon, <2>1
    <3>3. QED
      BY Zenon, <3>1, <3>2, TokenIs
  <2>3. L = V + 1
    BY Zenon, <2>1
  <2> HIDE DEF L, v
  <2>4. QED
    BY Zenon, <2>2, <2>3
<1>6. h \in Seq(Byte) /\ Len(h) = 1 /\ h[1] = [tok |-> "headers", of |-> i, text |-> Ending]
  <2>1. Ending \in Words
    BY Zenon DEF Words, Ending
  <2>2. [tok |-> "headers", of |-> i, text |-> Ending] \in Byte
    BY <2>1 DEF Byte
  <2> DEFINE x == [tok |-> "headers", of |-> i, text |-> Ending]
  <2>3. h = <<x>>
    BY Zenon DEF Reader!Mark, Ending
  <2>4. x \in Byte
    BY <2>2
  <2> HIDE DEF x, h
  <2>5. h \in Seq(Byte) /\ Len(h) = 1 /\ h[1] = x
    BY <2>3, <2>4
  <2>6. QED
    BY Zenon, <2>5 DEF x
<1>7. /\ b \in Seq(Byte) /\ Len(b) = IF m.body THEN 2 ELSE 0
      /\ m.body => \A p \in 1..2 : b[p] = [tok |-> "body", of |-> i, text |-> Reader!Body[p]]
  <2>1. CASE m.body
    <3> DEFINE w == Reader!Token("body", i, Reader!Body)
    <3>1. Reader!Body \in Seq(Words) /\ Len(Reader!Body) = 2
      BY Zenon, TextsAre
    <3>2. /\ w \in Seq(Byte) /\ Len(w) = Len(Reader!Body)
          /\ \A p \in 1..Len(Reader!Body) : w[p] = [tok |-> "body", of |-> i, text |-> Reader!Body[p]]
      BY Zenon, <3>1, TokenIs
    <3>3. b = w
      BY Zenon, <2>1
    <3> HIDE DEF w, b
    <3>4. QED
      BY Zenon, <2>1, <3>1, <3>2, <3>3
  <2>2. CASE ~m.body
    BY <2>2
  <2>3. QED
    BY <2>1, <2>2
<1>8. Reader!Bytes(k, m, i) = u \o n \o v \o h \o b
  BY Zenon DEF Reader!Bytes, Reader!Ended, EndedBy, Ending, First
<1> HIDE DEF f, path, name, value, u, n, v, h, b, V, H, E
<1> DEFINE un == u \o n
           unv == un \o v
           unvh == unv \o h
           all == unvh \o b
<1>9. /\ un \in Seq(Byte) /\ Len(un) = 7
      /\ \A p \in 1..7 : un[p] = IF p <= 4 THEN u[p] ELSE n[p - 4]
  <2>1. /\ un \in Seq(Byte) /\ Len(un) = Len(u) + Len(n)
        /\ \A p \in 1..(Len(u) + Len(n)) :
             un[p] = IF p <= Len(u) THEN u[p] ELSE n[p - Len(u)]
    BY Zenon, <1>3, <1>4, ConcatProperties
  <2>2. Len(u) = 4 /\ Len(n) = 3
    BY Zenon, <1>3, <1>4
  <2>3. 4 + 3 = 7
    OBVIOUS
  <2>4. QED
    BY Zenon, <2>1, <2>2, <2>3
<1> HIDE DEF un
<1>10. /\ unv \in Seq(Byte) /\ Len(unv) = 8 + V
       /\ \A p \in 1..(8 + V) : unv[p] = IF p <= 7 THEN un[p] ELSE v[p - 7]
  <2>1. /\ unv \in Seq(Byte) /\ Len(unv) = Len(un) + Len(v)
        /\ \A p \in 1..(Len(un) + Len(v)) :
             unv[p] = IF p <= Len(un) THEN un[p] ELSE v[p - Len(un)]
    BY Zenon, <1>9, <1>5, ConcatProperties
  <2>2. Len(un) = 7 /\ Len(v) = V + 1
    BY Zenon, <1>5, <1>9
  <2>3. 7 + (V + 1) = 8 + V
    BY <1>2
  <2>4. QED
    BY Zenon, <2>1, <2>2, <2>3
<1> HIDE DEF unv
<1>11. /\ unvh \in Seq(Byte) /\ Len(unvh) = H
       /\ \A p \in 1..H : unvh[p] = IF p <= 8 + V THEN unv[p] ELSE h[p - (8 + V)]
  <2>1. /\ unvh \in Seq(Byte) /\ Len(unvh) = Len(unv) + Len(h)
        /\ \A p \in 1..(Len(unv) + Len(h)) :
             unvh[p] = IF p <= Len(unv) THEN unv[p] ELSE h[p - Len(unv)]
    BY Zenon, <1>10, <1>6, ConcatProperties
  <2>2. Len(h) = 1
    BY Zenon, <1>6
  <2>3. Len(unv) = 8 + V /\ Len(unv) + Len(h) = H
    BY <1>2, <1>10, <2>2
  <2>4. QED
    BY Zenon, <2>1, <2>3
<1> HIDE DEF unvh
<1>12. /\ all \in Seq(Byte) /\ Len(all) = E
       /\ \A p \in 1..E : all[p] = IF p <= H THEN unvh[p] ELSE b[p - H]
  <2>1. /\ all \in Seq(Byte) /\ Len(all) = Len(unvh) + Len(b)
        /\ \A p \in 1..(Len(unvh) + Len(b)) :
             all[p] = IF p <= Len(unvh) THEN unvh[p] ELSE b[p - Len(unvh)]
    BY Zenon, <1>11, <1>7, ConcatProperties
  <2>2. Len(unvh) = H /\ Len(b) = (IF m.body THEN 2 ELSE 0) /\ m.body \in BOOLEAN
        /\ E = (IF m.body THEN H + 2 ELSE H) /\ H \in Nat
    <3>1. H \in Nat
      BY <1>2
    <3>2. QED
      BY Zenon, <1>2, <1>7, <1>11, <3>1
  <2> HIDE DEF all
  <2>3. Len(unvh) + Len(b) = E
    <3>1. CASE m.body
      <4>1. Len(unvh) = H /\ Len(b) = 2 /\ E = H + 2
        BY Zenon, <2>2, <3>1
      <4>2. QED
        BY Zenon, <4>1
    <3>2. CASE ~m.body
      <4>1. Len(unvh) = H /\ Len(b) = 0 /\ E = H
        BY Zenon, <2>2, <3>2
      <4>2. H + 0 = H
        BY <2>2
      <4>3. QED
        BY Zenon, <4>1, <4>2
    <3>3. QED
      BY <3>1, <3>2
  <2>4. QED
    BY Zenon, <2>1, <2>2, <2>3
<1>13. all = Reader!Bytes(k, m, i)
  BY Zenon, <1>8 DEF all, unvh, unv, un
<1> HIDE DEF all
<1>14. ASSUME NEW p \in 1..E
       PROVE  all[p] = ByteAt(k, m, i, p)
  <2>1. CASE p <= 4
    <3>0. p <= H /\ p \in 1..H /\ p <= 8 + V /\ p \in 1..(8 + V) /\ p <= 7 /\ p \in 1..7 /\ p <= 4 /\ p \in 1..4
      BY <1>2, <2>1
    <3>1. all[p] = u[p] /\ p \in 1..4
      <4>1. all[p] = unvh[p]
        BY Zenon, <1>12, <3>0
      <4>2. unvh[p] = unv[p]
        BY Zenon, <1>11, <3>0
      <4>3. unv[p] = un[p]
        BY Zenon, <1>10, <3>0
      <4>4. un[p] = u[p]
        BY Zenon, <1>9, <3>0
      <4>5. QED
        BY Zenon, <3>0, <4>1, <4>2, <4>3, <4>4
    <3>2. QED
      BY Zenon, <1>3, <2>1, <3>1 DEF ByteAt, TokOf, TextOf, f, path
  <2>2. CASE ~(p <= 4) /\ p <= 7
    <3>0. p <= H /\ p \in 1..H /\ p <= 8 + V /\ p \in 1..(8 + V) /\ p <= 7 /\ p \in 1..7 /\ ~(p <= 4) /\ p - 4 \in 1..3
      BY <1>2, <2>2
    <3>1. all[p] = n[p - 4] /\ p - 4 \in 1..3
      <4>1. all[p] = unvh[p]
        BY Zenon, <1>12, <3>0
      <4>2. unvh[p] = unv[p]
        BY Zenon, <1>11, <3>0
      <4>3. unv[p] = un[p]
        BY Zenon, <1>10, <3>0
      <4>4. un[p] = n[p - 4]
        BY Zenon, <1>9, <3>0
      <4>5. QED
        BY Zenon, <3>0, <4>1, <4>2, <4>3, <4>4
    <3>2. QED
      BY Zenon, <1>4, <2>2, <3>1 DEF ByteAt, TokOf, TextOf, name
  <2>3. CASE ~(p <= 4) /\ ~(p <= 7) /\ p < H
    <3>0. p <= H /\ p \in 1..H /\ p <= 8 + V /\ p \in 1..(8 + V) /\ ~(p <= 7) /\ p - 7 \in 1..(V + 1)
      BY <1>2, <2>3
    <3>1. all[p] = v[p - 7] /\ p - 7 \in 1..(V + 1)
      <4>1. all[p] = unvh[p]
        BY Zenon, <1>12, <3>0
      <4>2. unvh[p] = unv[p]
        BY Zenon, <1>11, <3>0
      <4>3. unv[p] = v[p - 7]
        BY Zenon, <1>10, <3>0
      <4>4. QED
        BY Zenon, <3>0, <4>1, <4>2, <4>3
    <3>2. QED
      BY Zenon, <1>5, <2>3, <3>1 DEF ByteAt, TokOf, TextOf, H, value
  <2>4. CASE ~(p <= 4) /\ ~(p <= 7) /\ ~(p < H) /\ p = H
    <3>0. p <= H /\ p \in 1..H /\ ~(p <= 8 + V) /\ p - (8 + V) = 1
      BY <1>2, <2>4
    <3>1. all[p] = h[1]
      <4>1. all[p] = unvh[p]
        BY Zenon, <1>12, <3>0
      <4>2. unvh[p] = h[p - (8 + V)]
        BY Zenon, <1>11, <3>0
      <4>3. QED
        BY Zenon, <3>0, <4>1, <4>2
    <3>2. QED
      BY Zenon, <1>6, <2>4, <3>1 DEF ByteAt, TokOf, TextOf, H
  <2>5. CASE ~(p <= 4) /\ ~(p <= 7) /\ ~(p < H) /\ p # H
    <3>0. ~(p <= H) /\ p - H \in 1..2 /\ m.body
      BY <1>2, <2>5
    <3>1. all[p] = b[p - H] /\ p - H \in 1..2 /\ m.body
      <4>1. all[p] = b[p - H]
        BY Zenon, <1>12, <3>0
      <4>2. QED
        BY Zenon, <3>0, <4>1
    <3>2. QED
      BY Zenon, <1>7, <2>5, <3>1 DEF ByteAt, TokOf, TextOf, H
  <2>6. QED
    BY Zenon, <2>1, <2>2, <2>3, <2>4, <2>5
<1>15. QED
  BY Zenon, <1>12, <1>13, <1>14 DEF E

-----------------------------------------------------------------------------
(* What the peer sends.                                                    *)

\* What is said of the whole stream: the bytes of the first message, after
\* them those of others, and of every path and header name what the callbacks
\* need.
Holds(s, k, m) ==
    /\ s \in Seq(Byte) /\ MessageEnd(m) <= Len(s)
    /\ \A p \in 1..MessageEnd(m) : s[p] = ByteAt(k, m, 1, p)
    /\ \A p \in (MessageEnd(m) + 1)..Len(s) : s[p].of > 1
    /\ MessageEnd(m) < Len(s) => s[MessageEnd(m) + 1].tok = First(k)

NameTexts == {Reader!Name[i] : i \in 1..2}

\* A path has three texts before the character that ends it, and only the
\* first two begin with a slash.  A name's last character ends it.
Paths(s) ==
    /\ \A p \in 1..Len(s) : s[p].tok = "url" =>
         /\ \E d \in 0..3 : /\ (p + d) + 1 <= Len(s) /\ s[(p + d) + 1].tok # "url"
                            /\ s[p + d].text = Ending
         /\ s[p].text \in {"/a", "/b"} \/ (p > 1 /\ s[p - 1].tok = "url")
    /\ \A p \in 1..Len(s) : s[p].tok = "field" =>
         \/ s[p].text \in NameTexts
         \/ s[p].text = Ending /\ p + 1 <= Len(s) /\ s[p + 1].tok # "field"

Several(s, n) == \A p \in 1..Len(s) : s[p].of \in 1..n

\* One message has it.
LEMMA OneHolds ==
    ASSUME NEW k \in {"request", "response"}, NEW m \in Message, NEW i \in Nat \ {0}
    PROVE  /\ Paths(Reader!Bytes(k, m, i))
           /\ Several(Reader!Bytes(k, m, i), i)
           /\ \A p \in 1..Len(Reader!Bytes(k, m, i)) : Reader!Bytes(k, m, i)[p].of = i
           /\ Len(Reader!Bytes(k, m, i)) \in 10..13
           /\ Reader!Bytes(k, m, i)[1].tok = First(k)
           /\ i = 1 => Holds(Reader!Bytes(k, m, i), k, m)
<1> DEFINE b == Reader!Bytes(k, m, i)
           E == MessageEnd(m)
<1>1. b \in Seq(Byte) /\ Len(b) = E /\ \A p \in 1..E : b[p] = ByteAt(k, m, i, p)
  BY Zenon, BytesAre
<1>2. HeadersEnd(m) \in 10..11 /\ E \in HeadersEnd(m)..13 /\ E \in Nat
  BY Zenon, EndsAre
<1> HIDE DEF b, E
<1>3. \A p : ByteAt(k, m, i, p).tok = TokOf(k, m, p) /\ ByteAt(k, m, i, p).of = i
             /\ ByteAt(k, m, i, p).text = TextOf(m, p)
  BY DEF ByteAt
<1>4. \A p \in 1..E : b[p].tok = TokOf(k, m, p) /\ b[p].of = i /\ b[p].text = TextOf(m, p)
  BY Zenon, <1>1, <1>3
<1>5. First(k) \in {"url", "status"}
  BY DEF First
<1>6. ASSUME NEW p \in 1..E, b[p].tok = "url"
      PROVE  /\ \E d \in 0..3 : /\ (p + d) + 1 <= Len(b) /\ b[(p + d) + 1].tok # "url"
                                /\ b[p + d].text = Ending
             /\ b[p].text \in {"/a", "/b"} \/ (p > 1 /\ b[p - 1].tok = "url")
  <2>1. p <= 4
    <3>1. TokOf(k, m, p) = "url"
      BY Zenon, <1>4, <1>6
    <3>2. QED
      BY <3>1 DEF TokOf
  <2>2. TokOf(k, m, 5) # "url" /\ \A q : q <= 4 => TokOf(k, m, q) = First(k)
    BY DEF TokOf
  <2>3. First(k) = "url"
    BY Zenon, <1>4, <1>6, <2>1, <2>2
  <2>4. \A q : q <= 4 => TextOf(m, q) = EndedBy(Reader!Url)[q]
    BY Zenon DEF TextOf
  <2>5. /\ EndedBy(Reader!Url)[4] = Ending
        /\ EndedBy(Reader!Url)[1] = "/a" /\ EndedBy(Reader!Url)[2] = "/b"
    <3>1. Reader!Url \in Seq(Words) /\ Len(Reader!Url) = 3
      BY Zenon, TextsAre
    <3>2. 3 + 1 = 4 /\ 1 \in 1..3 /\ 2 \in 1..3
      OBVIOUS
    <3>3. QED
      BY Zenon, <3>1, <3>2, TextsAre, EndedIs
  <2>6. \E d \in 0..3 : /\ (p + d) + 1 <= Len(b) /\ b[(p + d) + 1].tok # "url"
                       /\ b[p + d].text = Ending
    <3>1. /\ 4 - p \in 0..3 /\ p + (4 - p) = 4 /\ 4 + 1 = 5 /\ 5 <= Len(b) /\ 5 \in 1..E
          /\ 4 \in 1..E /\ 4 <= 4
      BY <1>1, <1>2, <2>1
    <3>2. b[5].tok # "url" /\ b[4].text = Ending
      BY Zenon, <1>4, <2>2, <2>4, <2>5, <3>1
    <3>3. QED
      BY Zenon, <3>1, <3>2
  <2>7. b[p].text \in {"/a", "/b"} \/ (p > 1 /\ b[p - 1].tok = "url")
    <3>1. b[p].text = EndedBy(Reader!Url)[p]
      BY Zenon, <1>4, <2>1, <2>4
    <3>2. CASE p = 3 \/ p = 4
      <4>1. p > 1 /\ p - 1 \in 1..E /\ p - 1 <= 4
        BY <1>2, <3>2
      <4>2. b[p - 1].tok = "url"
        BY Zenon, <1>4, <2>2, <2>3, <4>1
      <4>3. QED
        BY Zenon, <4>1, <4>2
    <3>3. CASE p = 1 \/ p = 2
      BY Zenon, <2>5, <3>1, <3>3
    <3>4. p = 1 \/ p = 2 \/ p = 3 \/ p = 4
      BY <1>2, <2>1
    <3>5. QED
      BY Zenon, <3>2, <3>3, <3>4
  <2>8. QED
    BY Zenon, <2>6, <2>7
<1>7. ASSUME NEW p \in 1..E, b[p].tok = "field"
      PROVE  \/ b[p].text \in NameTexts
             \/ b[p].text = Ending /\ p + 1 <= Len(b) /\ b[p + 1].tok # "field"
  <2>1. TokOf(k, m, p) = "field"
    BY Zenon, <1>4, <1>7
  <2>2. ~(p <= 4) /\ p <= 7
    BY <1>5, <2>1 DEF TokOf
  <2>3. b[p].text = EndedBy(Reader!Name)[p - 4]
    BY Zenon, <1>4, <2>2 DEF TextOf
  <2>4. Reader!Name \in Seq(Words) /\ Len(Reader!Name) = 2
    BY Zenon, TextsAre
  <2>5. CASE p < 7
    <3>1. p - 4 \in 1..2
      BY <1>2, <2>2, <2>5
    <3>2. b[p].text = Reader!Name[p - 4]
      BY Zenon, <2>3, <2>4, <3>1, EndedIs
    <3>3. QED
      BY Zenon, <3>1, <3>2 DEF NameTexts
  <2>6. CASE ~(p < 7)
    <3>1. p - 4 = 2 + 1 /\ p + 1 = 8 /\ 8 <= Len(b) /\ 8 \in 1..E
      BY <1>1, <1>2, <2>2, <2>6
    <3>2. EndedBy(Reader!Name)[2 + 1] = Ending
      BY Zenon, <2>4, EndedIs
    <3>3. b[p].text = Ending
      BY Zenon, <2>3, <3>1, <3>2
    <3>4. TokOf(k, m, 8) # "field"
      BY DEF TokOf
    <3>5. QED
      BY Zenon, <1>4, <3>1, <3>3, <3>4
  <2>7. QED
    BY Zenon, <2>5, <2>6
<1>8. Paths(b)
  BY Zenon, <1>1, <1>6, <1>7 DEF Paths
<1>9. i \in 1..i
  OBVIOUS
<1>10. Several(b, i) /\ \A p \in 1..Len(b) : b[p].of = i
  BY Zenon, <1>1, <1>4, <1>9 DEF Several
<1>11. Len(b) \in 10..13 /\ 1 \in 1..E
  BY <1>1, <1>2
<1>12. b[1].tok = First(k)
  <2>1. TokOf(k, m, 1) = First(k)
    BY DEF TokOf
  <2>2. QED
    BY Zenon, <1>4, <1>11, <2>1
<1>13. ASSUME i = 1
       PROVE  Holds(b, k, m)
  <2>1. E <= Len(b) /\ (E + 1)..Len(b) = {} /\ ~(E < Len(b))
    BY <1>1, <1>2
  <2>2. QED
    BY Zenon, <1>1, <1>13, <2>1 DEF Holds, E
<1>14. QED
  BY Zenon, <1>8, <1>10, <1>11, <1>12, <1>13 DEF b

\* Another message after the stream.
LEMMA MoreHolds ==
    ASSUME NEW k \in {"request", "response"}, NEW m \in Message, NEW n \in Nat \ {0},
           NEW s, Holds(s, k, m), Paths(s), Several(s, n),
           NEW b \in Seq(Byte), Paths(b), Len(b) >= 1, b[1].tok = First(k),
           \A p \in 1..Len(b) : b[p].of = n + 1
    PROVE  Holds(s \o b, k, m) /\ Paths(s \o b) /\ Several(s \o b, n + 1)
<1> DEFINE E == MessageEnd(m)
           S == Len(s)
           B == Len(b)
           t == s \o b
<1>1. /\ s \in Seq(Byte) /\ E <= S /\ S \in Nat /\ B \in Nat /\ B >= 1 /\ E \in Nat /\ E >= 10
      /\ \A p \in (E + 1)..S : s[p].of > 1
  <2>1. E \in Nat /\ HeadersEnd(m) \in 10..11 /\ E \in HeadersEnd(m)..13
    BY Zenon, EndsAre
  <2>2. E >= 10
    BY <2>1
  <2>3. s \in Seq(Byte) /\ E <= S /\ \A p \in (E + 1)..S : s[p].of > 1
    BY Zenon DEF Holds
  <2>4. S \in Nat /\ B \in Nat /\ B >= 1
    BY <2>3
  <2>5. QED
    BY Zenon, <2>1, <2>2, <2>3, <2>4
<1>2. /\ t \in Seq(Byte) /\ Len(t) = S + B
      /\ \A p \in 1..(S + B) : t[p] = IF p <= S THEN s[p] ELSE b[p - S]
  BY Zenon, <1>1, ConcatProperties
<1> HIDE DEF E, S, B, t
<1>3. \A p \in 1..S : p \in 1..(S + B) /\ p <= S
  BY <1>1
<1>4. \A p \in 1..S : t[p] = s[p]
  BY Zenon, <1>2, <1>3
<1>5. \A p \in 1..(S + B) : p \in 1..S \/ (~(p <= S) /\ p - S \in 1..B)
  BY <1>1
<1>6. \A p \in 1..(S + B) : p \in 1..S \/ (p - S \in 1..B /\ t[p] = b[p - S])
  BY Zenon, <1>2, <1>5
<1>7. Holds(t, k, m)
  <2>1. E <= Len(t) /\ \A p \in 1..E : p \in 1..S
    BY <1>1, <1>2
  <2>2. \A p \in 1..E : t[p] = ByteAt(k, m, 1, p)
    BY Zenon, <1>4, <2>1 DEF Holds, E
  <2>3. ASSUME NEW p \in (E + 1)..(S + B)
        PROVE  t[p].of > 1
    <3>1. p \in 1..(S + B)
      BY <1>1
    <3>2. CASE p \in 1..S
      <4>1. p \in (E + 1)..S
        BY <1>1, <3>2
      <4>2. QED
        BY Zenon, <1>1, <1>4, <3>2, <4>1
    <3>3. CASE p - S \in 1..B /\ t[p] = b[p - S]
      <4>1. t[p].of = n + 1
        BY Zenon, <3>3 DEF B
      <4>2. n + 1 > 1
        OBVIOUS
      <4>3. QED
        BY Zenon, <4>1, <4>2
    <3>4. QED
      BY Zenon, <1>6, <3>1, <3>2, <3>3
  <2>4. t[E + 1].tok = First(k)
    <3>1. CASE E < S
      <4>1. E + 1 \in 1..S
        BY <1>1, <3>1
      <4>2. QED
        BY Zenon, <1>4, <3>1, <4>1 DEF Holds, E, S
    <3>2. CASE ~(E < S)
      <4>1. E + 1 \in 1..(S + B) /\ ~(E + 1 <= S) /\ (E + 1) - S = 1
        BY <1>1, <3>2
      <4>2. t[E + 1] = b[1]
        BY Zenon, <1>2, <4>1
      <4>3. QED
        BY Zenon, <4>2
    <3>3. QED
      BY Zenon, <3>1, <3>2
  <2>5. QED
    BY Zenon, <1>2, <2>1, <2>2, <2>3, <2>4 DEF Holds, E
<1>8. ASSUME NEW p \in 1..(S + B), t[p].tok = "url"
      PROVE  /\ \E d \in 0..3 : /\ (p + d) + 1 <= Len(t) /\ t[(p + d) + 1].tok # "url"
                                /\ t[p + d].text = Ending
             /\ t[p].text \in {"/a", "/b"} \/ (p > 1 /\ t[p - 1].tok = "url")
  <2>1. CASE p \in 1..S
    <3>1. t[p] = s[p]
      BY Zenon, <1>4, <2>1
    <3>2. /\ \E d \in 0..3 : /\ (p + d) + 1 <= S /\ s[(p + d) + 1].tok # "url"
                             /\ s[p + d].text = Ending
          /\ s[p].text \in {"/a", "/b"} \/ (p > 1 /\ s[p - 1].tok = "url")
      BY Zenon, <1>8, <2>1, <3>1 DEF Paths, S
    <3>3. PICK d \in 0..3 : /\ (p + d) + 1 <= S /\ s[(p + d) + 1].tok # "url"
                            /\ s[p + d].text = Ending
      BY Zenon, <3>2
    <3>4. (p + d) + 1 \in 1..S /\ p + d \in 1..S /\ (p + d) + 1 <= Len(t)
      BY <1>1, <1>2, <2>1, <3>3
    <3>5. \E e \in 0..3 : /\ (p + e) + 1 <= Len(t) /\ t[(p + e) + 1].tok # "url"
                         /\ t[p + e].text = Ending
      BY Zenon, <1>4, <3>3, <3>4
    <3>6. p > 1 => p - 1 \in 1..S
      BY <1>1, <2>1
    <3>7. t[p].text \in {"/a", "/b"} \/ (p > 1 /\ t[p - 1].tok = "url")
      BY Zenon, <1>4, <3>1, <3>2, <3>6
    <3>8. QED
      BY Zenon, <3>5, <3>7
  <2>2. CASE p - S \in 1..B /\ t[p] = b[p - S]
    <3> DEFINE q == p - S
    <3>1. /\ \E d \in 0..3 : /\ (q + d) + 1 <= B /\ b[(q + d) + 1].tok # "url"
                             /\ b[q + d].text = Ending
          /\ b[q].text \in {"/a", "/b"} \/ (q > 1 /\ b[q - 1].tok = "url")
      BY Zenon, <1>8, <2>2 DEF Paths, B
    <3>2. q \in 1..B /\ p = S + q /\ t[p] = b[q]
      BY <1>1, <2>2
    <3> HIDE DEF q
    <3>3. PICK d \in 0..3 : /\ (q + d) + 1 <= B /\ b[(q + d) + 1].tok # "url"
                            /\ b[q + d].text = Ending
      BY Zenon, <3>1
    <3>4. /\ (p + d) + 1 \in 1..(S + B) /\ ~((p + d) + 1 <= S)
          /\ ((p + d) + 1) - S = (q + d) + 1 /\ (p + d) + 1 <= Len(t)
          /\ p + d \in 1..(S + B) /\ ~(p + d <= S) /\ (p + d) - S = q + d
      BY <1>1, <1>2, <3>2, <3>3
    <3>5. \E e \in 0..3 : /\ (p + e) + 1 <= Len(t) /\ t[(p + e) + 1].tok # "url"
                         /\ t[p + e].text = Ending
      BY Zenon, <1>2, <3>3, <3>4
    <3>6. q > 1 => p > 1 /\ p - 1 \in 1..(S + B) /\ ~(p - 1 <= S) /\ (p - 1) - S = q - 1
      BY <1>1, <3>2
    <3>7. t[p].text \in {"/a", "/b"} \/ (p > 1 /\ t[p - 1].tok = "url")
      BY Zenon, <1>2, <3>1, <3>2, <3>6
    <3>8. QED
      BY Zenon, <3>5, <3>7
  <2>3. QED
    BY Zenon, <1>6, <2>1, <2>2
<1>9. ASSUME NEW p \in 1..(S + B), t[p].tok = "field"
      PROVE  \/ t[p].text \in NameTexts
             \/ t[p].text = Ending /\ p + 1 <= Len(t) /\ t[p + 1].tok # "field"
  <2>1. CASE p \in 1..S
    <3>1. t[p] = s[p]
      BY Zenon, <1>4, <2>1
    <3>2. \/ s[p].text \in NameTexts
          \/ s[p].text = Ending /\ p + 1 <= S /\ s[p + 1].tok # "field"
      BY Zenon, <1>9, <2>1, <3>1 DEF Paths, S
    <3>3. p + 1 <= S => p + 1 \in 1..S /\ p + 1 <= Len(t)
      BY <1>1, <1>2, <2>1
    <3>4. QED
      BY Zenon, <1>4, <3>1, <3>2, <3>3
  <2>2. CASE p - S \in 1..B /\ t[p] = b[p - S]
    <3> DEFINE q == p - S
    <3>1. \/ b[q].text \in NameTexts
          \/ b[q].text = Ending /\ q + 1 <= B /\ b[q + 1].tok # "field"
      BY Zenon, <1>9, <2>2 DEF Paths, B
    <3>2. q \in 1..B /\ p = S + q /\ t[p] = b[q]
      BY <1>1, <2>2
    <3> HIDE DEF q
    <3>3. q + 1 <= B => /\ p + 1 \in 1..(S + B) /\ ~(p + 1 <= S) /\ (p + 1) - S = q + 1
                        /\ p + 1 <= Len(t)
      BY <1>1, <1>2, <3>2
    <3>4. QED
      BY Zenon, <1>2, <3>1, <3>2, <3>3
  <2>3. QED
    BY Zenon, <1>6, <2>1, <2>2
<1>10. Paths(t)
  BY Zenon, <1>2, <1>8, <1>9 DEF Paths
<1>11. Several(t, n + 1)
  <2>1. \A x \in 1..n : x \in 1..(n + 1)
    OBVIOUS
  <2>2. n + 1 \in 1..(n + 1)
    OBVIOUS
  <2>3. \A p \in 1..S : s[p].of \in 1..(n + 1)
    BY Zenon, <2>1 DEF Several, S
  <2>4. \A p \in 1..B : b[p].of \in 1..(n + 1)
    BY Zenon, <2>2 DEF B
  <2>5. \A p \in 1..(S + B) : t[p].of \in 1..(n + 1)
    BY Zenon, <1>4, <1>6, <2>3, <2>4
  <2>6. QED
    BY Zenon, <1>2, <2>5 DEF Several
<1>12. QED
  BY Zenon, <1>7, <1>10, <1>11 DEF t

Stream == Reader!FlattenSeq([i \in 1..Len(messages) |-> Reader!Bytes(kind, messages[i], i)])

\* The recursion by which sequences are put together has a value.
LEMMA Flattens ==
    ASSUME NEW n \in Nat, NEW F
    PROVE  \E f : f = [i \in 1..n |-> IF i = 1 THEN F[i] ELSE f[i - 1] \o F[i]]
<1> DEFINE Good(f, j) == f = [i \in 1..j |-> IF i = 1 THEN F[i] ELSE f[i - 1] \o F[i]]
           T == {j \in Nat : \E f : Good(f, j)}
<1>1. 0 \in T
  <2>1. 1..0 = {} /\ 0 \in Nat
    OBVIOUS
  <2> DEFINE f == [i \in {} |-> 0]
  <2>2. f = [i \in 1..0 |-> IF i = 1 THEN F[i] ELSE f[i - 1] \o F[i]]
    BY <2>1
  <2>3. Good(f, 0)
    BY <2>2
  <2> HIDE DEF f, Good
  <2>4. QED
    BY Zenon, <2>1, <2>3
<1>2. ASSUME NEW j \in Nat, j \in T
      PROVE  j + 1 \in T
  <2>1. PICK f : Good(f, j)
    BY <1>2
  <2> DEFINE next == IF j + 1 = 1 THEN F[j + 1] ELSE f[j] \o F[j + 1]
             g == [i \in 1..(j + 1) |-> IF i = j + 1 THEN next ELSE f[i]]
  <2>2. ASSUME NEW i \in 1..(j + 1)
        PROVE  g[i] = IF i = 1 THEN F[i] ELSE g[i - 1] \o F[i]
    <3>1. CASE i = j + 1
      <4>1. g[i] = next
        BY Zenon, <3>1
      <4>2. CASE i = 1
        <5>1. j + 1 = 1
          BY Zenon, <3>1, <4>2
        <5>2. next = F[1]
          BY Zenon, <5>1
        <5> HIDE DEF g, next
        <5>3. QED
          BY Zenon, <4>1, <4>2, <5>2
      <4>3. CASE i # 1
        <5>1. i - 1 = j /\ i - 1 \in 1..(j + 1) /\ i - 1 # j + 1
          BY <3>1, <4>3
        <5>2. g[i - 1] = f[j]
          BY Zenon, <5>1
        <5>3. ~(j + 1 = 1)
          BY Zenon, <3>1, <4>3
        <5>4. next = f[j] \o F[j + 1]
          BY Zenon, <5>3
        <5> HIDE DEF g, next
        <5>5. g[i] = g[i - 1] \o F[i]
          BY Zenon, <3>1, <4>1, <5>2, <5>4
        <5>6. QED
          BY Zenon, <4>3, <5>5
      <4>4. QED
        BY <4>2, <4>3
    <3>2. CASE i # j + 1
      <4>1. i \in 1..j
        BY <3>2
      <4>2. g[i] = f[i]
        BY Zenon, <3>2
      <4>3. f[i] = IF i = 1 THEN F[i] ELSE f[i - 1] \o F[i]
        <5> DEFINE h == [x \in 1..j |-> IF x = 1 THEN F[x] ELSE f[x - 1] \o F[x]]
        <5>1. f = h
          BY Zenon, <2>1
        <5>2. h[i] = IF i = 1 THEN F[i] ELSE f[i - 1] \o F[i]
          BY Zenon, <4>1
        <5> HIDE DEF h
        <5>3. QED
          BY Zenon, <5>1, <5>2
      <4>4. i # 1 => i - 1 \in 1..(j + 1) /\ i - 1 # j + 1
        BY <4>1
      <4>5. i # 1 => g[i - 1] = f[i - 1]
        BY Zenon, <4>4
      <4>6. QED
        BY Zenon, <4>2, <4>3, <4>5
    <3>3. QED
      BY <3>1, <3>2
  <2>3. g = [i \in 1..(j + 1) |-> g[i]]
    OBVIOUS
  <2> HIDE DEF g
  <2>4. Good(g, j + 1)
    BY Zenon, <2>2, <2>3
  <2>5. j + 1 \in Nat
    OBVIOUS
  <2> HIDE DEF Good
  <2>6. QED
    BY Zenon, <2>4, <2>5
<1>3. Nat \subseteq T
  <2> HIDE DEF T
  <2>1. QED
    BY <1>1, <1>2, SetInduction
<1>4. n \in T
  BY Zenon, <1>3
<1>5. QED
  BY Zenon, <1>4

LEMMA StreamHolds ==
    ASSUME kind \in {"request", "response"}, messages \in Seq(Message), messages # <<>>
    PROVE  /\ Holds(Stream, kind, messages[1]) /\ Paths(Stream)
           /\ Several(Stream, Len(messages))
           /\ Len(messages) = 1 => Len(Stream) = MessageEnd(messages[1])
<1> DEFINE n == Len(messages)
           part(i) == Reader!Bytes(kind, messages[i], i)
           F == [i \in 1..n |-> part(i)]
           G == CHOOSE f : f = [i \in 1..n |-> IF i = 1 THEN F[i] ELSE f[i - 1] \o F[i]]
<1>1. n \in Nat \ {0} /\ \A i \in 1..n : messages[i] \in Message /\ i \in Nat \ {0}
  OBVIOUS
<1>2. Len(F) = n /\ n # 0
  <2> HIDE DEF part
  <2>1. Len([i \in 1..n |-> part(i)]) = n
    BY <1>1
  <2>2. QED
    BY <1>1, <2>1
<1>3. G = [i \in 1..n |-> IF i = 1 THEN F[i] ELSE G[i - 1] \o F[i]]
  <2>1. \E f : f = [i \in 1..n |-> IF i = 1 THEN F[i] ELSE f[i - 1] \o F[i]]
    <3>1. n \in Nat
      BY Zenon, <1>1
    <3> HIDE DEF F, n
    <3>2. QED
      BY Zenon, <3>1, Flattens
  <2> HIDE DEF F, n
  <2>2. QED
    BY Zenon, <2>1
<1>4. Stream = G[n]
  <2>1. Stream = Reader!FlattenSeq(F)
    BY Zenon DEF Stream
  <2> HIDE DEF F
  <2>2. Reader!FlattenSeq(F) = G[n]
    BY Zenon, <1>2 DEF Reader!FlattenSeq
  <2>3. QED
    BY Zenon, <2>1, <2>2
<1>5. \A i \in 1..n : F[i] = part(i)
  BY Zenon
<1> HIDE DEF G, n
<1>6. \A i \in 1..n : G[i] = IF i = 1 THEN part(i) ELSE G[i - 1] \o part(i)
  BY Zenon, <1>3, <1>5
<1>7. \A i \in 1..n : /\ part(i) \in Seq(Byte) /\ Paths(part(i)) /\ Several(part(i), i)
                      /\ \A p \in 1..Len(part(i)) : part(i)[p].of = i
                      /\ Len(part(i)) \in 10..13 /\ part(i)[1].tok = First(kind)
                      /\ i = 1 => Holds(part(i), kind, messages[i])
  <2>1. ASSUME NEW i \in 1..n
        PROVE  /\ part(i) \in Seq(Byte) /\ Paths(part(i)) /\ Several(part(i), i)
               /\ \A p \in 1..Len(part(i)) : part(i)[p].of = i
               /\ Len(part(i)) \in 10..13 /\ part(i)[1].tok = First(kind)
               /\ i = 1 => Holds(part(i), kind, messages[i])
    <3>1. messages[i] \in Message /\ i \in Nat \ {0} /\ i \in Nat
      BY <1>1
    <3>2. part(i) \in Seq(Byte)
      BY Zenon, <3>1, BytesAre
    <3>3. QED
      BY Zenon, <3>1, <3>2, OneHolds
  <2>2. QED
    BY Zenon, <2>1
<1> HIDE DEF part, F
<1> DEFINE Fine(j) == Holds(G[j], kind, messages[1]) /\ Paths(G[j]) /\ Several(G[j], j)
           T == {j \in Nat : j \in 1..n => Fine(j)}
<1>8. 1 \in 1..n
  BY <1>1
<1>9. 0 \in T
  BY <1>1
<1>10. ASSUME NEW j \in Nat, j \in T
       PROVE  j + 1 \in T
  <2>1. SUFFICES ASSUME j + 1 \in 1..n PROVE Fine(j + 1)
    OBVIOUS
  <2>2. CASE j = 0
    <3>1. j + 1 = 1
      BY <2>2
    <3>2. G[1] = part(1)
      BY Zenon, <1>6, <1>8
    <3>3. Fine(1)
      BY Zenon, <1>7, <1>8, <3>2
    <3>4. QED
      BY Zenon, <3>1, <3>3
  <2>3. CASE j # 0
    <3>1. j \in 1..n /\ j \in Nat \ {0} /\ j + 1 # 1 /\ (j + 1) - 1 = j
      BY <1>1, <2>1, <2>3
    <3>2. Fine(j)
      BY <1>10, <3>1
    <3>3. G[j + 1] = G[j] \o part(j + 1)
      BY Zenon, <1>6, <2>1, <3>1
    <3> DEFINE b == part(j + 1)
               s == G[j]
               m == messages[1]
    <3>4. /\ b \in Seq(Byte) /\ Paths(b) /\ b[1].tok = First(kind)
          /\ \A p \in 1..Len(b) : b[p].of = j + 1
      BY Zenon, <1>7, <2>1
    <3>5. Len(b) >= 1
      <4>1. Len(b) \in 10..13
        BY Zenon, <1>7, <2>1
      <4> HIDE DEF b
      <4>2. QED
        BY <4>1
    <3>6. m \in Message
      BY Zenon, <1>1, <1>8
    <3>7. Holds(s, kind, m) /\ Paths(s) /\ Several(s, j)
      BY Zenon, <3>2
    <3> HIDE DEF b, s, m
    <3>8. Holds(s \o b, kind, m) /\ Paths(s \o b) /\ Several(s \o b, j + 1)
      BY Zenon, <3>1, <3>4, <3>5, <3>6, <3>7, MoreHolds
    <3>9. QED
      BY Zenon, <3>3, <3>8 DEF b, s, m
  <2>4. QED
    BY <2>2, <2>3
<1>11. Nat \subseteq T
  <2> HIDE DEF T
  <2>1. QED
    BY <1>9, <1>10, SetInduction
<1>12. n \in T /\ n \in 1..n
  BY <1>1, <1>11
<1>13. Fine(n)
  BY Zenon, <1>12
<1>14. ASSUME n = 1
       PROVE  Len(Stream) = MessageEnd(messages[1])
  <2>1. Stream = part(1)
    BY Zenon, <1>4, <1>6, <1>8, <1>14
  <2>2. messages[1] \in Message /\ 1 \in Nat
    BY Zenon, <1>1, <1>8
  <2>3. QED
    BY Zenon, <2>1, <2>2, BytesAre DEF part
<1>15. QED
  BY Zenon, <1>4, <1>13, <1>14 DEF n

-----------------------------------------------------------------------------
(* The inductive invariant of HttpParser.                                  *)

\* How many bytes the callbacks have seen, and how many have been read.
Given == Len(Stream) - Len(chunk) - Len(unread)
Got == Len(Stream) - Len(unread)

\* Where a piece begins or ends inside a token, the token is cut.
CutIn(s, c, p) == p > 0 /\ p < Len(s) /\ s[p].tok = s[p + 1].tok => s[p].tok \in c
CutAt(p) == CutIn(Stream, cut, p)

Position ==
    /\ chunk \in Seq(Byte) /\ unread \in Seq(Byte) /\ Given >= 0
    /\ \A q \in 1..Len(chunk) : chunk[q] = Stream[Given + q]
    /\ \A q \in 1..Len(unread) : unread[q] = Stream[Got + q]
    /\ CutAt(Given) /\ CutAt(Got)

\* What m_data has of the first message, as long as no other has come.
FilledBy(k, m, l, c, g, done, d, name) ==
    /\ done => g = MessageEnd(m)
    /\ ~done => g < MessageEnd(m) \/ (g = MessageEnd(m) /\ g = l)
    /\ d.body = SubSeq(Reader!Body, 1, g - HeadersEnd(m))
    /\ k = "request" /\ "url" \notin c /\ g > 0 => d.path = Reader!Url
    /\ c \cap {"field", "value"} = {} =>
         /\ g >= 7 => name = Reader!Name
         /\ g <= 7 => d.headers = [n \in {} |-> <<>>]
         /\ g > 7 => d.headers = [n \in {Reader!Name} |-> Reader!Value(m.keep)]
Filled == FilledBy(kind, messages[1], Len(Stream), cut, Given, m_finished, m_data, m_field)

Data(d) == d = [path |-> d.path, headers |-> d.headers, body |-> d.body, close |-> d.close]

Sending ==
    /\ kind \in {"request", "response"}
    /\ messages \in Seq(Message) /\ messages # <<>>
    /\ kind = "response" => \A i \in 1..(Len(messages) - 1) : messages[i].body

ReaderTypes ==
    /\ stage \in {"read", "execute", "done", "failed"}
    /\ Data(m_data) /\ m_data.close \in BOOLEAN /\ Len(m_data.path) \in 1..3
    /\ m_field \in Seq(NameTexts)

ReaderInv ==
    /\ Sending /\ ReaderTypes
    /\ stage \in {"read", "execute"} => Position /\ (~merged /\ ~m_error => Filled)
    /\ stage = "read" => chunk = <<>> /\ ~m_error /\ ~m_finished
    /\ Reader!MessageAsSent

LEMMA ExceptPath ==
    ASSUME NEW d, Data(d), NEW x
    PROVE  /\ Data([d EXCEPT !.path = x]) /\ [d EXCEPT !.path = x].path = x
           /\ [d EXCEPT !.path = x].headers = d.headers /\ [d EXCEPT !.path = x].body = d.body
           /\ [d EXCEPT !.path = x].close = d.close
<1> DEFINE e == [path |-> d.path, headers |-> d.headers, body |-> d.body, close |-> d.close]
           y == [path |-> x, headers |-> d.headers, body |-> d.body, close |-> d.close]
<1>1. d = e
  BY DEF Data
<1>2. [e EXCEPT !.path = x] = y
  OBVIOUS
<1>3. Data(y) /\ y.path = x /\ y.headers = d.headers /\ y.body = d.body /\ y.close = d.close
  BY DEF Data
<1> HIDE DEF e, y
<1>4. [d EXCEPT !.path = x] = y
  BY Zenon, <1>1, <1>2
<1>5. QED
  BY Zenon, <1>3, <1>4

LEMMA ExceptHeaders ==
    ASSUME NEW d, Data(d), NEW x
    PROVE  /\ Data([d EXCEPT !.headers = x]) /\ [d EXCEPT !.headers = x].path = d.path
           /\ [d EXCEPT !.headers = x].headers = x /\ [d EXCEPT !.headers = x].body = d.body
           /\ [d EXCEPT !.headers = x].close = d.close
<1> DEFINE e == [path |-> d.path, headers |-> d.headers, body |-> d.body, close |-> d.close]
           y == [path |-> d.path, headers |-> x, body |-> d.body, close |-> d.close]
<1>1. d = e
  BY DEF Data
<1>2. [e EXCEPT !.headers = x] = y
  OBVIOUS
<1>3. Data(y) /\ y.path = d.path /\ y.headers = x /\ y.body = d.body /\ y.close = d.close
  BY DEF Data
<1> HIDE DEF e, y
<1>4. [d EXCEPT !.headers = x] = y
  BY Zenon, <1>1, <1>2
<1>5. QED
  BY Zenon, <1>3, <1>4

LEMMA ExceptBody ==
    ASSUME NEW d, Data(d), NEW x
    PROVE  /\ Data([d EXCEPT !.body = x]) /\ [d EXCEPT !.body = x].path = d.path
           /\ [d EXCEPT !.body = x].headers = d.headers /\ [d EXCEPT !.body = x].body = x
           /\ [d EXCEPT !.body = x].close = d.close
<1> DEFINE e == [path |-> d.path, headers |-> d.headers, body |-> d.body, close |-> d.close]
           y == [path |-> d.path, headers |-> d.headers, body |-> x, close |-> d.close]
<1>1. d = e
  BY DEF Data
<1>2. [e EXCEPT !.body = x] = y
  OBVIOUS
<1>3. Data(y) /\ y.path = d.path /\ y.headers = d.headers /\ y.body = x /\ y.close = d.close
  BY DEF Data
<1> HIDE DEF e, y
<1>4. [d EXCEPT !.body = x] = y
  BY Zenon, <1>1, <1>2
<1>5. QED
  BY Zenon, <1>3, <1>4

LEMMA ExceptClose ==
    ASSUME NEW d, Data(d), NEW x
    PROVE  /\ Data([d EXCEPT !.close = x]) /\ [d EXCEPT !.close = x].path = d.path
           /\ [d EXCEPT !.close = x].headers = d.headers /\ [d EXCEPT !.close = x].body = d.body
           /\ [d EXCEPT !.close = x].close = x
<1> DEFINE e == [path |-> d.path, headers |-> d.headers, body |-> d.body, close |-> d.close]
           y == [path |-> d.path, headers |-> d.headers, body |-> d.body, close |-> x]
<1>1. d = e
  BY DEF Data
<1>2. [e EXCEPT !.close = x] = y
  OBVIOUS
<1>3. Data(y) /\ y.path = d.path /\ y.headers = d.headers /\ y.body = d.body /\ y.close = x
  BY DEF Data
<1> HIDE DEF e, y
<1>4. [d EXCEPT !.close = x] = y
  BY Zenon, <1>1, <1>2
<1>5. QED
  BY Zenon, <1>3, <1>4

\* The piece that a callback gets.
LEMMA PieceIs ==
    ASSUME chunk \in Seq(Byte), chunk # <<>>
    PROVE  LET r == Len(Reader!Piece) IN
           /\ r \in 1..Len(chunk)
           /\ \A q \in 1..r : chunk[q].tok = chunk[1].tok
           /\ r < Len(chunk) => chunk[r + 1].tok # chunk[1].tok
           /\ Reader!Texts = [q \in 1..(IF chunk[r].text = Ending THEN r - 1 ELSE r) |-> chunk[q].text]
<1> DEFINE n == Len(chunk)
           c(q) == chunk[q].tok
           I == {q \in 1..n : c(q) # c(1)}
           Least == CHOOSE x \in I : \A y \in I : x <= y
           R == IF I # {} THEN Least - 1 ELSE n
<1>1. n \in Nat /\ n >= 1
  OBVIOUS
<1>2. Reader!RunLength = (IF I # {} THEN Least ELSE 0) - 1
  BY Zenon DEF Reader!RunLength, Reader!SelectInSeq, Reader!Min
<1> HIDE DEF n, c
<1>3. I # {} => Least \in I /\ \A y \in I : Least <= y
  <2>1. I \in SUBSET Nat
    BY <1>1
  <2> HIDE DEF I
  <2>2. QED
    BY Zenon, <2>1, LeastExists
<1> HIDE DEF Least
<1>4. /\ R \in 1..n /\ (\A q \in 1..R : c(q) = c(1)) /\ (R < n => c(R + 1) # c(1))
      /\ R = IF Reader!RunLength < 0 THEN n ELSE Reader!RunLength
  <2>1. CASE I # {}
    <3>1. Least \in 1..n /\ c(Least) # c(1) /\ \A y \in I : Least <= y
      BY Zenon, <1>3, <2>1
    <3>2. Least # 1
      BY Zenon, <3>1
    <3>3. R = Least - 1 /\ Reader!RunLength = Least - 1
      BY Zenon, <1>2, <2>1
    <3>4. R \in 1..n /\ R + 1 = Least /\ ~(Reader!RunLength < 0)
      BY <1>1, <3>1, <3>2, <3>3
    <3>5. ASSUME NEW q \in 1..R, c(q) # c(1)
          PROVE  FALSE
      <4>1. q \in 1..n /\ ~(Least <= q)
        BY <1>1, <3>1, <3>3, <3>5
      <4>2. q \in I
        BY Zenon, <3>5, <4>1
      <4>3. QED
        BY Zenon, <3>1, <4>1, <4>2
    <3>6. R = IF Reader!RunLength < 0 THEN n ELSE Reader!RunLength
      <4> HIDE DEF R
      <4>1. R = Reader!RunLength /\ ~(Reader!RunLength < 0)
        BY Zenon, <3>3, <3>4
      <4>2. QED
        BY Zenon, <4>1
    <3>7. R < n => c(R + 1) # c(1)
      <4> HIDE DEF R
      <4>1. QED
        BY Zenon, <3>1, <3>4
    <3>8. \A q \in 1..R : c(q) = c(1)
      <4> HIDE DEF R
      <4>1. QED
        BY Zenon, <3>5
    <3>9. QED
      <4> HIDE DEF R
      <4>1. QED
        BY Zenon, <3>4, <3>6, <3>7, <3>8
  <2>2. CASE I = {}
    <3>1. R = n /\ Reader!RunLength = 0 - 1
      BY Zenon, <1>2, <2>2
    <3>2. R \in 1..n /\ ~(R < n) /\ Reader!RunLength < 0
      BY <1>1, <3>1
    <3>3. \A q \in 1..n : c(q) = c(1)
      BY Zenon, <2>2
    <3>4. QED
      BY Zenon, <3>1, <3>2, <3>3
  <2>3. QED
    BY <2>1, <2>2
<1> HIDE DEF R
<1>5. Reader!Piece = SubSeq(chunk, 1, R)
  BY Zenon, <1>4 DEF Reader!Piece, n
<1>6. Len(Reader!Piece) = R /\ \A q \in 1..R : Reader!Piece[q] = chunk[q]
  <2>1. chunk \in Seq(Byte) /\ R \in 1..Len(chunk)
    BY Zenon, <1>4 DEF n
  <2>2. Len(SubSeq(chunk, 1, R)) = R /\ \A q \in 1..R : SubSeq(chunk, 1, R)[q] = chunk[q]
    BY <2>1
  <2>3. QED
    BY Zenon, <1>5, <2>2
<1>7. Reader!Texts = [q \in 1..(IF chunk[R].text = Ending THEN R - 1 ELSE R) |-> chunk[q].text]
  <2> DEFINE e == IF chunk[R].text = Ending THEN R - 1 ELSE R
             a(q) == Reader!Piece[q].text
             b(q) == chunk[q].text
  <2>0. R \in 1..R /\ \A q \in 1..e : q \in 1..R
    BY <1>1, <1>4
  <2>1. \A q \in 1..e : a(q) = b(q)
    BY Zenon, <1>6, <2>0
  <2>2. Reader!Piece[Len(Reader!Piece)] = chunk[R]
    BY Zenon, <1>6, <2>0
  <2>3. Reader!Texts = [q \in 1..e |-> a(q)]
    BY Zenon, <1>6, <2>2 DEF Reader!Texts, Reader!Ends, Ending
  <2> HIDE DEF a, b, e
  <2>4. [q \in 1..e |-> a(q)] = [q \in 1..e |-> b(q)]
    BY <2>1
  <2>5. QED
    BY Zenon, <2>3, <2>4 DEF b, e
<1>8. R \in 1..Len(chunk)
  BY Zenon, <1>4 DEF n
<1>9. \A q \in 1..R : chunk[q].tok = chunk[1].tok
  BY Zenon, <1>4 DEF c
<1>10. R < Len(chunk) => chunk[R + 1].tok # chunk[1].tok
  BY Zenon, <1>4 DEF n, c
<1>11. Len(Reader!Piece) = R
  BY Zenon, <1>6
<1>12. QED
  BY Zenon, <1>7, <1>8, <1>9, <1>10, <1>11

\* Which token the byte at p belongs to.
Belongs(k, m, p) ==
    /\ p <= 4 <=> TokOf(k, m, p) \in {"url", "status"}
    /\ p <= 4 => TokOf(k, m, p) = First(k)
    /\ p \in 5..7 <=> TokOf(k, m, p) = "field"
    /\ p \in 8..(HeadersEnd(m) - 1) <=> TokOf(k, m, p) = "value"
    /\ p = HeadersEnd(m) <=> TokOf(k, m, p) = "headers"
    /\ p > HeadersEnd(m) <=> TokOf(k, m, p) = "body"

LEMMA Regions ==
    ASSUME NEW k \in {"request", "response"}, NEW m \in Message, NEW p \in 1..MessageEnd(m)
    PROVE  Belongs(k, m, p)
<1> DEFINE H == HeadersEnd(m)
           E == MessageEnd(m)
<1>1. H \in 10..11 /\ E \in Nat
  BY Zenon, EndsAre
<1>2. p \in Int
  <2> HIDE DEF E
  <2>1. QED
    BY <1>1
<1>3. First(k) \in {"url", "status"}
  BY DEF First
<1>4. TokOf(k, m, p) = IF p <= 4 THEN First(k) ELSE IF p <= 7 THEN "field"
                       ELSE IF p < H THEN "value" ELSE IF p = H THEN "headers" ELSE "body"
  BY Zenon DEF TokOf
<1> HIDE DEF H, E
<1>5. CASE p <= 4
  <2>1. TokOf(k, m, p) = First(k)
    BY Zenon, <1>4, <1>5
  <2>2. ~(p \in 5..7) /\ ~(p \in 8..(H - 1)) /\ p # H /\ ~(p > H)
    BY <1>1, <1>2, <1>5
  <2>3. QED
    BY <1>3, <1>5, <2>1, <2>2 DEF H, Belongs
<1>6. CASE ~(p <= 4) /\ p <= 7
  <2>1. TokOf(k, m, p) = "field"
    BY Zenon, <1>4, <1>6
  <2>2. p \in 5..7 /\ ~(p \in 8..(H - 1)) /\ p # H /\ ~(p > H)
    BY <1>1, <1>2, <1>6
  <2>3. QED
    BY <1>6, <2>1, <2>2 DEF H, Belongs
<1>7. CASE ~(p <= 4) /\ ~(p <= 7) /\ p < H
  <2>1. TokOf(k, m, p) = "value"
    BY Zenon, <1>4, <1>7
  <2>2. p \notin 5..7 /\ p \in 8..(H - 1) /\ p # H /\ ~(p > H)
    BY <1>1, <1>2, <1>7
  <2>3. QED
    BY <1>7, <2>1, <2>2 DEF H, Belongs
<1>8. CASE ~(p <= 4) /\ ~(p <= 7) /\ ~(p < H) /\ p = H
  <2>1. TokOf(k, m, p) = "headers"
    BY Zenon, <1>4, <1>8
  <2>2. p \notin 5..7 /\ ~(p \in 8..(H - 1)) /\ ~(p > H)
    BY <1>1, <1>2, <1>8
  <2>3. QED
    BY <1>8, <2>1, <2>2 DEF H, Belongs
<1>9. CASE ~(p <= 4) /\ ~(p <= 7) /\ ~(p < H) /\ p # H
  <2>1. TokOf(k, m, p) = "body"
    BY Zenon, <1>4, <1>9
  <2>2. p \notin 5..7 /\ ~(p \in 8..(H - 1)) /\ p > H
    BY <1>1, <1>2, <1>9
  <2>3. QED
    BY <1>9, <2>1, <2>2 DEF H, Belongs
<1>10. QED
  BY Zenon, <1>5, <1>6, <1>7, <1>8, <1>9

\* The stream stays what it is.
LEMMA SameStream ==
    ASSUME UNCHANGED <<kind, messages>>
    PROVE  Stream' = Stream
BY DEF Stream, Reader!Bytes, Reader!Ended, Reader!Token, Reader!Mark, Reader!Value, Reader!Url, Reader!Name,
       Reader!Body, Reader!FlattenSeq

\* What the callbacks get of the stream.
LEMMA PieceGiven ==
    ASSUME Position, Stream \in Seq(Byte), chunk # <<>>
    PROVE  LET r == Len(Reader!Piece)
               rest == SubSeq(chunk, r + 1, Len(chunk)) IN
           /\ r \in 1..Len(chunk) /\ Given \in Nat /\ Given + r <= Got
           /\ Got \in Nat /\ Got <= Len(Stream)
           /\ Got = Given + Len(chunk)
           /\ chunk[1] = Stream[Given + 1]
           /\ \A q \in 1..r : Stream[Given + q].tok = Stream[Given + 1].tok
           /\ Reader!Texts = [i \in 1..(IF Stream[Given + r].text = Ending THEN r - 1 ELSE r) |->
                                 Stream[Given + i].text]
           /\ rest \in Seq(Byte) /\ Len(rest) = Len(chunk) - r
           /\ \A q \in 1..Len(rest) : rest[q] = Stream[Given + r + q]
           /\ CutAt(Given + r)
<1> DEFINE r == Len(Reader!Piece)
           rest == SubSeq(chunk, r + 1, Len(chunk))
           n == Len(chunk)
           u == Len(unread)
           l == Len(Stream)
           g == Given
<1>1. chunk \in Seq(Byte) /\ unread \in Seq(Byte) /\ g >= 0 /\ CutAt(Got)
      /\ \A q \in 1..n : chunk[q] = Stream[g + q]
  BY Zenon DEF Position
<1>2. n \in Nat /\ n >= 1 /\ u \in Nat /\ l \in Nat
  BY <1>1
<1>3. /\ r \in 1..n /\ \A q \in 1..r : chunk[q].tok = chunk[1].tok
      /\ r < n => chunk[r + 1].tok # chunk[1].tok
      /\ Reader!Texts = [q \in 1..(IF chunk[r].text = Ending THEN r - 1 ELSE r) |-> chunk[q].text]
  BY Zenon, <1>1, PieceIs
<1> HIDE DEF r
<1>4. rest \in Seq(Byte) /\ Len(rest) = n - r /\ \A q \in 1..(n - r) : rest[q] = chunk[r + q]
  BY <1>1, <1>2, <1>3
<1>5. g = l - n - u /\ Got = l - u
  BY Zenon DEF Given, Got
<1> HIDE DEF rest, n, u, l, g
<1>6. g \in Nat /\ g + r <= Got /\ Got \in Nat /\ Got <= l /\ Got = g + n
  BY <1>1, <1>2, <1>3, <1>5
<1>7. \A q \in 1..r : q \in 1..n
  BY <1>2, <1>3
<1>8. 1 \in 1..r
  BY <1>2, <1>3
<1>9. \A q \in 1..r : chunk[q] = Stream[g + q]
  BY Zenon, <1>1, <1>7
<1>10. \A q \in 1..r : Stream[g + q].tok = Stream[g + 1].tok
  BY Zenon, <1>3, <1>8, <1>9
<1>11. Reader!Texts = [q \in 1..(IF Stream[g + r].text = Ending THEN r - 1 ELSE r) |-> Stream[g + q].text]
  <2> DEFINE e == IF chunk[r].text = Ending THEN r - 1 ELSE r
             f == IF Stream[g + r].text = Ending THEN r - 1 ELSE r
             a(q) == chunk[q].text
             b(q) == Stream[g + q].text
  <2>0. r \in 1..r /\ \A q \in 1..e : q \in 1..r
    BY <1>2, <1>3
  <2>1. \A q \in 1..e : a(q) = b(q)
    BY Zenon, <1>9, <2>0
  <2>2. Reader!Texts = [q \in 1..e |-> a(q)]
    BY Zenon, <1>3
  <2>3. e = f
    BY Zenon, <1>9, <2>0
  <2> HIDE DEF a, b, e, f
  <2>4. [q \in 1..e |-> a(q)] = [q \in 1..e |-> b(q)]
    BY <2>1
  <2>5. Reader!Texts = [q \in 1..f |-> b(q)]
    BY Zenon, <2>2, <2>3, <2>4
  <2>6. QED
    BY Zenon, <2>5 DEF b, f
<1>12. ASSUME NEW q \in 1..(n - r)
       PROVE  rest[q] = Stream[g + r + q]
  <2>1. r + q \in 1..n /\ g + (r + q) = g + r + q
    BY <1>2, <1>3, <1>6
  <2>2. rest[q] = chunk[r + q] /\ chunk[r + q] = Stream[g + (r + q)]
    BY Zenon, <1>1, <1>4, <2>1
  <2>3. QED
    BY Zenon, <2>1, <2>2
<1>13. CutAt(g + r)
  <2>1. CASE r = n
    <3>1. g + r = Got
      BY <1>2, <1>6, <2>1
    <3>2. QED
      BY Zenon, <1>1, <3>1
  <2>2. CASE r # n
    <3>1. r < n /\ r \in 1..r /\ r + 1 \in 1..n /\ g + (r + 1) = (g + r) + 1
      BY <1>2, <1>3, <1>6, <2>2
    <3>2. chunk[r + 1] = Stream[(g + r) + 1] /\ chunk[r] = Stream[g + r]
      <4>1. chunk[r + 1] = Stream[g + (r + 1)]
        BY Zenon, <1>1, <3>1
      <4>2. chunk[r] = Stream[g + r]
        BY Zenon, <1>9, <3>1
      <4>3. QED
        BY Zenon, <3>1, <4>1, <4>2
    <3>3. chunk[r + 1].tok # chunk[r].tok
      BY Zenon, <1>3, <3>1
    <3>4. Stream[g + r].tok # Stream[(g + r) + 1].tok
      BY Zenon, <3>2, <3>3
    <3>5. QED
      BY Zenon, <3>4 DEF CutAt, CutIn
  <2>3. QED
    BY <2>1, <2>2
<1>14. chunk[1] = Stream[g + 1]
  BY Zenon, <1>8, <1>9
<1>15. \A q \in 1..Len(rest) : rest[q] = Stream[g + r + q]
  BY Zenon, <1>4, <1>12
<1>16. r \in 1..n /\ g \in Nat /\ g + r <= Got /\ Got \in Nat /\ Got <= l /\ Got = g + n
  BY Zenon, <1>3, <1>6
<1>17. rest \in Seq(Byte) /\ Len(rest) = n - r
  BY Zenon, <1>4
<1>18. QED
  BY Zenon, <1>10, <1>11, <1>13, <1>14, <1>15, <1>16, <1>17 DEF r, rest, n, u, l, g

\* A piece of a token that lies between a and b in the stream ends before b,
\* and is all of it when the token was not cut.
LEMMA PieceInRegion ==
    ASSUME Position, Stream \in Seq(Byte), chunk # <<>>,
           NEW t, NEW a \in Nat \ {0}, NEW b \in Nat, Given + 1 \in a..b, b <= Len(Stream),
           \A x \in a..b : Stream[x].tok = t,
           b < Len(Stream) => Stream[b + 1].tok # t
    PROVE  /\ Given + Len(Reader!Piece) <= b
           /\ t \notin cut => Given + 1 = a /\ Given + Len(Reader!Piece) = b
<1> DEFINE r == Len(Reader!Piece)
           l == Len(Stream)
           g == Given
<1>1. /\ r \in 1..Len(chunk) /\ g \in Nat /\ g + r <= Got /\ Got \in Nat /\ Got <= l
      /\ \A q \in 1..r : Stream[g + q].tok = Stream[g + 1].tok
      /\ CutAt(g + r)
  BY Zenon, PieceGiven
<1>2. CutAt(g)
  BY Zenon DEF Position
<1>3. l \in Nat /\ r \in Nat /\ r >= 1
  BY <1>1
<1>4. g + 1 \in a..b /\ b <= l /\ (\A x \in a..b : Stream[x].tok = t) /\ (b < l => Stream[b + 1].tok # t)
  OBVIOUS
<1> HIDE DEF r, l, g
<1>5. g + r <= b
  <2>1. SUFFICES ASSUME g + r > b PROVE FALSE
    BY <1>1, <1>3
  <2>2. (b + 1) - g \in 1..r /\ g + ((b + 1) - g) = b + 1 /\ b < l
    BY <1>1, <1>3, <1>4, <2>1
  <2>3. Stream[b + 1].tok = Stream[g + 1].tok
    BY Zenon, <1>1, <2>2
  <2>4. QED
    BY Zenon, <1>4, <2>2, <2>3
<1>6. ASSUME t \notin cut
      PROVE  g + 1 = a /\ g + r = b
  <2>1. g + 1 = a
    <3>1. SUFFICES ASSUME g + 1 # a PROVE FALSE
      OBVIOUS
    <3>2. g \in a..b /\ g + 1 \in a..b /\ g > 0 /\ g < l
      BY <1>1, <1>3, <1>4, <3>1
    <3>3. Stream[g].tok = t /\ Stream[g + 1].tok = t
      BY Zenon, <1>4, <3>2
    <3>4. QED
      BY Zenon, <1>2, <1>6, <3>2, <3>3 DEF CutAt, CutIn, l
  <2>2. g + r = b
    <3>1. SUFFICES ASSUME g + r # b PROVE FALSE
      OBVIOUS
    <3>2. g + r \in a..b /\ (g + r) + 1 \in a..b /\ g + r > 0 /\ g + r < l
      BY <1>1, <1>3, <1>4, <1>5, <3>1
    <3>3. Stream[g + r].tok = t /\ Stream[(g + r) + 1].tok = t
      BY Zenon, <1>4, <3>2
    <3>4. QED
      BY Zenon, <1>1, <1>6, <3>2, <3>3 DEF CutAt, CutIn, l
  <2>3. QED
    BY <2>1, <2>2
<1>7. QED
  BY Zenon, <1>5, <1>6 DEF r, g

LEMMA NextPosition ==
    ASSUME Position, Stream \in Seq(Byte), chunk # <<>>,
           chunk' = SubSeq(chunk, Len(Reader!Piece) + 1, Len(chunk)),
           UNCHANGED <<kind, messages, unread, cut>>
    PROVE  Position' /\ Given' = Given + Len(Reader!Piece)
<1> DEFINE r == Len(Reader!Piece)
           n == Len(chunk)
           u == Len(unread)
           l == Len(Stream)
           g == Given
<1>1. /\ r \in 1..n /\ g \in Nat /\ Got \in Nat
      /\ chunk' \in Seq(Byte) /\ Len(chunk') = n - r
      /\ \A q \in 1..Len(chunk') : chunk'[q] = Stream[g + r + q]
      /\ CutAt(g + r)
  BY Zenon, PieceGiven
<1>2. unread \in Seq(Byte) /\ CutAt(Got) /\ chunk \in Seq(Byte)
      /\ \A q \in 1..u : unread[q] = Stream[Got + q]
  BY Zenon DEF Position
<1>3. Stream' = Stream /\ unread' = unread /\ cut' = cut
  BY Zenon, SameStream
<1>4. g = l - n - u /\ Given' = l - Len(chunk') - u /\ Got' = Got
  BY Zenon, <1>3 DEF Given, Got
<1>5. n \in Nat /\ u \in Nat /\ l \in Nat
  BY <1>2
<1> HIDE DEF r, n, u, l, g
<1>6. Given' = g + r /\ Given' >= 0
  <2> DEFINE x == Given'
  <2>1. x = l - (n - r) - u /\ r \in 1..n /\ g \in Nat
    BY Zenon, <1>1, <1>4
  <2>2. g = l - n - u
    BY Zenon, <1>4
  <2> HIDE DEF x
  <2>3. x = g + r /\ x >= 0
    BY <1>5, <2>1, <2>2
  <2>4. QED
    BY Zenon, <2>3 DEF x
<1>7. CutAt(Given)' /\ CutAt(Got)'
  <2>1. CutIn(Stream, cut, g + r) /\ CutIn(Stream, cut, Got)
    BY Zenon, <1>1, <1>2 DEF CutAt
  <2>2. CutIn(Stream', cut', Given') /\ CutIn(Stream', cut', Got')
    BY Zenon, <1>3, <1>4, <1>6, <2>1
  <2>3. QED
    BY Zenon, <2>2 DEF CutAt
<1>8. \A q \in 1..Len(chunk') : chunk'[q] = Stream'[Given' + q]
  BY Zenon, <1>1, <1>3, <1>6
<1>9. \A q \in 1..Len(unread') : unread'[q] = Stream'[Got' + q]
  BY Zenon, <1>2, <1>3, <1>4 DEF u
<1>10. chunk' \in Seq(Byte) /\ unread' \in Seq(Byte)
  BY Zenon, <1>1, <1>2, <1>3
<1>11. Position'
  BY Zenon, <1>6, <1>7, <1>8, <1>9, <1>10 DEF Position
<1>12. QED
  BY Zenon, <1>6, <1>11 DEF r, g

LEMMA FirstMessage ==
    ASSUME Sending
    PROVE  LET m == messages[1]
               E == MessageEnd(m) IN
           /\ m \in Message /\ Stream \in Seq(Byte) /\ E <= Len(Stream)
           /\ \A p \in 1..E : Stream[p].tok = TokOf(kind, m, p) /\ Stream[p].of = 1
                              /\ Stream[p].text = TextOf(m, p)
           /\ \A p \in (E + 1)..Len(Stream) : Stream[p].of > 1
           /\ E < Len(Stream) => Stream[E + 1].tok = First(kind)
           /\ Paths(Stream)
           /\ kind = "response" /\ ~m.body => Len(Stream) = E
<1> DEFINE m == messages[1]
           E == MessageEnd(m)
<1>1. kind \in {"request", "response"} /\ messages \in Seq(Message) /\ messages # <<>>
      /\ (kind = "response" => \A i \in 1..(Len(messages) - 1) : messages[i].body)
  BY Zenon DEF Sending
<1>2. m \in Message /\ Len(messages) \in Nat /\ Len(messages) >= 1
  BY <1>1
<1>3. Holds(Stream, kind, m) /\ Paths(Stream) /\ (Len(messages) = 1 => Len(Stream) = E)
  BY Zenon, <1>1, StreamHolds
<1>4. /\ Stream \in Seq(Byte) /\ E <= Len(Stream)
      /\ \A p \in 1..E : Stream[p] = ByteAt(kind, m, 1, p)
      /\ \A p \in (E + 1)..Len(Stream) : Stream[p].of > 1
      /\ E < Len(Stream) => Stream[E + 1].tok = First(kind)
  BY Zenon, <1>3 DEF Holds
<1>5. \A p : ByteAt(kind, m, 1, p).tok = TokOf(kind, m, p) /\ ByteAt(kind, m, 1, p).of = 1
             /\ ByteAt(kind, m, 1, p).text = TextOf(m, p)
  BY DEF ByteAt
<1>6. \A p \in 1..E : Stream[p].tok = TokOf(kind, m, p) /\ Stream[p].of = 1
                      /\ Stream[p].text = TextOf(m, p)
  BY Zenon, <1>4, <1>5
<1>7. kind = "response" /\ ~m.body => Len(messages) = 1
  <2>1. kind = "response" /\ ~m.body => ~(1 \in 1..(Len(messages) - 1))
    BY Zenon, <1>1
  <2> DEFINE n == Len(messages)
  <2>2. n \in Nat /\ n >= 1
    BY Zenon, <1>2
  <2> HIDE DEF n
  <2>3. ~(1 \in 1..(n - 1)) => n = 1
    BY <2>2
  <2>4. QED
    BY Zenon, <2>1, <2>3 DEF n
<1>8. kind = "response" /\ ~m.body => Len(Stream) = E
  BY Zenon, <1>3, <1>7
<1>9. QED
  BY Zenon, <1>2, <1>3, <1>4, <1>6, <1>8

LEMMA BodyParts ==
    /\ \A n \in Int : n <= 0 => SubSeq(Reader!Body, 1, n) = <<>>
    /\ SubSeq(Reader!Body, 1, 2) = Reader!Body
    /\ \A n, r \in Nat : n + r <= 2 =>
         SubSeq(Reader!Body, 1, n) \o [q \in 1..r |-> Reader!Body[n + q]]
           = SubSeq(Reader!Body, 1, n + r)
<1>1. Reader!Body \in Seq(Words) /\ Len(Reader!Body) = 2
  BY Zenon, TextsAre
<1> DEFINE b == Reader!Body
<1> HIDE DEF b
<1>2. b \in Seq(Words) /\ Len(b) = 2
  BY Zenon, <1>1 DEF b
<1>3. \A n \in Int : n <= 0 => SubSeq(b, 1, n) = <<>>
  BY <1>2
<1>4. SubSeq(b, 1, 2) = b
  BY <1>2
<1>5. ASSUME NEW n \in Nat, NEW r \in Nat, n + r <= 2
      PROVE  SubSeq(b, 1, n) \o [q \in 1..r |-> b[n + q]] = SubSeq(b, 1, n + r)
  BY <1>2, <1>5
<1>6. QED
  BY Zenon, <1>3, <1>4, <1>5 DEF b

\* Where in the first message a callback is.
LEMMA PieceOfFirst ==
    ASSUME Sending, Position, chunk # <<>>, Given < MessageEnd(messages[1])
    PROVE  LET m == messages[1]
               H == HeadersEnd(m)
               r == Len(Reader!Piece)
               t == chunk[1].tok IN
           /\ chunk[1].of = 1 /\ t \in {"url", "status", "field", "value", "headers", "body"}
           /\ t \in {"url", "status"} => t = First(kind) /\ Given + r <= 4
                                         /\ (t \notin cut => Given = 0 /\ r = 4)
           /\ t = "field" => Given >= 4 /\ Given + r <= 7 /\ (t \notin cut => Given = 4 /\ r = 3)
           /\ t = "value" => Given >= 7 /\ Given + r <= H - 1
                             /\ (t \notin cut => Given = 7 /\ Given + r = H - 1)
           /\ t = "headers" => Given = H - 1 /\ r = 1
           /\ t = "body" => Given >= H /\ Given + r <= MessageEnd(m)
<1> DEFINE m == messages[1]
           H == HeadersEnd(m)
           E == MessageEnd(m)
           r == Len(Reader!Piece)
           t == chunk[1].tok
           g == Given
           l == Len(Stream)
           T(p) == TokOf(kind, m, p)
<1>1. /\ m \in Message /\ Stream \in Seq(Byte) /\ E <= l
      /\ \A p \in 1..E : Stream[p].tok = T(p) /\ Stream[p].of = 1
      /\ E < l => Stream[E + 1].tok = First(kind)
  BY Zenon, FirstMessage
<1>2. kind \in {"request", "response"}
  BY Zenon DEF Sending
<1>3. H \in 10..11 /\ E \in H..13 /\ E \in Nat
  BY Zenon, <1>1, EndsAre
<1>4. r \in 1..Len(chunk) /\ g \in Nat /\ chunk[1] = Stream[g + 1]
  BY Zenon, <1>1, PieceGiven
<1>5. l \in Nat /\ g < E
  BY <1>1
<1>6. \A p \in 1..E :
         /\ p <= 4 <=> T(p) \in {"url", "status"}
         /\ p <= 4 => T(p) = First(kind)
         /\ p \in 5..7 <=> T(p) = "field"
         /\ p \in 8..(H - 1) <=> T(p) = "value"
         /\ p = H <=> T(p) = "headers"
         /\ p > H <=> T(p) = "body"
  <2>1. ASSUME NEW p \in 1..E
        PROVE  Belongs(kind, m, p)
    BY Zenon, <1>1, <1>2, Regions
  <2>2. QED
    BY Zenon, <2>1 DEF Belongs
<1> HIDE DEF r, g, l, E, H, m, T
<1>7. r >= 1 /\ r \in Nat
  BY <1>4
<1>8. g + 1 \in 1..E
  BY <1>3, <1>4, <1>5
<1>9. t = T(g + 1) /\ chunk[1].of = 1
  BY Zenon, <1>1, <1>4, <1>8
<1>10. ASSUME NEW x, NEW a \in Nat \ {0}, NEW b \in Nat, g + 1 \in a..b, b <= E,
              \A p \in 1..E : p \in a..b => T(p) = x,
              b < E => T(b + 1) # x, b = E => First(kind) # x
       PROVE  g + r <= b /\ (x \notin cut => g + 1 = a /\ g + r = b)
  <2>1. \A p \in a..b : p \in 1..E
    BY <1>3, <1>10
  <2>2. \A p \in a..b : Stream[p].tok = x
    BY Zenon, <1>1, <1>10, <2>1
  <2>3. b <= l
    BY <1>1, <1>3, <1>5, <1>10
  <2>4. b < l => Stream[b + 1].tok # x
    <3>1. CASE b < E
      <4>1. b + 1 \in 1..E
        BY <1>3, <3>1
      <4>2. QED
        BY Zenon, <1>1, <1>10, <3>1, <4>1
    <3>2. CASE b = E
      BY Zenon, <1>1, <1>10, <3>2
    <3>3. QED
      BY <1>3, <1>10, <3>1, <3>2
  <2>5. QED
    BY Zenon, <1>1, <1>10, <2>2, <2>3, <2>4, PieceInRegion DEF g, r, l
<1>11. First(kind) \in {"url", "status"}
  BY DEF First
<1>12. t \in {"url", "status", "field", "value", "headers", "body"}
  <2>1. g + 1 <= 4 \/ g + 1 \in 5..7 \/ g + 1 \in 8..(H - 1) \/ g + 1 = H \/ g + 1 > H
    BY <1>3, <1>4
  <2>2. QED
    BY Zenon, <1>6, <1>8, <1>9, <2>1
<1>13. ASSUME t \in {"url", "status"}
       PROVE  t = First(kind) /\ g + r <= 4 /\ (t \notin cut => g = 0 /\ r = 4)
  <2>1. g + 1 <= 4 /\ t = First(kind)
    BY Zenon, <1>6, <1>8, <1>9, <1>13
  <2>2. g + 1 \in 1..4 /\ 4 < E /\ 4 + 1 \in 5..7 /\ 4 + 1 \in 1..E /\ 4 # E /\ 4 <= E /\ 4 \in Nat
        /\ 1 \in Nat \ {0} /\ ~(5 <= 4) /\ 4 + 1 = 5
    BY <1>3, <1>4, <2>1
  <2>3. \A p \in 1..E : p \in 1..4 => T(p) = t
    <3>1. \A p : p \in 1..4 => p <= 4
      OBVIOUS
    <3>2. QED
      BY Zenon, <1>6, <2>1, <3>1
  <2>4. T(4 + 1) # t
    BY Zenon, <1>6, <1>13, <2>2
  <2>5. g + r <= 4 /\ (t \notin cut => g + 1 = 1 /\ g + r = 4)
    BY Zenon, <1>10, <2>2, <2>3, <2>4
  <2>6. QED
    BY <1>4, <1>7, <2>1, <2>5
<1>14. ASSUME t = "field"
       PROVE  g >= 4 /\ g + r <= 7 /\ (t \notin cut => g = 4 /\ r = 3)
  <2>1. g + 1 \in 5..7
    BY Zenon, <1>6, <1>8, <1>9, <1>14
  <2>2. 7 < E /\ ~(7 + 1 \in 5..7) /\ 7 + 1 \in 1..E /\ 7 # E /\ 7 <= E /\ 7 \in Nat /\ 5 \in Nat \ {0}
    BY <1>3
  <2>3. \A p \in 1..E : p \in 5..7 => T(p) = t
    BY Zenon, <1>6, <1>14
  <2>4. T(7 + 1) # t
    BY Zenon, <1>6, <1>14, <2>2
  <2>5. g + r <= 7 /\ (t \notin cut => g + 1 = 5 /\ g + r = 7)
    BY Zenon, <1>10, <2>1, <2>2, <2>3, <2>4
  <2>6. QED
    BY <1>4, <1>7, <2>1, <2>5
<1>15. ASSUME t = "value"
       PROVE  g >= 7 /\ g + r <= H - 1 /\ (t \notin cut => g = 7 /\ g + r = H - 1)
  <2>1. g + 1 \in 8..(H - 1)
    BY Zenon, <1>6, <1>8, <1>9, <1>15
  <2> DEFINE b == H - 1
  <2>2. b < E /\ ~(b + 1 \in 8..b) /\ b + 1 \in 1..E /\ b # E /\ b <= E /\ b \in Nat /\ 8 \in Nat \ {0}
    BY <1>3
  <2>3. \A p \in 1..E : p \in 8..b => T(p) = t
    BY Zenon, <1>6, <1>15
  <2>4. T(b + 1) # t
    BY Zenon, <1>6, <1>15, <2>2
  <2>5. g + 1 \in 8..b
    BY <2>1
  <2> HIDE DEF b
  <2>6. g + r <= b /\ (t \notin cut => g + 1 = 8 /\ g + r = b)
    BY Zenon, <1>10, <2>2, <2>3, <2>4, <2>5
  <2>7. QED
    BY <1>4, <1>7, <2>1, <2>6 DEF b
<1>16. ASSUME t = "headers"
       PROVE  g = H - 1 /\ r = 1
  <2>1. g + 1 = H
    BY Zenon, <1>6, <1>8, <1>9, <1>16
  <2>2. g + 1 \in H..H /\ H <= E /\ H \in Nat /\ H \in Nat \ {0} /\ (H < E => H + 1 \in 1..E)
        /\ H + 1 # H
    BY <1>3, <2>1
  <2>3. \A p \in 1..E : p \in H..H => T(p) = t
    <3>1. \A p : p \in H..H => p = H
      BY <1>3
    <3>2. QED
      BY Zenon, <1>6, <1>16, <3>1
  <2>4. H < E => T(H + 1) # t
    BY Zenon, <1>6, <1>16, <2>2
  <2>5. First(kind) # t
    BY <1>11, <1>16
  <2>6. g + r <= H
    BY Zenon, <1>10, <2>2, <2>3, <2>4, <2>5
  <2>7. QED
    BY <1>3, <1>4, <1>7, <2>1, <2>6
<1>17. ASSUME t = "body"
       PROVE  g >= H /\ g + r <= E
  <2>1. g + 1 > H
    BY Zenon, <1>6, <1>8, <1>9, <1>17
  <2>2. g + 1 \in (H + 1)..E /\ E <= E /\ H + 1 \in Nat \ {0} /\ ~(E < E)
    BY <1>3, <1>8, <2>1
  <2>3. \A p \in 1..E : p \in (H + 1)..E => T(p) = t
    <3>1. \A p : p \in (H + 1)..E => p > H
      BY <1>3
    <3>2. QED
      BY Zenon, <1>6, <1>17, <3>1
  <2>4. First(kind) # t
    BY <1>11, <1>17
  <2>5. g + r <= E
    BY Zenon, <1>3, <1>10, <2>2, <2>3, <2>4
  <2>6. QED
    BY <1>3, <1>4, <2>1, <2>5
<1>18. QED
  BY Zenon, <1>9, <1>12, <1>13, <1>14, <1>15, <1>16, <1>17 DEF r, g, H, E, m

LEMMA TextsOfFirst ==
    ASSUME Sending, Position, chunk # <<>>, Given < MessageEnd(messages[1])
    PROVE  LET m == messages[1]
               t == chunk[1].tok IN
           /\ t \in {"url", "status"} /\ kind = "request" /\ "url" \notin cut
                => t = "url" /\ Reader!Texts = Reader!Url
           /\ t = "field" /\ t \notin cut => Reader!Texts = Reader!Name
           /\ t = "value" /\ t \notin cut => Reader!Texts = Reader!Value(m.keep)
           /\ t = "body" => Reader!Texts = [q \in 1..Len(Reader!Piece) |->
                                              Reader!Body[(Given - HeadersEnd(m)) + q]]
<1> DEFINE m == messages[1]
           H == HeadersEnd(m)
           E == MessageEnd(m)
           r == Len(Reader!Piece)
           t == chunk[1].tok
           g == Given
           text(p) == TextOf(m, p)
<1>1. /\ m \in Message /\ Stream \in Seq(Byte) /\ E <= Len(Stream)
      /\ \A p \in 1..E : Stream[p].text = text(p)
  BY Zenon, FirstMessage
<1>2. H = 9 + ValueLength(m) /\ H \in 10..11 /\ E \in H..13 /\ E \in Nat /\ ValueLength(m) = Len(Reader!Value(m.keep))
      /\ Reader!Value(m.keep) \in Seq(Words) /\ m.body \in BOOLEAN /\ E = IF m.body THEN H + 2 ELSE H
  BY Zenon, <1>1, EndsAre
<1>3. r \in 1..Len(chunk) /\ g \in Nat
      /\ Reader!Texts = [i \in 1..(IF Stream[g + r].text = Ending THEN r - 1 ELSE r) |-> Stream[g + i].text]
  BY Zenon, <1>1, PieceGiven
<1>4. /\ t \in {"url", "status"} => t = First(kind) /\ g + r <= 4 /\ (t \notin cut => g = 0 /\ r = 4)
      /\ t = "field" => g >= 4 /\ g + r <= 7 /\ (t \notin cut => g = 4 /\ r = 3)
      /\ t = "value" => g >= 7 /\ g + r <= H - 1 /\ (t \notin cut => g = 7 /\ g + r = H - 1)
      /\ t = "body" => g >= H /\ g + r <= E
  BY Zenon, PieceOfFirst
<1>5. /\ \A p \in 1..4 : text(p) = EndedBy(Reader!Url)[p]
      /\ \A p \in 5..7 : text(p) = EndedBy(Reader!Name)[p - 4]
      /\ \A p \in 8..(H - 1) : text(p) = EndedBy(Reader!Value(m.keep))[p - 7]
      /\ \A p \in (H + 1)..E : text(p) = Reader!Body[p - H]
  <2> DEFINE h == HeadersEnd(m)
  <2>1. \A p : text(p) = IF p <= 4 THEN EndedBy(Reader!Url)[p] ELSE IF p <= 7 THEN EndedBy(Reader!Name)[p - 4]
                         ELSE IF p < h THEN EndedBy(Reader!Value(m.keep))[p - 7]
                         ELSE IF p = h THEN Ending ELSE Reader!Body[p - h]
    BY Zenon DEF TextOf
  <2>2. /\ \A p \in 1..4 : p <= 4
        /\ \A p \in 5..7 : ~(p <= 4) /\ p <= 7
        /\ \A p \in 8..(h - 1) : ~(p <= 4) /\ ~(p <= 7) /\ p < h
        /\ \A p \in (h + 1)..E : ~(p <= 4) /\ ~(p <= 7) /\ ~(p < h) /\ p # h
    <3> HIDE DEF E, h
    <3>1. h \in 10..11 /\ E \in Nat
      BY Zenon, <1>2 DEF h
    <3>2. QED
      BY <3>1
  <2> HIDE DEF text, h, E
  <2>3. \A p \in 1..4 : text(p) = EndedBy(Reader!Url)[p]
    BY Zenon, <2>1, <2>2
  <2>4. \A p \in 5..7 : text(p) = EndedBy(Reader!Name)[p - 4]
    BY Zenon, <2>1, <2>2
  <2>5. \A p \in 8..(h - 1) : text(p) = EndedBy(Reader!Value(m.keep))[p - 7]
    BY Zenon, <2>1, <2>2
  <2>6. \A p \in (h + 1)..E : text(p) = Reader!Body[p - h]
    BY Zenon, <2>1, <2>2
  <2>7. QED
    BY Zenon, <2>3, <2>4, <2>5, <2>6 DEF h
<1>6. Reader!Url \in Seq(Words) /\ Len(Reader!Url) = 3 /\ Reader!Name \in Seq(Words) /\ Len(Reader!Name) = 2
  BY Zenon, TextsAre
<1> HIDE DEF r, g, E, H, text
\* Texts that are a part of a word.
<1>7. ASSUME NEW word, NEW from \in Int, g + r <= E, NEW n \in 0..r,
             text(g + r) = Ending => n = r - 1, text(g + r) # Ending => n = r,
             \A q \in 1..n : text(g + q) = word[from + q]
      PROVE  Reader!Texts = [q \in 1..n |-> word[from + q]]
  <2> DEFINE a(q) == Stream[g + q].text
             b(q) == word[from + q]
             e == IF Stream[g + r].text = Ending THEN r - 1 ELSE r
  <2>1. ASSUME NEW q \in 1..n
        PROVE  a(q) = b(q)
    <3>1. g + q \in 1..E
      BY <1>2, <1>3, <1>7
    <3>2. QED
      BY Zenon, <1>1, <1>7, <3>1
  <2>2. Reader!Texts = [q \in 1..e |-> a(q)]
    BY Zenon, <1>3
  <2>3. e = n
    <3>1. g + r \in 1..E
      BY <1>2, <1>3, <1>7
    <3>2. Stream[g + r].text = text(g + r)
      BY Zenon, <1>1, <3>1
    <3>3. QED
      BY Zenon, <1>7, <3>2
  <2> HIDE DEF a, b, e
  <2>4. [q \in 1..n |-> a(q)] = [q \in 1..n |-> b(q)]
    BY <2>1
  <2>5. QED
    BY Zenon, <2>2, <2>3, <2>4 DEF b
\* Texts that are all of a word, and the character that ends it.
<1>8. ASSUME NEW word \in Seq(Words), Len(word) + 1 = r, g + r <= E,
             \A q \in 1..r : text(g + q) = EndedBy(word)[q]
      PROVE  Reader!Texts = word
  <2> DEFINE n == Len(word)
  <2>1. n \in Nat /\ n \in 0..r /\ r \in 1..r /\ n = r - 1 /\ \A q \in 1..n : q \in 1..r /\ 0 + q = q
    BY <1>3, <1>8
  <2>2. text(g + r) = Ending
    BY Zenon, <1>8, <2>1, EndedIs
  <2>3. \A q \in 1..n : text(g + q) = word[0 + q]
    BY Zenon, <1>8, <2>1, EndedIs
  <2>4. 0 \in Int
    OBVIOUS
  <2> HIDE DEF n
  <2>5. Reader!Texts = [q \in 1..n |-> word[0 + q]]
    BY Zenon, <1>7, <1>8, <2>1, <2>2, <2>3, <2>4
  <2>6. word = [q \in 1..n |-> word[0 + q]]
    BY <1>8, <2>1 DEF n
  <2>7. QED
    BY Zenon, <2>5, <2>6
<1>9. ASSUME t \in {"url", "status"}, kind = "request", "url" \notin cut
      PROVE  t = "url" /\ Reader!Texts = Reader!Url
  <2>1. t = "url"
    BY <1>4, <1>9 DEF First
  <2>2. g = 0 /\ r = 4
    BY Zenon, <1>4, <1>9, <2>1
  <2>3. g + r <= E
    BY <1>2, <2>2
  <2>4. ASSUME NEW q \in 1..r
        PROVE  text(g + q) = EndedBy(Reader!Url)[q]
    <3>1. g + q = q /\ q \in 1..4
      BY <2>2
    <3>2. QED
      BY Zenon, <1>5, <3>1
  <2>5. 3 + 1 = 4
    OBVIOUS
  <2>6. QED
    BY Zenon, <1>6, <1>8, <2>1, <2>2, <2>3, <2>4, <2>5
<1>10. ASSUME t = "field", t \notin cut
       PROVE  Reader!Texts = Reader!Name
  <2>1. g = 4 /\ r = 3
    BY Zenon, <1>4, <1>10
  <2>2. g + r <= E
    BY <1>2, <2>1
  <2>3. ASSUME NEW q \in 1..r
        PROVE  text(g + q) = EndedBy(Reader!Name)[q]
    <3>1. g + q \in 5..7 /\ (g + q) - 4 = q
      BY <2>1
    <3>2. QED
      BY Zenon, <1>5, <3>1
  <2>4. 2 + 1 = 3
    OBVIOUS
  <2>5. QED
    BY Zenon, <1>6, <1>8, <2>1, <2>2, <2>3, <2>4
<1>11. ASSUME t = "value", t \notin cut
       PROVE  Reader!Texts = Reader!Value(m.keep)
  <2>1. g = 7 /\ g + r = H - 1
    BY Zenon, <1>4, <1>11
  <2> DEFINE v == ValueLength(m)
  <2>2. H = 9 + v /\ v = Len(Reader!Value(m.keep))
    BY Zenon, <1>2
  <2> HIDE DEF v
  <2>3. v = H - 9
    <3>1. v \in Nat
      BY Zenon, <1>2, <2>2, LenProperties
    <3>2. QED
      BY <2>2, <3>1
  <2>4. v + 1 = r /\ g + r <= E
    BY <1>2, <1>3, <2>1, <2>3
  <2>5. ASSUME NEW q \in 1..r
        PROVE  text(g + q) = EndedBy(Reader!Value(m.keep))[q]
    <3>1. g + q \in 8..(H - 1) /\ (g + q) - 7 = q
      BY <1>2, <1>3, <2>1
    <3>2. QED
      BY Zenon, <1>5, <3>1
  <2>6. QED
    BY Zenon, <1>2, <1>8, <2>2, <2>4, <2>5
<1>12. ASSUME t = "body"
       PROVE  Reader!Texts = [q \in 1..r |-> Reader!Body[(g - H) + q]]
  <2>1. g >= H /\ g + r <= E
    BY Zenon, <1>4, <1>12
  <2>2. ASSUME NEW q \in 1..r
        PROVE  text(g + q) = Reader!Body[(g - H) + q]
    <3>1. g + q \in (H + 1)..E /\ (g + q) - H = (g - H) + q
      BY <1>2, <1>3, <2>1
    <3>2. QED
      BY Zenon, <1>5, <3>1
  <2>3. g - H \in Int /\ r \in 1..r /\ r \in 0..r /\ (g - H) + r \in 1..2
    <3>1. E = H + 2 \/ E = H
      BY Zenon, <1>2
    <3>2. r \in Nat /\ r >= 1
      BY <1>3
    <3>3. QED
      BY <1>2, <1>3, <2>1, <3>1, <3>2
  <2>4. text(g + r) # Ending
    BY Zenon, <2>2, <2>3, TextsAre
  <2>5. QED
    BY Zenon, <1>7, <2>1, <2>2, <2>3, <2>4
<1>13. QED
  BY Zenon, <1>9, <1>10, <1>11, <1>12 DEF r, g, H, m

\* What http_parser_parse_url() does not refuse.
Accepted == Reader!Texts # <<>> /\ Reader!Texts[1] \in {"/a", "/b"}

\* Of any message: a path is refused only when it was cut.
LEMMA TextsOfAny ==
    ASSUME Sending, Position, chunk # <<>>
    PROVE  LET t == chunk[1].tok IN
           /\ t \in {"url", "status", "field", "value", "headers", "body"}
           /\ t = "url" => /\ Accepted => Len(Reader!Texts) \in 1..3
                           /\ Accepted \/ "url" \in cut
           /\ t = "field" => Reader!Texts \in Seq(NameTexts)
<1> DEFINE r == Len(Reader!Piece)
           t == chunk[1].tok
           g == Given
           l == Len(Stream)
           e == IF Stream[g + r].text = Ending THEN r - 1 ELSE r
<1>1. Stream \in Seq(Byte) /\ Paths(Stream)
  BY Zenon, FirstMessage
<1>2. /\ r \in 1..Len(chunk) /\ g \in Nat /\ g + r <= Got /\ Got \in Nat /\ Got <= l
      /\ chunk[1] = Stream[g + 1]
      /\ \A q \in 1..r : Stream[g + q].tok = Stream[g + 1].tok
      /\ Reader!Texts = [q \in 1..e |-> Stream[g + q].text]
  BY Zenon, <1>1, PieceGiven
<1>3. l \in Nat
  BY <1>1
<1>4. CutAt(g)
  BY Zenon DEF Position
<1>5. t \in {"url", "status", "field", "value", "headers", "body"}
  <2>1. chunk \in Seq(Byte)
    BY Zenon DEF Position
  <2>2. chunk[1] \in Byte
    BY <2>1
  <2>3. QED
    BY <2>2 DEF Byte
<1> HIDE DEF r, t, g, l, e
<1>6. \A q \in 1..r : g + q \in 1..l
  BY <1>2, <1>3
<1>7. t = Stream[g + 1].tok
  BY Zenon, <1>2 DEF t
<1>8. r \in Nat /\ r >= 1 /\ 1 \in 1..r /\ e \in Nat /\ e <= r
  BY <1>2 DEF e
<1>9. Len(Reader!Texts) = e /\ (Reader!Texts # <<>> <=> e >= 1)
  <2> DEFINE a(q) == Stream[g + q].text
  <2>1. Reader!Texts = [q \in 1..e |-> a(q)]
    BY Zenon, <1>2
  <2> HIDE DEF a
  <2>2. QED
    BY <1>8, <2>1
<1>10. ASSUME t = "url"
       PROVE  (Accepted => e \in 1..3) /\ (Accepted \/ "url" \in cut)
  <2>1. g + 1 \in 1..l
    BY Zenon, <1>6, <1>8
  <2>2. /\ \E d \in 0..3 : /\ ((g + 1) + d) + 1 <= l /\ Stream[((g + 1) + d) + 1].tok # "url"
                           /\ Stream[(g + 1) + d].text = Ending
        /\ Stream[g + 1].text \in {"/a", "/b"} \/ (g + 1 > 1 /\ Stream[(g + 1) - 1].tok = "url")
    BY Zenon, <1>1, <1>7, <1>10, <2>1 DEF Paths, l
  <2>3. PICK d \in 0..3 : Stream[((g + 1) + d) + 1].tok # "url" /\ Stream[(g + 1) + d].text = Ending
    BY Zenon, <2>2
  <2>4. r <= d + 1
    <3>1. SUFFICES ASSUME r > d + 1 PROVE FALSE
      BY <1>8
    <3>2. d + 2 \in 1..r /\ g + (d + 2) = ((g + 1) + d) + 1
      BY <1>2, <1>8, <3>1
    <3>3. QED
      BY Zenon, <1>2, <1>7, <1>10, <2>3, <3>2
  <2>5. e <= d
    <3>1. CASE r = d + 1
      <4>1. g + r = (g + 1) + d
        BY <1>2, <3>1
      <4>2. e = r - 1
        BY Zenon, <2>3, <4>1 DEF e
      <4>3. QED
        BY <3>1, <4>2
    <3>2. CASE r # d + 1
      BY <1>8, <2>4, <3>2
    <3>3. QED
      BY <3>1, <3>2
  <2>6. Accepted => e \in 1..3
    <3>1. Accepted => e >= 1
      BY Zenon, <1>9 DEF Accepted
    <3>2. QED
      BY <1>8, <2>5, <3>1
  <2>7. CASE Stream[g + 1].text \in {"/a", "/b"}
    <3>1. Stream[g + 1].text # Ending
      BY Zenon, <2>7 DEF Ending
    <3>2. 1 \in 1..e
      <4>1. CASE r = 1
        <5>1. e = r
          BY Zenon, <3>1, <4>1 DEF e
        <5>2. QED
          BY <4>1, <5>1
      <4>2. CASE r # 1
        <5>1. e >= r - 1
          BY <1>8 DEF e
        <5>2. QED
          BY <1>8, <4>2, <5>1
      <4>3. QED
        BY <4>1, <4>2
    <3>3. e >= 1
      BY <1>8, <3>2
    <3>4. Reader!Texts[1] = Stream[g + 1].text
      BY Zenon, <1>2, <3>2
    <3>5. Accepted
      BY Zenon, <1>9, <2>7, <3>3, <3>4 DEF Accepted
    <3>6. QED
      BY Zenon, <2>6, <3>5
  <2>8. CASE g + 1 > 1 /\ Stream[(g + 1) - 1].tok = "url"
    <3>0. g + 1 > 1 /\ g \in Nat
      BY Zenon, <1>2, <2>8
    <3>1. (g + 1) - 1 = g /\ g > 0 /\ g < l
      BY <1>3, <2>1, <3>0
    <3>2. "url" \in cut
      BY Zenon, <1>4, <1>7, <1>10, <2>8, <3>1 DEF CutAt, CutIn, l
    <3>3. QED
      BY Zenon, <2>6, <3>2
  <2>9. QED
    BY Zenon, <2>2, <2>7, <2>8
<1>11. ASSUME t = "field"
       PROVE  Reader!Texts \in Seq(NameTexts)
  <2> DEFINE a(q) == Stream[g + q].text
  <2>1. ASSUME NEW q \in 1..e
        PROVE  a(q) \in NameTexts
    <3>1. q \in 1..r /\ (q = r \/ q + 1 \in 1..r) /\ g + (q + 1) = (g + q) + 1
      BY <1>2, <1>8
    <3>2. \/ Stream[g + q].text \in NameTexts
          \/ Stream[g + q].text = Ending /\ Stream[(g + q) + 1].tok # "field"
      BY Zenon, <1>1, <1>2, <1>6, <1>7, <1>11, <3>1 DEF Paths, l
    <3>3. CASE q = r
      <4>1. e # r - 1
        BY <1>8, <3>3
      <4>2. Stream[g + q].text # Ending
        BY Zenon, <3>3, <4>1 DEF e
      <4>3. QED
        BY Zenon, <3>2, <4>2
    <3>4. CASE q + 1 \in 1..r
      <4>1. Stream[(g + q) + 1].tok = "field"
        BY Zenon, <1>2, <1>7, <1>11, <3>1, <3>4
      <4>2. QED
        BY Zenon, <3>2, <4>1
    <3>5. QED
      BY Zenon, <3>1, <3>3, <3>4
  <2>2. Reader!Texts = [q \in 1..e |-> a(q)]
    BY Zenon, <1>2
  <2>3. \A q \in 1..e : a(q) \in NameTexts
    BY Zenon, <2>1
  <2> HIDE DEF a
  <2>4. [q \in 1..e |-> a(q)] \in Seq(NameTexts)
    BY <1>8, <2>3
  <2>5. QED
    BY Zenon, <2>2, <2>4
<1>12. QED
  BY Zenon, <1>5, <1>9, <1>10, <1>11 DEF t

\* A callback, as the model has it.
Calls ==
    \/ chunk[1].tok = "url" /\ Reader!OnUrl
    \/ chunk[1].tok = "field" /\ Reader!OnHeaderField
    \/ chunk[1].tok = "value" /\ Reader!OnHeaderValue
    \/ chunk[1].tok = "body" /\ Reader!OnBody
    \/ chunk[1].tok \in {"status", "headers"} /\ Reader!OnOther

Rest == SubSeq(chunk, Len(Reader!Piece) + 1, Len(chunk))

LEMMA ExecuteIs ==
    ASSUME Reader!Execute
    PROVE  /\ stage = "execute" /\ chunk # <<>> /\ ~m_error
           /\ UNCHANGED <<kind, messages, unread, stage, cut>>
           /\ dead => m_error' /\ UNCHANGED <<chunk, m_data, m_field, m_finished, dead, merged>>
           /\ ~dead => /\ chunk' = Rest /\ merged' = (merged \/ m_finished) /\ Calls
                       /\ m_finished' = (m_finished \/ Reader!Completes(Rest))
BY Zenon DEF Reader!Execute, Rest, Calls

\* Where a message is complete.
LEMMA CompletesAtEnd ==
    ASSUME Sending, Position, chunk # <<>>, Given < MessageEnd(messages[1])
    PROVE  LET E == MessageEnd(messages[1])
               g == Given + Len(Reader!Piece) IN
           /\ Reader!Completes(Rest) => g = E
           /\ ~Reader!Completes(Rest) => g < E \/ (g = E /\ g = Len(Stream))
<1> DEFINE m == messages[1]
           H == HeadersEnd(m)
           E == MessageEnd(m)
           r == Len(Reader!Piece)
           t == chunk[1].tok
           g == Given
           l == Len(Stream)
           n == Len(chunk)
<1>1. /\ m \in Message /\ Stream \in Seq(Byte) /\ E <= l
      /\ \A p \in 1..E : Stream[p].of = 1
      /\ \A p \in (E + 1)..l : Stream[p].of > 1
      /\ kind = "response" /\ ~m.body => l = E
  BY Zenon, FirstMessage
<1>2. /\ H \in 10..11 /\ E \in H..13 /\ E \in Nat
      /\ E = IF m.body THEN H + 2 ELSE H
  BY Zenon, <1>1, EndsAre
<1>3. /\ r \in 1..n /\ g \in Nat /\ g + r <= Got /\ Got \in Nat /\ Got <= l /\ Got = g + n
      /\ Rest \in Seq(Byte) /\ Len(Rest) = n - r
      /\ \A q \in 1..Len(Rest) : Rest[q] = Stream[g + r + q]
  BY Zenon, <1>1, PieceGiven DEF Rest
<1>4. /\ t \in {"url", "status"} => g + r <= 4
      /\ t = "field" => g + r <= 7
      /\ t = "value" => g + r <= H - 1
      /\ t = "headers" => g = H - 1 /\ r = 1
      /\ t = "body" => g + r <= E
      /\ chunk[1].of = 1 /\ t \in {"url", "status", "field", "value", "headers", "body"}
  BY Zenon, PieceOfFirst
<1>5. /\ unread \in Seq(Byte) /\ (\A q \in 1..Len(unread) : unread[q] = Stream[Got + q])
      /\ chunk \in Seq(Byte)
  BY Zenon DEF Position
<1>6. kind \in {"request", "response"} /\ l \in Nat /\ n \in Nat /\ Got = l - Len(unread)
  BY <1>1, <1>5 DEF Sending, Got
<1>7. Reader!Completes(Rest) <=>
         \/ t = "headers" /\ ~m.body /\ kind = "request"
         \/ t = "body" /\ (Rest = <<>> \/ Rest[1].of # 1)
                       /\ (Rest # <<>> \/ unread = <<>> \/ unread[1].of # 1)
  <2>1. chunk[1].of = 1
    BY Zenon, <1>4
  <2>2. QED
    BY Zenon, <2>1 DEF Reader!Completes
<1>8. Rest = <<>> <=> n = r
  BY <1>3, <1>6
<1>9. unread = <<>> <=> Got = l
  BY <1>5, <1>6
<1>10. Rest # <<>> => Rest[1] = Stream[(g + r) + 1] /\ (g + r) + 1 <= l
  <2>1. Rest # <<>> => 1 \in 1..Len(Rest)
    BY <1>3, <1>6
  <2>2. Rest # <<>> => (g + r) + 1 <= l
    BY <1>3, <1>6, <1>8
  <2>3. QED
    BY Zenon, <1>3, <2>1, <2>2
<1>11. unread # <<>> => unread[1] = Stream[Got + 1] /\ Got + 1 <= l
  <2>1. unread # <<>> => 1 \in 1..Len(unread)
    BY <1>5
  <2>2. unread # <<>> => Got + 1 <= l
    BY <1>3, <1>6, <1>9
  <2>3. QED
    BY Zenon, <1>5, <2>1, <2>2
<1> HIDE DEF m, H, E, r, t, g, l, n
<1>12. CASE t \in {"url", "status", "field", "value"}
  <2>1. ~Reader!Completes(Rest)
    BY <1>7, <1>12
  <2>2. g + r <= H - 1
    BY <1>2, <1>3, <1>4, <1>12
  <2>3. g + r < E
    BY <1>2, <1>3, <2>2
  <2>4. QED
    BY Zenon, <2>1, <2>3 DEF g, r, E, m
<1>13. CASE t = "headers"
  <2>1. g + r = H
    BY <1>2, <1>4, <1>13
  <2>2. Reader!Completes(Rest) <=> ~m.body /\ kind = "request"
    BY <1>7, <1>13
  <2>3. Reader!Completes(Rest) => E = H
    BY Zenon, <1>2, <2>2
  <2>4. ASSUME ~Reader!Completes(Rest)
        PROVE  H < E \/ (H = E /\ H = l)
    <3>1. CASE m.body
      <4>1. E = H + 2
        BY Zenon, <1>2, <3>1
      <4>2. QED
        BY <1>2, <4>1
    <3>2. CASE ~m.body
      <4>1. E = H /\ kind # "request"
        BY Zenon, <1>2, <2>2, <2>4, <3>2
      <4>2. kind = "response"
        BY Zenon, <1>6, <4>1
      <4>3. QED
        BY Zenon, <1>1, <3>2, <4>1, <4>2
    <3>3. QED
      BY <3>1, <3>2
  <2>5. QED
    BY Zenon, <2>1, <2>3, <2>4 DEF g, r, E, m, l
<1>14. CASE t = "body"
  <2>1. g + r <= E
    BY Zenon, <1>4, <1>14
  <2>2. Reader!Completes(Rest) <=> /\ Rest = <<>> \/ Rest[1].of # 1
                                   /\ Rest # <<>> \/ unread = <<>> \/ unread[1].of # 1
    BY Zenon, <1>7, <1>14
  <2>3. CASE g + r = E
    <3>1. Rest # <<>> => Rest[1].of # 1
      <4>1. SUFFICES ASSUME Rest # <<>> PROVE Rest[1].of # 1
        OBVIOUS
      <4>2. Rest[1] = Stream[E + 1] /\ E + 1 <= l
        BY Zenon, <1>10, <2>3, <4>1
      <4>3. E + 1 \in (E + 1)..l
        BY <1>2, <1>6, <4>2
      <4>4. Stream[E + 1].of > 1
        BY Zenon, <1>1, <4>3
      <4>5. ~(1 > 1)
        OBVIOUS
      <4>6. QED
        BY Zenon, <4>2, <4>4, <4>5
    <3>2. Rest = <<>> /\ unread # <<>> => unread[1].of # 1
      <4>1. SUFFICES ASSUME Rest = <<>>, unread # <<>> PROVE unread[1].of # 1
        OBVIOUS
      <4>2. Got = E
        BY <1>3, <1>6, <1>8, <2>3, <4>1
      <4>3. unread[1] = Stream[E + 1] /\ E + 1 <= l
        BY Zenon, <1>11, <4>1, <4>2
      <4>4. E + 1 \in (E + 1)..l
        BY <1>2, <1>6, <4>3
      <4>5. Stream[E + 1].of > 1
        BY Zenon, <1>1, <4>4
      <4>6. ~(1 > 1)
        OBVIOUS
      <4>7. QED
        BY Zenon, <4>3, <4>5, <4>6
    <3>3. Reader!Completes(Rest)
      BY Zenon, <2>2, <3>1, <3>2
    <3>4. QED
      BY Zenon, <2>3, <3>3 DEF g, r, E, m
  <2>4. CASE g + r # E
    <3>1. g + r < E
      BY <1>2, <1>3, <2>1, <2>4
    <3>2. (g + r) + 1 \in 1..E
      BY <1>2, <1>3, <3>1
    <3>3. Stream[(g + r) + 1].of = 1
      BY Zenon, <1>1, <3>2
    <3>4. Rest # <<>> => Rest[1].of = 1
      BY Zenon, <1>10, <3>3
    <3>5. Rest = <<>> => unread # <<>> /\ unread[1].of = 1
      <4>1. SUFFICES ASSUME Rest = <<>> PROVE unread # <<>> /\ unread[1].of = 1
        OBVIOUS
      <4>2. Got = g + r
        BY <1>3, <1>6, <1>8, <4>1
      <4>3. Got # l
        BY <1>1, <1>2, <1>3, <1>6, <3>1, <4>2
      <4>4. QED
        BY Zenon, <1>9, <1>11, <3>3, <4>2, <4>3
    <3>6. ~Reader!Completes(Rest)
      BY Zenon, <2>2, <3>4, <3>5
    <3>7. QED
      BY Zenon, <3>1, <3>6 DEF g, r, E, m
  <2>5. QED
    BY <2>3, <2>4
<1>15. QED
  BY Zenon, <1>4, <1>12, <1>13, <1>14

\* What a callback sets.
LEMMA CallsSet ==
    ASSUME Sending, Position, chunk # <<>>, Calls, Data(m_data)
    PROVE  LET t == chunk[1].tok IN
           /\ Data(m_data') /\ m_data'.close = m_data.close
           /\ t = "body" => m_data'.body = m_data.body \o Reader!Texts
           /\ t # "body" => m_data'.body = m_data.body
           /\ t = "url" /\ (Accepted \/ ~m_error')
                => m_data'.path = Reader!Texts /\ (~m_error => ~m_error')
           /\ t = "url" /\ ~Accepted => m_data'.path = m_data.path
           /\ t # "url" => m_data'.path = m_data.path /\ m_error' = m_error
           /\ t = "field" => m_field' = Reader!Texts
           /\ t # "field" => m_field' = m_field
           /\ t = "value" => m_data'.headers = [n \in DOMAIN m_data.headers \cup {m_field} |->
                                                  IF n = m_field THEN Reader!Texts
                                                                 ELSE m_data.headers[n]]
           /\ t # "value" => m_data'.headers = m_data.headers
<1> DEFINE t == chunk[1].tok
           Goal == /\ Data(m_data') /\ m_data'.close = m_data.close
                   /\ t = "body" => m_data'.body = m_data.body \o Reader!Texts
                   /\ t # "body" => m_data'.body = m_data.body
                   /\ t = "url" /\ (Accepted \/ ~m_error')
                        => m_data'.path = Reader!Texts /\ (~m_error => ~m_error')
                   /\ t = "url" /\ ~Accepted => m_data'.path = m_data.path
                   /\ t # "url" => m_data'.path = m_data.path /\ m_error' = m_error
                   /\ t = "field" => m_field' = Reader!Texts
                   /\ t # "field" => m_field' = m_field
                   /\ t = "value" => m_data'.headers =
                                       [n \in DOMAIN m_data.headers \cup {m_field} |->
                                          IF n = m_field THEN Reader!Texts
                                                         ELSE m_data.headers[n]]
                   /\ t # "value" => m_data'.headers = m_data.headers
<1> USE DEF Calls
<1>1. CASE t = "url" /\ Reader!OnUrl
  <2>1. m_field' = m_field
    BY Zenon, <1>1 DEF Reader!OnUrl
  <2>2. CASE Accepted
    <3>1. m_data' = [m_data EXCEPT !.path = Reader!Texts] /\ m_error' = m_error
      BY Zenon, <1>1, <2>2 DEF Reader!OnUrl, Accepted
    <3>2. /\ Data(m_data') /\ m_data'.path = Reader!Texts /\ m_data'.headers = m_data.headers
          /\ m_data'.body = m_data.body /\ m_data'.close = m_data.close
      BY Zenon, <3>1, ExceptPath
    <3>3. QED
      BY <1>1, <2>1, <2>2, <3>1, <3>2
  <2>3. CASE ~Accepted
    <3>1. m_data' = m_data /\ m_error' = TRUE
      BY Zenon, <1>1, <2>3 DEF Reader!OnUrl, Accepted
    <3>2. QED
      BY <1>1, <2>1, <2>3, <3>1
  <2>4. QED
    BY Zenon, <2>2, <2>3
<1>2. CASE t = "field" /\ Reader!OnHeaderField
  <2>1. m_field' = Reader!Texts /\ m_data' = m_data /\ m_error' = m_error
    BY Zenon, <1>2 DEF Reader!OnHeaderField
  <2>2. QED
    BY <1>2, <2>1
<1>3. CASE t = "value" /\ Reader!OnHeaderValue
  <2> DEFINE h == [n \in DOMAIN m_data.headers \cup {m_field} |->
                     IF n = m_field THEN Reader!Texts ELSE m_data.headers[n]]
  <2>1. m_field' = m_field /\ m_data' = [m_data EXCEPT !.headers = h] /\ m_error' = m_error
    BY <1>3 DEF Reader!OnHeaderValue
  <2> HIDE DEF h
  <2>2. /\ Data(m_data') /\ m_data'.path = m_data.path /\ m_data'.headers = h
        /\ m_data'.body = m_data.body /\ m_data'.close = m_data.close
    BY Zenon, <2>1, ExceptHeaders
  <2>3. t # "body" /\ t # "url" /\ t # "field" /\ t = "value"
    BY <1>3
  <2>4. QED
    BY Zenon, <2>1, <2>2, <2>3 DEF h
<1>4. CASE t = "body" /\ Reader!OnBody
  <2>1. m_field' = m_field /\ m_data' = [m_data EXCEPT !.body = m_data.body \o Reader!Texts]
        /\ m_error' = m_error
    BY <1>4 DEF Reader!OnBody
  <2>2. /\ Data(m_data') /\ m_data'.path = m_data.path /\ m_data'.headers = m_data.headers
        /\ m_data'.body = m_data.body \o Reader!Texts /\ m_data'.close = m_data.close
    BY Zenon, <2>1, ExceptBody
  <2>3. QED
    BY <1>4, <2>1, <2>2
<1>5. CASE t \in {"status", "headers"} /\ Reader!OnOther
  <2>1. m_field' = m_field /\ m_data' = m_data /\ m_error' = m_error
    BY Zenon, <1>5 DEF Reader!OnOther
  <2>2. QED
    BY <1>5, <2>1
<1>6. Goal
  BY Zenon, <1>1, <1>2, <1>3, <1>4, <1>5
<1>7. QED
  BY Zenon, <1>6

\* The next piece of the first message is put where it belongs.
LEMMA NextFilled ==
    ASSUME Sending, ReaderTypes, Position, Filled, Reader!Execute, ~m_error', ~merged'
    PROVE  Filled'
<1> DEFINE m == messages[1]
           H == HeadersEnd(m)
           E == MessageEnd(m)
           r == Len(Reader!Piece)
           t == chunk[1].tok
           g == Given
           l == Len(Stream)
<1>1. /\ chunk # <<>> /\ ~m_error /\ ~dead
      /\ UNCHANGED <<kind, messages, unread, cut>>
      /\ chunk' = Rest /\ merged' = (merged \/ m_finished) /\ Calls
      /\ m_finished' = (m_finished \/ Reader!Completes(Rest))
  BY Zenon, ExecuteIs
<1>2. ~m_finished /\ (m_finished' <=> Reader!Completes(Rest))
  BY Zenon, <1>1
<1>3. m \in Message /\ Stream \in Seq(Byte)
  BY Zenon, FirstMessage
<1>4. /\ H \in 10..11 /\ E \in H..13 /\ E \in Nat /\ E = IF m.body THEN H + 2 ELSE H
  BY Zenon, <1>3, EndsAre
<1>5. /\ r \in 1..Len(chunk) /\ g \in Nat /\ g + r <= Got /\ Got \in Nat /\ Got <= l
  BY Zenon, <1>1, <1>3, PieceGiven
<1>6. l \in Nat
  BY <1>3
<1>7. /\ g < E \/ (g = E /\ g = l)
      /\ m_data.body = SubSeq(Reader!Body, 1, g - H)
      /\ kind = "request" /\ "url" \notin cut /\ g > 0 => m_data.path = Reader!Url
      /\ cut \cap {"field", "value"} = {} =>
           /\ g >= 7 => m_field = Reader!Name
           /\ g <= 7 => m_data.headers = [n \in {} |-> <<>>]
           /\ g > 7 => m_data.headers = [n \in {Reader!Name} |-> Reader!Value(m.keep)]
  BY Zenon, <1>2 DEF Filled, FilledBy
<1>8. g < E
  <2> HIDE DEF g, l, r, E
  <2>1. g # l
    BY <1>5, <1>6
  <2>2. QED
    BY Zenon, <1>7, <2>1
<1>9. Given' = g + r /\ Stream' = Stream
  <2>1. chunk' = SubSeq(chunk, Len(Reader!Piece) + 1, Len(chunk))
    BY Zenon, <1>1 DEF Rest
  <2>2. Given' = Given + Len(Reader!Piece)
    BY Zenon, <1>1, <1>3, <2>1, NextPosition
  <2>3. QED
    BY Zenon, <1>1, <2>2, SameStream
<1>10. /\ Reader!Completes(Rest) => g + r = E
       /\ ~Reader!Completes(Rest) => g + r < E \/ (g + r = E /\ g + r = l)
  BY Zenon, <1>1, <1>8, CompletesAtEnd
<1>11. /\ t \in {"url", "status", "field", "value", "headers", "body"}
       /\ t \in {"url", "status"} => g + r <= 4
       /\ t = "field" => g >= 4 /\ g + r <= 7 /\ (t \notin cut => g = 4 /\ r = 3)
       /\ t = "value" => g >= 7 /\ g + r <= H - 1 /\ (t \notin cut => g = 7 /\ g + r = H - 1)
       /\ t = "headers" => g = H - 1 /\ r = 1
       /\ t = "body" => g >= H /\ g + r <= E
  BY Zenon, <1>1, <1>8, PieceOfFirst
<1>12. /\ t \in {"url", "status"} /\ kind = "request" /\ "url" \notin cut
            => t = "url" /\ Reader!Texts = Reader!Url
       /\ t = "field" /\ t \notin cut => Reader!Texts = Reader!Name
       /\ t = "value" /\ t \notin cut => Reader!Texts = Reader!Value(m.keep)
       /\ t = "body" => Reader!Texts = [q \in 1..r |-> Reader!Body[(g - H) + q]]
  BY Zenon, <1>1, <1>8, TextsOfFirst
<1>13. /\ t = "body" => m_data'.body = m_data.body \o Reader!Texts
       /\ t # "body" => m_data'.body = m_data.body
       /\ t = "url" => m_data'.path = Reader!Texts
       /\ t # "url" => m_data'.path = m_data.path
       /\ t = "field" => m_field' = Reader!Texts
       /\ t # "field" => m_field' = m_field
       /\ t = "value" => m_data'.headers = [n \in DOMAIN m_data.headers \cup {m_field} |->
                                              IF n = m_field THEN Reader!Texts
                                                             ELSE m_data.headers[n]]
       /\ t # "value" => m_data'.headers = m_data.headers
  <2>1. Data(m_data)
    BY Zenon DEF ReaderTypes
  <2>2. QED
    BY Zenon, <1>1, <2>1, CallsSet
<1> HIDE DEF r, t, g, l, E, H, m
<1>14. r \in Nat /\ r >= 1
  BY <1>5
<1>15. m_data'.body = SubSeq(Reader!Body, 1, (g + r) - H)
  <2>1. CASE t = "body"
    <3>1. g - H \in Nat /\ (g - H) + r = (g + r) - H /\ (g - H) + r <= 2
      BY <1>4, <1>5, <1>11, <1>14, <2>1
    <3>2. m_data'.body = SubSeq(Reader!Body, 1, g - H) \o [q \in 1..r |-> Reader!Body[(g - H) + q]]
      BY Zenon, <1>7, <1>12, <1>13, <2>1
    <3>3. m_data'.body = SubSeq(Reader!Body, 1, (g - H) + r)
      BY Zenon, <1>14, <3>1, <3>2, BodyParts
    <3>4. QED
      BY Zenon, <3>1, <3>3
  <2>2. CASE t # "body"
    <3>1. g - H \in Int /\ g - H <= 0 /\ (g + r) - H \in Int /\ (g + r) - H <= 0
      BY <1>4, <1>5, <1>11, <1>14, <2>2
    <3>2. SubSeq(Reader!Body, 1, g - H) = <<>> /\ SubSeq(Reader!Body, 1, (g + r) - H) = <<>>
      BY Zenon, <3>1, BodyParts
    <3>3. QED
      BY Zenon, <1>7, <1>13, <2>2, <3>2
  <2>3. QED
    BY Zenon, <2>1, <2>2
<1>16. ASSUME kind = "request", "url" \notin cut
       PROVE  m_data'.path = Reader!Url
  <2>1. CASE t \in {"url", "status"}
    BY Zenon, <1>12, <1>13, <1>16, <2>1
  <2>2. CASE t \notin {"url", "status"}
    <3>1. g > 0
      BY <1>4, <1>5, <1>11, <2>2
    <3>2. t # "url"
      BY Zenon, <2>2
    <3>3. QED
      BY Zenon, <1>7, <1>13, <1>16, <3>1, <3>2
  <2>3. QED
    BY Zenon, <2>1, <2>2
<1>17. ASSUME cut \cap {"field", "value"} = {}
       PROVE  /\ g + r >= 7 => m_field' = Reader!Name
              /\ g + r <= 7 => m_data'.headers = [n \in {} |-> <<>>]
              /\ g + r > 7 => m_data'.headers = [n \in {Reader!Name} |-> Reader!Value(m.keep)]
  <2>1. "field" \notin cut /\ "value" \notin cut
    BY Zenon, <1>17
  <2>2. /\ g >= 7 => m_field = Reader!Name
        /\ g <= 7 => m_data.headers = [n \in {} |-> <<>>]
        /\ g > 7 => m_data.headers = [n \in {Reader!Name} |-> Reader!Value(m.keep)]
    BY Zenon, <1>7, <1>17
  <2>3. CASE t \in {"url", "status"}
    <3>1. g + r <= 4 /\ t # "field" /\ t # "value"
      BY <1>11, <2>3
    <3>2. g <= 7 /\ ~(g + r >= 7) /\ ~(g + r > 7)
      BY <1>5, <1>14, <3>1
    <3>3. QED
      BY Zenon, <1>13, <2>2, <3>1, <3>2
  <2>4. CASE t = "field"
    <3>1. g = 4 /\ r = 3 /\ t # "value"
      BY <1>11, <2>1, <2>4
    <3>2. g <= 7 /\ ~(g + r > 7)
      BY <3>1
    <3>3. QED
      BY Zenon, <1>12, <1>13, <2>1, <2>2, <2>4, <3>1, <3>2
  <2>5. CASE t = "value"
    <3>1. g = 7 /\ g + r = H - 1 /\ t # "field"
      BY <1>11, <2>1, <2>5
    <3>2. g >= 7 /\ g <= 7 /\ g + r > 7 /\ ~(g + r <= 7)
      BY <1>14, <3>1
    <3>3. m_field = Reader!Name /\ m_data.headers = [n \in {} |-> <<>>] /\ Reader!Texts = Reader!Value(m.keep)
      BY Zenon, <1>12, <2>1, <2>2, <2>5, <3>2
    <3> DEFINE N == Reader!Name
               V == Reader!Value(m.keep)
               x == [n \in {} |-> <<>>]
    <3>4. m_data'.headers = [n \in DOMAIN m_data.headers \cup {m_field} |->
                               IF n = m_field THEN Reader!Texts ELSE m_data.headers[n]]
      BY Zenon, <1>13, <2>5
    <3>5. m_data'.headers = [n \in DOMAIN x \cup {N} |-> IF n = N THEN V ELSE x[n]]
      BY Zenon, <3>3, <3>4
    <3> HIDE DEF N, V
    <3>6. [n \in DOMAIN x \cup {N} |-> IF n = N THEN V ELSE x[n]] = [n \in {N} |-> V]
      OBVIOUS
    <3>7. m_data'.headers = [n \in {N} |-> V]
      BY Zenon, <3>5, <3>6
    <3>8. QED
      BY Zenon, <1>13, <3>1, <3>2, <3>3, <3>7 DEF N, V
  <2>6. CASE t \in {"headers", "body"}
    <3>1. g > 7 /\ t # "field" /\ t # "value"
      BY <1>4, <1>5, <1>11, <2>6
    <3>2. g >= 7 /\ ~(g + r <= 7)
      BY <1>5, <1>14, <3>1
    <3>3. QED
      BY Zenon, <1>13, <2>2, <3>1, <3>2
  <2>7. QED
    BY Zenon, <1>11, <2>3, <2>4, <2>5, <2>6
<1>18. FilledBy(kind, m, l, cut, g + r, m_finished', m_data', m_field')
  <2>1. m_finished' => g + r = E
    BY Zenon, <1>2, <1>10
  <2>2. ~m_finished' => g + r < E \/ (g + r = E /\ g + r = l)
    BY Zenon, <1>2, <1>10
  <2>3. QED
    BY Zenon, <1>15, <1>16, <1>17, <2>1, <2>2 DEF FilledBy, E, H
<1>19. FilledBy(kind', messages'[1], Len(Stream'), cut', Given', m_finished', m_data', m_field')
  <2>1. kind' = kind /\ messages' = messages /\ cut' = cut
    BY Zenon, <1>1
  <2>2. QED
    BY Zenon, <1>9, <1>18, <2>1 DEF m, l
<1>20. QED
  BY Zenon, <1>19 DEF Filled

LEMMA ReaderStarts ==
    ASSUME MaxMessages \in Nat, Reader!Init
    PROVE  ReaderInv
<1> USE DEF Reader!Init
<1>1. PICK n \in 1..MaxMessages : messages \in [1..n -> [keep : BOOLEAN, body : BOOLEAN]]
  BY Zenon
<1>2. messages \in Seq(Message) /\ Len(messages) = n /\ messages # <<>> /\ n >= 1
  <2>1. messages \in [1..n -> Message]
    BY Zenon, <1>1 DEF Message
  <2>2. n \in Nat /\ n >= 1
    OBVIOUS
  <2> DEFINE ms == messages
  <2> HIDE DEF ms
  <2>3. ms \in [1..n -> Message]
    BY Zenon, <2>1 DEF ms
  <2>4. ms \in Seq(Message) /\ Len(ms) = n /\ ms # <<>>
    BY <2>2, <2>3
  <2>5. QED
    BY Zenon, <2>2, <2>4 DEF ms
<1>3. Sending
  BY Zenon, <1>2 DEF Sending
<1> DEFINE m == messages[1]
           H == HeadersEnd(m)
           l == Len(Stream)
<1>4. m \in Message /\ Stream \in Seq(Byte)
  BY Zenon, <1>3, FirstMessage
<1>5. H \in 10..11 /\ MessageEnd(m) \in H..13
  BY Zenon, <1>4, EndsAre
<1>6. unread = Stream /\ chunk = <<>> /\ cut = {} /\ stage = "read"
  BY Zenon DEF Stream
<1>7. m_data = [path |-> <<"/">>, headers |-> [k \in {} |-> <<>>], body |-> <<>>, close |-> TRUE]
      /\ m_field = <<>> /\ m_finished = FALSE /\ m_error = FALSE /\ dead = FALSE
  BY Zenon DEF Reader!NoData
<1>8. l \in Nat /\ Given = 0 /\ Got = 0
  <2>1. l \in Nat
    BY <1>4
  <2>2. Len(chunk) = 0 /\ Len(unread) = l
    BY <1>6
  <2> HIDE DEF l
  <2>3. Given = l - Len(chunk) - Len(unread) /\ Got = l - Len(unread)
    BY Zenon DEF Given, Got, l
  <2>4. QED
    BY <2>1, <2>2, <2>3
<1>9. Position
  <2>1. chunk \in Seq(Byte) /\ unread \in Seq(Byte) /\ Len(chunk) = 0
    BY <1>4, <1>6
  <2>2. \A q \in 1..Len(unread) : 0 + q = q
    BY <2>1
  <2>3. \A q \in 1..Len(unread) : unread[q] = Stream[Got + q]
    BY Zenon, <1>6, <1>8, <2>2
  <2>4. \A q : ~(q \in 1..0)
    OBVIOUS
  <2>5. ~(0 > 0) /\ 0 >= 0
    OBVIOUS
  <2>6. CutAt(Given) /\ CutAt(Got)
    BY Zenon, <1>8, <2>5 DEF CutAt, CutIn
  <2>7. QED
    BY Zenon, <1>8, <2>1, <2>3, <2>4, <2>5, <2>6 DEF Position
<1>10. m_data.path = <<"/">> /\ m_data.headers = [k \in {} |-> <<>>] /\ m_data.body = <<>>
       /\ m_data.close = TRUE /\ Data(m_data)
  BY <1>7 DEF Data
<1>11. Filled
  <2> HIDE DEF H
  <2>1. 0 - H \in Int /\ 0 - H <= 0 /\ 0 < MessageEnd(m) /\ ~(0 > 0) /\ ~(0 >= 7) /\ ~(0 > 7)
    BY <1>5
  <2>2. m_data.body = SubSeq(Reader!Body, 1, 0 - H)
    BY Zenon, <1>10, <2>1, BodyParts
  <2>3. FilledBy(kind, m, l, cut, 0, m_finished, m_data, m_field)
    BY Zenon, <1>7, <1>10, <2>1, <2>2 DEF FilledBy, H
  <2>4. QED
    BY Zenon, <1>8, <2>3 DEF Filled
<1>12. ReaderTypes
  <2>1. Len(<<"/">>) = 1 /\ 1 \in 1..3
    OBVIOUS
  <2>2. Len(m_data.path) \in 1..3
    BY Zenon, <1>10, <2>1
  <2>3. m_field \in Seq(NameTexts)
    BY <1>7
  <2>4. QED
    BY Zenon, <1>6, <1>10, <2>2, <2>3 DEF ReaderTypes
<1>13. Reader!MessageAsSent
  <2>1. stage # "done" /\ ~m_error
    BY <1>6, <1>7
  <2>2. QED
    BY Zenon, <2>1 DEF Reader!MessageAsSent
<1>14. QED
  BY Zenon, <1>3, <1>6, <1>7, <1>9, <1>11, <1>12, <1>13 DEF ReaderInv

\* More tokens are cut, and less is said.
LEMMA MoreCut ==
    ASSUME NEW k, NEW m, NEW l, NEW c, NEW c2, c \subseteq c2, NEW g, NEW done, NEW d, NEW name,
           FilledBy(k, m, l, c, g, done, d, name)
    PROVE  FilledBy(k, m, l, c2, g, done, d, name)
<1>1. "url" \notin c2 => "url" \notin c
  OBVIOUS
<1>2. c2 \cap {"field", "value"} = {} => c \cap {"field", "value"} = {}
  OBVIOUS
<1>3. QED
  BY Zenon, <1>1, <1>2 DEF FilledBy

LEMMA ReadKeeps ==
    ASSUME ReaderInv, Reader!Read
    PROVE  ReaderInv'
<1>1. /\ stage = "read" /\ unread # <<>> /\ stage' = "execute"
      /\ UNCHANGED <<kind, messages, dead, m_data, m_field, m_finished, m_error, merged>>
  BY Zenon DEF Reader!Read
<1> DEFINE u == Len(unread)
           l == Len(Stream)
<1>2. PICK n \in 1..u :
        /\ chunk' = SubSeq(unread, 1, n) /\ unread' = SubSeq(unread, n + 1, u)
        /\ cut' = IF n < u /\ unread[n].tok = unread[n + 1].tok
                    THEN cut \cup {unread[n].tok} ELSE cut
  BY Zenon DEF Reader!Read
<1>3. /\ Sending /\ ReaderTypes /\ Position /\ (~merged /\ ~m_error => Filled)
      /\ chunk = <<>> /\ ~m_error /\ ~m_finished
  BY Zenon, <1>1 DEF ReaderInv
<1>4. /\ unread \in Seq(Byte) /\ Given >= 0 /\ CutAt(Given) /\ CutAt(Got)
      /\ \A q \in 1..u : unread[q] = Stream[Got + q]
  BY Zenon, <1>3 DEF Position
<1>5. Stream' = Stream /\ Stream \in Seq(Byte)
  BY Zenon, <1>1, <1>3, SameStream, FirstMessage
<1>6. u \in Nat /\ l \in Nat
  BY <1>4, <1>5
<1>7. /\ chunk' \in Seq(Byte) /\ Len(chunk') = n /\ \A q \in 1..n : chunk'[q] = unread[q]
      /\ unread' \in Seq(Byte) /\ Len(unread') = u - n
      /\ \A q \in 1..(u - n) : unread'[q] = unread[n + q]
  BY <1>2, <1>4
<1>8. cut \subseteq cut'
  BY <1>2
<1>9. Len(chunk) = 0
  BY <1>3
<1>10. Given = l - Len(chunk) - u /\ Got = l - u
  BY Zenon DEF Given, Got
<1>11. Given' = l - Len(chunk') - Len(unread') /\ Got' = l - Len(unread')
  BY Zenon, <1>5 DEF Given, Got
<1> HIDE DEF u, l
<1>12. Given' = Given /\ Given = Got /\ Got' = Got + n /\ Got \in Nat
  <2>1. Len(chunk') = n /\ Len(unread') = u - n /\ Given >= 0 /\ n \in 1..u
    BY Zenon, <1>4, <1>7
  <2> DEFINE a == Given
             b == Given'
             x == Got
             y == Got'
  <2>2. a = l - 0 - u /\ x = l - u /\ b = l - n - (u - n) /\ y = l - (u - n) /\ a >= 0
    BY Zenon, <1>9, <1>10, <1>11, <2>1
  <2> HIDE DEF a, b, x, y
  <2>3. b = a /\ a = x /\ y = x + n /\ x \in Nat
    BY <1>6, <2>1, <2>2
  <2>4. QED
    BY Zenon, <2>3 DEF a, b, x, y
<1>13. Position'
  <2>1. \A q \in 1..n : q \in 1..u
    BY <1>2, <1>6
  <2>2. \A q \in 1..Len(chunk') : chunk'[q] = Stream'[Given' + q]
    BY Zenon, <1>4, <1>5, <1>7, <1>12, <2>1
  <2>3. ASSUME NEW q \in 1..(u - n)
        PROVE  unread'[q] = Stream'[Got' + q]
    <3>1. n + q \in 1..u /\ Got + (n + q) = (Got + n) + q
      BY <1>2, <1>6, <1>12
    <3>2. unread'[q] = Stream[Got + (n + q)]
      BY Zenon, <1>4, <1>7, <3>1
    <3>3. QED
      BY Zenon, <1>5, <1>12, <3>1, <3>2
  <2>4. CutAt(Given)'
    <3>1. CutIn(Stream, cut', Given)
      BY <1>4, <1>8 DEF CutAt, CutIn
    <3>2. QED
      BY Zenon, <1>5, <1>12, <3>1 DEF CutAt
  <2>5. CutAt(Got)'
    <3>1. ASSUME Got + n < l, Stream[Got + n].tok = Stream[(Got + n) + 1].tok
          PROVE  Stream[Got + n].tok \in cut'
      <4>1. n < u /\ n + 1 \in 1..u /\ Got + (n + 1) = (Got + n) + 1
        BY <1>2, <1>6, <1>10, <3>1
      <4>2. unread[n] = Stream[Got + n] /\ unread[n + 1] = Stream[(Got + n) + 1]
        <5>1. unread[n] = Stream[Got + n]
          BY Zenon, <1>4
        <5>2. unread[n + 1] = Stream[Got + (n + 1)]
          BY Zenon, <1>4, <4>1
        <5>3. QED
          BY Zenon, <4>1, <5>1, <5>2
      <4>3. cut' = cut \cup {unread[n].tok}
        BY Zenon, <1>2, <3>1, <4>1, <4>2
      <4>4. QED
        BY Zenon, <4>2, <4>3
    <3>2. CutIn(Stream, cut', Got + n)
      BY Zenon, <3>1 DEF CutIn, l
    <3>3. QED
      BY Zenon, <1>5, <1>12, <3>2 DEF CutAt
  <2>6. Given' >= 0
    BY Zenon, <1>4, <1>12
  <2>7. QED
    BY Zenon, <1>7, <2>2, <2>3, <2>4, <2>5, <2>6 DEF Position
<1>14. ASSUME ~merged', ~m_error'
       PROVE  Filled'
  <2>1. Filled
    BY Zenon, <1>1, <1>3, <1>14
  <2>2. FilledBy(kind, messages[1], l, cut', Given, m_finished, m_data, m_field)
    BY Zenon, <1>8, <2>1, MoreCut DEF Filled, l
  <2>3. FilledBy(kind', messages'[1], Len(Stream'), cut', Given', m_finished', m_data', m_field')
    BY Zenon, <1>1, <1>5, <1>12, <2>2 DEF l
  <2>4. QED
    BY Zenon, <2>3 DEF Filled
<1>15. Sending' /\ ReaderTypes'
  BY <1>1, <1>3 DEF Sending, ReaderTypes, Data
<1>16. stage' # "done" /\ stage' # "read" /\ ~m_error'
  BY <1>1, <1>3
<1>17. Reader!MessageAsSent'
  BY Zenon, <1>16 DEF Reader!MessageAsSent
<1>18. QED
  BY Zenon, <1>13, <1>14, <1>15, <1>16, <1>17 DEF ReaderInv

LEMMA ReadFailsKeeps ==
    ASSUME ReaderInv, Reader!ReadFails
    PROVE  ReaderInv'
<1>1. /\ stage = "read" /\ stage' = "failed"
      /\ UNCHANGED <<kind, messages, unread, chunk, dead, m_data, m_field, m_finished, m_error,
                     cut, merged>>
  BY Zenon DEF Reader!ReadFails
<1>2. Sending /\ ReaderTypes /\ ~m_error
  BY Zenon, <1>1 DEF ReaderInv
<1>3. Sending' /\ ReaderTypes'
  BY <1>1, <1>2 DEF Sending, ReaderTypes, Data
<1>4. stage' \notin {"read", "execute"} /\ stage' # "read" /\ stage' # "done" /\ ~m_error'
  BY <1>1, <1>2
<1>5. Reader!MessageAsSent'
  BY Zenon, <1>4 DEF Reader!MessageAsSent
<1>6. QED
  BY Zenon, <1>3, <1>4, <1>5 DEF ReaderInv

LEMMA ExecuteKeeps ==
    ASSUME ReaderInv, Reader!Execute
    PROVE  ReaderInv'
<1> DEFINE t == chunk[1].tok
<1>1. /\ stage = "execute" /\ chunk # <<>> /\ ~m_error
      /\ UNCHANGED <<kind, messages, unread, stage, cut>>
      /\ dead => m_error' /\ UNCHANGED <<chunk, m_data, m_field, m_finished, dead, merged>>
      /\ ~dead => /\ chunk' = Rest /\ merged' = (merged \/ m_finished) /\ Calls
                  /\ m_finished' = (m_finished \/ Reader!Completes(Rest))
  BY Zenon, ExecuteIs
<1>2. /\ Sending /\ ReaderTypes /\ Position /\ (~merged /\ ~m_error => Filled)
  BY Zenon, <1>1 DEF ReaderInv
<1>3. Stream \in Seq(Byte)
  BY Zenon, <1>2, FirstMessage
<1>4. Position'
  <2>1. CASE dead
    <3>1. Stream' = Stream /\ chunk' = chunk /\ unread' = unread /\ cut' = cut
      BY Zenon, <1>1, <2>1, SameStream
    <3>2. Given' = Given /\ Got' = Got
      BY Zenon, <3>1 DEF Given, Got
    <3>3. QED
      BY Zenon, <1>2, <3>1, <3>2 DEF Position, CutAt
  <2>2. CASE ~dead
    BY Zenon, <1>1, <1>2, <1>3, <2>2, NextPosition DEF Rest
  <2>3. QED
    BY Zenon, <2>1, <2>2
<1>5. ASSUME ~merged', ~m_error'
      PROVE  Filled'
  <2>1. ~dead
    BY Zenon, <1>1, <1>5
  <2>2. ~merged
    BY Zenon, <1>1, <1>5, <2>1
  <2>3. QED
    BY Zenon, <1>1, <1>2, <1>5, <2>2, NextFilled
<1>6. /\ t = "url" => /\ Accepted => Len(Reader!Texts) \in 1..3
                      /\ Accepted \/ "url" \in cut
      /\ t = "field" => Reader!Texts \in Seq(NameTexts)
  BY Zenon, <1>1, <1>2, TextsOfAny
<1>7. Data(m_data) /\ m_data.close \in BOOLEAN /\ Len(m_data.path) \in 1..3
      /\ m_field \in Seq(NameTexts) /\ stage \in {"read", "execute", "done", "failed"}
  BY Zenon, <1>2 DEF ReaderTypes
<1>8. ~dead =>
        /\ Data(m_data') /\ m_data'.close = m_data.close
        /\ t = "url" /\ (Accepted \/ ~m_error')
             => m_data'.path = Reader!Texts /\ (~m_error => ~m_error')
        /\ t = "url" /\ ~Accepted => m_data'.path = m_data.path
        /\ t # "url" => m_data'.path = m_data.path /\ m_error' = m_error
        /\ t = "field" => m_field' = Reader!Texts
        /\ t # "field" => m_field' = m_field
  BY Zenon, <1>1, <1>2, <1>7, CallsSet
<1> HIDE DEF t
<1>9. ReaderTypes'
  <2>1. CASE dead
    BY Zenon, <1>1, <1>7, <2>1 DEF ReaderTypes
  <2>2. CASE ~dead
    <3>1. Data(m_data') /\ m_data'.close \in BOOLEAN
      BY Zenon, <1>7, <1>8, <2>2
    <3>2. Len(m_data'.path) \in 1..3
      BY Zenon, <1>6, <1>7, <1>8, <2>2
    <3>3. m_field' \in Seq(NameTexts)
      BY Zenon, <1>6, <1>7, <1>8, <2>2
    <3>4. stage' \in {"read", "execute", "done", "failed"}
      BY Zenon, <1>1, <1>7
    <3>5. QED
      BY Zenon, <3>1, <3>2, <3>3, <3>4 DEF ReaderTypes
  <2>3. QED
    BY Zenon, <2>1, <2>2
<1>10. m_error' => "url" \in cut' \/ dead'
  <2>1. CASE dead
    BY Zenon, <1>1, <2>1
  <2>2. CASE ~dead
    BY Zenon, <1>1, <1>6, <1>8, <2>2
  <2>3. QED
    BY Zenon, <2>1, <2>2
<1>11. stage' # "done" /\ stage' # "read"
  BY <1>1
<1>12. Reader!MessageAsSent'
  BY Zenon, <1>10, <1>11 DEF Reader!MessageAsSent
<1>13. Sending'
  BY Zenon, <1>1, <1>2 DEF Sending
<1>14. QED
  BY Zenon, <1>4, <1>5, <1>9, <1>11, <1>12, <1>13 DEF ReaderInv

LEMMA ExecutedKeeps ==
    ASSUME ReaderInv, Reader!Executed
    PROVE  ReaderInv'
<1> DEFINE m == messages[1]
           H == HeadersEnd(m)
           E == MessageEnd(m)
           closed == [m_data EXCEPT !.close = Reader!Close(m_data)]
           c == Reader!Close(m_data)
<1>1. /\ stage = "execute" /\ (chunk = <<>> \/ m_error)
      /\ stage' = IF m_error THEN "failed" ELSE IF m_finished THEN "done" ELSE "read"
      /\ m_data' = IF stage' = "done" /\ kind = "request" THEN closed ELSE m_data
      /\ chunk' = <<>>
      /\ UNCHANGED <<kind, messages, unread, dead, m_field, m_finished, m_error, cut, merged>>
  BY Zenon DEF Reader!Executed
<1>2. /\ Sending /\ ReaderTypes /\ Position /\ (~merged /\ ~m_error => Filled)
      /\ Reader!MessageAsSent
  BY Zenon, <1>1 DEF ReaderInv
<1>3. Data(m_data) /\ m_data.close \in BOOLEAN /\ Len(m_data.path) \in 1..3
      /\ m_field \in Seq(NameTexts)
  BY Zenon, <1>2 DEF ReaderTypes
<1>4. /\ Data(closed) /\ closed.path = m_data.path /\ closed.headers = m_data.headers
      /\ closed.body = m_data.body /\ closed.close = c
  BY Zenon, <1>3, ExceptClose
<1>5. c \in BOOLEAN /\ c = IF Reader!Name \in DOMAIN m_data.headers
                             THEN m_data.headers[Reader!Name] # Reader!Value(TRUE) ELSE m_data.close
  BY <1>3 DEF Reader!Close
<1> HIDE DEF closed, c
<1>6. /\ Data(m_data') /\ m_data'.path = m_data.path /\ m_data'.headers = m_data.headers
      /\ m_data'.body = m_data.body /\ m_data'.close \in BOOLEAN
      /\ stage' = "done" /\ kind = "request" => m_data'.close = c
  <2>1. CASE stage' = "done" /\ kind = "request"
    <3>1. m_data' = closed
      BY Zenon, <1>1, <2>1
    <3>2. QED
      BY Zenon, <1>4, <1>5, <3>1
  <2>2. CASE ~(stage' = "done" /\ kind = "request")
    <3>1. m_data' = m_data
      BY Zenon, <1>1, <2>2
    <3>2. QED
      BY Zenon, <1>3, <2>2, <3>1
  <2>3. QED
    BY Zenon, <2>1, <2>2
<1>7. ReaderTypes'
  <2>1. stage' \in {"read", "execute", "done", "failed"}
    BY <1>1
  <2>2. Len(m_data'.path) \in 1..3 /\ m_field' \in Seq(NameTexts)
    BY Zenon, <1>1, <1>3, <1>6
  <2>3. QED
    BY Zenon, <1>6, <2>1, <2>2 DEF ReaderTypes
<1>8. Sending'
  BY Zenon, <1>1, <1>2 DEF Sending
<1>9. m_error' => "url" \in cut' \/ dead'
  BY Zenon, <1>1, <1>2 DEF Reader!MessageAsSent
<1>10. CASE m_error
  <2>1. stage' = "failed"
    BY Zenon, <1>1, <1>10
  <2>2. stage' \notin {"read", "execute"} /\ stage' # "read" /\ stage' # "done"
    BY <2>1
  <2>3. Reader!MessageAsSent'
    BY Zenon, <1>9, <2>2 DEF Reader!MessageAsSent
  <2>4. QED
    BY Zenon, <1>7, <1>8, <2>2, <2>3 DEF ReaderInv
<1>11. CASE ~m_error /\ ~m_finished
  <2>1. stage' = "read" /\ chunk = <<>>
    BY Zenon, <1>1, <1>11
  <2>2. stage' # "done"
    BY <2>1
  <2>3. m_data' = m_data /\ chunk' = chunk
    BY Zenon, <1>1, <2>1, <2>2
  <2>4. Stream' = Stream
    BY Zenon, <1>1, SameStream
  <2>5. Given' = Given /\ Got' = Got
    BY Zenon, <1>1, <2>3, <2>4 DEF Given, Got
  <2>6. Position'
    BY Zenon, <1>1, <1>2, <2>3, <2>4, <2>5 DEF Position, CutAt
  <2>7. ~merged' /\ ~m_error' => Filled'
    BY Zenon, <1>1, <1>2, <2>3, <2>4, <2>5 DEF Filled
  <2>8. Reader!MessageAsSent'
    BY Zenon, <1>9, <2>2 DEF Reader!MessageAsSent
  <2>9. ~m_error' /\ ~m_finished' /\ chunk' = <<>>
    BY Zenon, <1>1, <1>11
  <2>10. QED
    BY Zenon, <1>7, <1>8, <2>6, <2>7, <2>8, <2>9 DEF ReaderInv
<1>12. CASE ~m_error /\ m_finished
  <2>1. stage' = "done"
    BY Zenon, <1>1, <1>12
  <2>2. stage' \notin {"read", "execute"} /\ stage' # "read"
    BY <2>1
  <2>3. m \in Message
    BY Zenon, <1>2, FirstMessage
  <2>4. /\ H \in 10..11 /\ E = (IF m.body THEN H + 2 ELSE H) /\ m.body \in BOOLEAN /\ m.keep \in BOOLEAN
    BY Zenon, <2>3, EndsAre
  <2>5. ASSUME ~merged'
        PROVE  /\ m_data'.body = IF m.body THEN Reader!Body ELSE <<>>
               /\ kind = "request" /\ "url" \notin cut => m_data'.path = Reader!Url
               /\ cut \cap {"field", "value"} = {} =>
                    /\ m_data'.headers = [n \in {Reader!Name} |-> Reader!Value(m.keep)]
                    /\ kind = "request" => m_data'.close = ~m.keep
    <3> DEFINE g == Given
    <3>1. /\ g = E
          /\ m_data.body = SubSeq(Reader!Body, 1, g - H)
          /\ kind = "request" /\ "url" \notin cut /\ g > 0 => m_data.path = Reader!Url
          /\ cut \cap {"field", "value"} = {} /\ g > 7 =>
               m_data.headers = [n \in {Reader!Name} |-> Reader!Value(m.keep)]
      BY Zenon, <1>1, <1>2, <1>12, <2>5 DEF Filled, FilledBy
    <3> HIDE DEF g, E, H, m
    <3>2. g > 0 /\ g > 7 /\ g - H = IF m.body THEN 2 ELSE 0
      BY <2>4, <3>1
    <3>3. m_data.body = IF m.body THEN Reader!Body ELSE <<>>
      <4>1. CASE m.body
        <5>1. g - H = 2
          BY Zenon, <3>2, <4>1
        <5>2. m_data.body = Reader!Body
          BY Zenon, <3>1, <5>1, BodyParts
        <5>3. QED
          BY Zenon, <4>1, <5>2
      <4>2. CASE ~m.body
        <5>1. g - H = 0
          BY Zenon, <3>2, <4>2
        <5>2. 0 \in Int /\ 0 <= 0
          OBVIOUS
        <5>3. m_data.body = <<>>
          BY Zenon, <3>1, <5>1, <5>2, BodyParts
        <5>4. QED
          BY Zenon, <4>2, <5>3
      <4>3. QED
        BY Zenon, <4>1, <4>2
    <3>4. ASSUME cut \cap {"field", "value"} = {}
          PROVE  /\ m_data.headers = [n \in {Reader!Name} |-> Reader!Value(m.keep)]
                 /\ kind = "request" => m_data'.close = ~m.keep
      <4>1. m_data.headers = [n \in {Reader!Name} |-> Reader!Value(m.keep)]
        BY Zenon, <3>1, <3>2, <3>4
      <4>2. Reader!Name \in DOMAIN m_data.headers /\ m_data.headers[Reader!Name] = Reader!Value(m.keep)
        <5> DEFINE N == Reader!Name
                   V == Reader!Value(m.keep)
                   h == m_data.headers
        <5>1. h = [n \in {N} |-> V]
          BY Zenon, <4>1
        <5> HIDE DEF N, V, h
        <5>2. N \in DOMAIN h /\ h[N] = V
          BY <5>1
        <5>3. QED
          BY Zenon, <5>2 DEF N, V, h
      <4>3. c = (Reader!Value(m.keep) # Reader!Value(TRUE))
        BY Zenon, <1>5, <4>2
      <4>4. (Reader!Value(m.keep) # Reader!Value(TRUE)) = ~m.keep
        <5>1. CASE m.keep = TRUE
          BY Zenon, <5>1
        <5>2. CASE m.keep = FALSE
          BY Zenon, <5>2, TextsAre
        <5>3. QED
          BY Zenon, <2>4, <5>1, <5>2
      <4>5. QED
        BY Zenon, <1>6, <2>1, <4>1, <4>3, <4>4
    <3>5. QED
      BY Zenon, <1>6, <3>1, <3>2, <3>3, <3>4
  <2>6. Reader!MessageAsSent'
    <3>1. kind' = kind /\ messages' = messages /\ cut' = cut
      BY Zenon, <1>1
    <3>2. QED
      BY Zenon, <1>9, <2>5, <3>1 DEF Reader!MessageAsSent
  <2>7. QED
    BY Zenon, <1>7, <1>8, <2>2, <2>6 DEF ReaderInv
<1>13. QED
  BY Zenon, <1>10, <1>11, <1>12

LEMMA ReaderStutters ==
    ASSUME ReaderInv, UNCHANGED Reader!vars
    PROVE  ReaderInv'
<1>1. UNCHANGED <<kind, messages, unread, stage, chunk, dead, m_data, m_field, m_finished, m_error,
                  cut, merged>>
  BY Zenon DEF Reader!vars
<1>2. Stream' = Stream
  BY Zenon, <1>1, SameStream
<1>3. Given' = Given /\ Got' = Got
  BY Zenon, <1>1, <1>2 DEF Given, Got
<1>4. Position => Position'
  BY Zenon, <1>1, <1>2, <1>3 DEF Position, CutAt
<1>5. Filled => Filled'
  BY Zenon, <1>1, <1>2, <1>3 DEF Filled
<1>6. (Sending => Sending') /\ (ReaderTypes => ReaderTypes')
  BY Zenon, <1>1 DEF Sending, ReaderTypes
<1>7. Reader!MessageAsSent => Reader!MessageAsSent'
  BY Zenon, <1>1 DEF Reader!MessageAsSent
<1>8. QED
  BY Zenon, <1>1, <1>4, <1>5, <1>6, <1>7 DEF ReaderInv

\* MessageAsSent, for any number of messages and any cuts of the stream: the
\* message that is read is the one that was sent, but for a path, a name or a
\* value that is cut in itself or before the character that ends it, and for
\* messages that came in one read (http_parser.cc:149-217).
THEOREM MessagesAsSent ==
    ASSUME MaxMessages \in Nat
    PROVE  ReaderSpec => []Reader!MessageAsSent
<1>1. Reader!Init => ReaderInv
  BY Zenon, ReaderStarts
<1>2. ReaderInv /\ [Reader!Next]_(Reader!vars) => ReaderInv'
  BY Zenon, ReadKeeps, ReadFailsKeeps, ExecuteKeeps, ExecutedKeeps, ReaderStutters DEF Reader!Next
<1>3. ReaderInv => Reader!MessageAsSent
  BY Zenon DEF ReaderInv
<1>4. QED
  BY <1>1, <1>2, <1>3, PTL DEF ReaderSpec

\* The message being read has the type TypeOK states.
THEOREM ReaderTypeCorrect ==
    ASSUME MaxMessages \in Nat
    PROVE  ReaderSpec => []Reader!TypeOK
<1>1. Reader!Init => ReaderInv
  BY Zenon, ReaderStarts
<1>2. ReaderInv /\ [Reader!Next]_(Reader!vars) => ReaderInv'
  BY Zenon, ReadKeeps, ReadFailsKeeps, ExecuteKeeps, ExecutedKeeps, ReaderStutters DEF Reader!Next
<1>3. ReaderInv => Reader!TypeOK
  <2>1. Len(Reader!Url) = 3 /\ Len(Reader!Name) = 2
    BY Zenon, TextsAre
  <2>2. QED
    BY Zenon, <2>1 DEF ReaderInv, ReaderTypes, NameTexts, Reader!TypeOK
<1>4. QED
  BY <1>1, <1>2, <1>3, PTL DEF ReaderSpec

-----------------------------------------------------------------------------
(* HttpRequest: the parameters and cookies of a request.                   *)

CONSTANTS Queries, Forms, CookieLines, Names, Values, MaxOps, Letters

VARIABLES query, form, cookie, isForm, m_parserParamFlag, m_params, m_cookies, own, last, ops

Query == INSTANCE HttpRequest

QuerySpec == Query!Init /\ [][Query!Next]_(Query!vars)

\* Text is made of letters, whatever they are.
Pairs == [name : Seq(Letters), value : Seq(Letters), bare : BOOLEAN]
Lines == /\ Queries \subseteq Seq(Pairs) /\ Forms \subseteq Seq(Pairs)
         /\ CookieLines \subseteq Seq(Pairs)
         /\ MaxOps \in Nat

\* std::map::insert() of one pair.
Emplace(map, p) ==
    IF Query!Folded(p[1]) \in DOMAIN map THEN map ELSE Query!Put(map, Query!Folded(p[1]), p[2])

\* The fold over a sequence has a value.
IsFold(it, n, pairs, map) ==
    it = [s \in SUBSET (1..n) |->
            IF s = {} THEN map ELSE Emplace(it[s \ {Query!Max(s)}], pairs[Query!Max(s)])]

LEMMA FoldExists ==
    ASSUME NEW n \in Nat, NEW pairs, NEW map
    PROVE  \E it : IsFold(it, n, pairs, map)
<1> DEFINE Good(it, j) == it = [s \in SUBSET (1..j) |->
                                  IF s = {} THEN map
                                  ELSE Emplace(it[s \ {Query!Max(s)}], pairs[Query!Max(s)])]
           T == {j \in Nat : \E it : Good(it, j)}
<1>1. 0 \in T
  <2>1. 1..0 = {} /\ SUBSET {} = {{}} /\ 0 \in Nat
    OBVIOUS
  <2> DEFINE it == [s \in {{}} |-> map]
             rhs == [s \in SUBSET (1..0) |->
                       IF s = {} THEN map
                       ELSE Emplace(it[s \ {Query!Max(s)}], pairs[Query!Max(s)])]
  <2>2. SUBSET (1..0) = {{}}
    BY <2>1
  <2>3. \A s \in {{}} : s = {}
    OBVIOUS
  <2>4. it = rhs
    BY Zenon, <2>2, <2>3
  <2>5. Good(it, 0)
    BY Zenon, <2>4
  <2> HIDE DEF it, Good
  <2>6. QED
    BY Zenon, <2>1, <2>5
<1>2. ASSUME NEW j \in Nat, j \in T
      PROVE  j + 1 \in T
  <2>1. PICK f : Good(f, j)
    BY <1>2
  <2> DEFINE rest(s) == s \ {Query!Max(s)}
             g == [s \in SUBSET (1..(j + 1)) |->
                     IF j + 1 \in s THEN Emplace(f[s \ {j + 1}], pairs[j + 1]) ELSE f[s]]
  <2>2. ASSUME NEW s \in SUBSET (1..(j + 1))
        PROVE  g[s] = IF s = {} THEN map ELSE Emplace(g[rest(s)], pairs[Query!Max(s)])
    <3>1. CASE j + 1 \in s
      <4>1. Query!Max(s) = j + 1
        <5>1. \A y \in s : y \in Int /\ j + 1 >= y
          OBVIOUS
        <5>2. \A x \in s : (\A y \in s : x >= y) => x = j + 1
          <6>1. SUFFICES ASSUME NEW x \in s, x >= j + 1 PROVE x = j + 1
            BY <3>1
          <6>2. x \in Int /\ j + 1 >= x
            BY Zenon, <5>1
          <6>3. QED
            BY <6>1, <6>2
        <5>3. QED
          BY Zenon, <3>1, <5>1, <5>2 DEF Query!Max
      <4>2. s # {} /\ g[s] = Emplace(f[s \ {j + 1}], pairs[j + 1])
        BY Zenon, <3>1
      <4>3. s \ {j + 1} \in SUBSET (1..(j + 1)) /\ ~(j + 1 \in s \ {j + 1})
        OBVIOUS
      <4>4. g[s \ {j + 1}] = f[s \ {j + 1}]
        BY Zenon, <4>3
      <4> HIDE DEF g
      <4>5. QED
        BY Zenon, <4>1, <4>2, <4>4
    <3>2. CASE ~(j + 1 \in s)
      <4>1. s \in SUBSET (1..j)
        BY <3>2
      <4>2. g[s] = f[s]
        BY Zenon, <3>2
      <4>3. f[s] = IF s = {} THEN map ELSE Emplace(f[rest(s)], pairs[Query!Max(s)])
        <5> DEFINE h == [x \in SUBSET (1..j) |->
                           IF x = {} THEN map
                           ELSE Emplace(f[x \ {Query!Max(x)}], pairs[Query!Max(x)])]
        <5>1. f = h
          BY Zenon, <2>1
        <5>2. h[s] = IF s = {} THEN map ELSE Emplace(f[rest(s)], pairs[Query!Max(s)])
          BY Zenon, <4>1
        <5> HIDE DEF h
        <5>3. QED
          BY Zenon, <5>1, <5>2
      <4>4. rest(s) \in SUBSET (1..(j + 1)) /\ ~(j + 1 \in rest(s))
        BY Zenon, <3>2
      <4>5. g[rest(s)] = f[rest(s)]
        BY Zenon, <4>4
      <4> HIDE DEF g
      <4>6. QED
        BY Zenon, <4>2, <4>3, <4>5
    <3>3. QED
      BY Zenon, <3>1, <3>2
  <2>3. g = [s \in SUBSET (1..(j + 1)) |-> g[s]]
    BY Zenon
  <2> HIDE DEF g
  <2>4. Good(g, j + 1)
    BY Zenon, <2>2, <2>3
  <2>5. j + 1 \in Nat
    OBVIOUS
  <2> HIDE DEF Good
  <2>6. QED
    BY Zenon, <2>4, <2>5
<1>3. Nat \subseteq T
  <2> HIDE DEF T
  <2>1. QED
    BY <1>1, <1>2, SetInduction
<1>4. n \in T
  BY Zenon, <1>3
<1>5. QED
  BY Zenon, <1>4 DEF IsFold

\* Pair after pair.
Steps(g, n, pairs, map) ==
    /\ g[0] = map /\ Query!Insert(map, pairs) = g[n]
    /\ \A k \in 1..n : g[k] = Emplace(g[k - 1], pairs[k])

LEMMA InsertSteps ==
    ASSUME NEW n \in Nat, NEW pairs, DOMAIN pairs = 1..n, NEW map
    PROVE  \E g : Steps(g, n, pairs, map)
<1> DEFINE it == CHOOSE f : f = [s \in SUBSET (1..n) |->
                                   IF s = {} THEN map
                                   ELSE Emplace(f[s \ {Query!Max(s)}], pairs[Query!Max(s)])]
           g == [k \in 0..n |-> it[1..k]]
<1>1. it = [s \in SUBSET (1..n) |->
              IF s = {} THEN map ELSE Emplace(it[s \ {Query!Max(s)}], pairs[Query!Max(s)])]
  <2>1. \E f : IsFold(f, n, pairs, map)
    BY Zenon, FoldExists
  <2>2. QED
    BY Zenon, <2>1 DEF IsFold
<1>2. Query!Insert(map, pairs) = it[1..n]
  BY Zenon DEF Query!Insert, Query!FoldLeft, Query!MapThenFoldSet, Emplace
<1> HIDE DEF it
<1>3. n \in 0..n /\ 0 \in 0..n /\ 1..0 = {} /\ {} \in SUBSET (1..n)
  OBVIOUS
<1>4. it[{}] = map
  BY Zenon, <1>1, <1>3
<1>5. g[0] = map /\ g[n] = it[1..n]
  BY Zenon, <1>3, <1>4
<1>6. ASSUME NEW k \in 1..n
      PROVE  g[k] = Emplace(g[k - 1], pairs[k])
  <2> DEFINE s == 1..k
  <2>1. s \in SUBSET (1..n) /\ s # {} /\ s \ {k} = 1..(k - 1)
    <3>1. \A x \in 1..k : x \in 1..n
      OBVIOUS
    <3>2. k \in 1..k
      OBVIOUS
    <3>3. \A x : x \in 1..k /\ x # k <=> x \in 1..(k - 1)
      OBVIOUS
    <3>4. s \ {k} = 1..(k - 1)
      BY Zenon, <3>3
    <3>5. QED
      BY Zenon, <3>1, <3>2, <3>4
  <2>6. k \in 0..n /\ k - 1 \in 0..n
    OBVIOUS
  <2>2. Query!Max(s) = k
    <3>1. k \in s /\ (\A y \in s : k >= y) /\ (\A x \in s : (\A y \in s : x >= y) => x = k)
      OBVIOUS
    <3> HIDE DEF s
    <3>2. QED
      BY Zenon, <3>1 DEF Query!Max
  <2>3. g[k] = it[s] /\ g[k - 1] = it[1..(k - 1)]
    BY Zenon, <2>6
  <2>4. it[s] = Emplace(it[s \ {Query!Max(s)}], pairs[Query!Max(s)])
    BY Zenon, <1>1, <2>1
  <2> HIDE DEF s, g
  <2>5. QED
    BY Zenon, <2>1, <2>2, <2>3, <2>4
<1> HIDE DEF g
<1>7. QED
  BY Zenon, <1>2, <1>5, <1>6 DEF Steps

Lookup(map, n) == IF n \in DOMAIN map THEN map[n] ELSE Query!Absent
Named(pairs, n) == \E i \in 1..Len(pairs) : Query!Folded(pairs[i].name) = n
Taken(pairs) == [i \in 1..Len(pairs) |-> <<pairs[i].name, pairs[i].value>>]

LEMMA PutIs ==
    ASSUME NEW map, NEW n, NEW v
    PROVE  /\ DOMAIN Query!Put(map, n, v) = DOMAIN map \cup {n}
           /\ Query!Put(map, n, v)[n] = v
           /\ \A x : x \in DOMAIN map /\ x # n => Query!Put(map, n, v)[x] = map[x]
BY DEF Query!Put

\* A name that is not in a map is put there.
Adds(map, n, v, new, x) ==
    /\ x \in DOMAIN new <=> x \in DOMAIN map \/ x = n
    /\ x \in DOMAIN map => new[x] = map[x]
    /\ x = n /\ x \notin DOMAIN map => new[x] = v

LEMMA PutStep ==
    ASSUME NEW map, NEW n, NEW v, NEW x
    PROVE  Adds(map, n, v, IF n \in DOMAIN map THEN map ELSE Query!Put(map, n, v), x)
<1> DEFINE new == IF n \in DOMAIN map THEN map ELSE Query!Put(map, n, v)
<1>1. CASE n \in DOMAIN map
  BY <1>1 DEF Adds
<1>2. CASE n \notin DOMAIN map
  <2>1. new = Query!Put(map, n, v)
    BY <1>2
  <2>2. DOMAIN new = DOMAIN map \cup {n}
    BY <2>1 DEF Query!Put
  <2>3. new[n] = v
    BY <2>1 DEF Query!Put
  <2>4. x \in DOMAIN map => new[x] = map[x]
    BY <1>2, <2>1 DEF Query!Put
  <2>5. QED
    BY Zenon, <2>2, <2>3, <2>4 DEF Adds
<1>3. QED
  BY Zenon, <1>1, <1>2

LEMMA FirstOfIs ==
    ASSUME NEW pairs \in Seq(Pairs), NEW n
    PROVE  /\ ~Named(pairs, n) => Query!FirstOf(pairs, n) = Query!Absent
           /\ Named(pairs, n) =>
                \E i \in 1..Len(pairs) : /\ Query!Folded(pairs[i].name) = n
                                         /\ \A j \in 1..(i - 1) : Query!Folded(pairs[j].name) # n
                                         /\ Query!FirstOf(pairs, n) = pairs[i].value
<1> DEFINE I == {i \in 1..Len(pairs) : Query!Folded(pairs[i].name) = n}
           least == CHOOSE x \in I : \A y \in I : x <= y
           at == IF I # {} THEN least ELSE 0
<1>1. Query!FirstOf(pairs, n) = IF at = 0 THEN Query!Absent ELSE pairs[at].value
  BY Zenon DEF Query!FirstOf, Query!SelectInSeq, Query!Min
<1>2. ASSUME ~Named(pairs, n)
      PROVE  Query!FirstOf(pairs, n) = Query!Absent
  <2>1. I = {}
    BY Zenon, <1>2 DEF Named
  <2>2. QED
    BY Zenon, <1>1, <2>1
<1>3. ASSUME Named(pairs, n)
      PROVE  \E i \in 1..Len(pairs) : /\ Query!Folded(pairs[i].name) = n
                                      /\ \A j \in 1..(i - 1) : Query!Folded(pairs[j].name) # n
                                      /\ Query!FirstOf(pairs, n) = pairs[i].value
  <2>1. I # {}
    BY Zenon, <1>3 DEF Named
  <2>2. \A y \in I : y \in 1..Len(pairs) /\ y \in Nat /\ y # 0
    OBVIOUS
  <2>3. I \in SUBSET Nat
    BY Zenon, <2>2
  <2>4. least \in I /\ \A y \in I : least <= y
    <3> HIDE DEF I
    <3>1. QED
      BY Zenon, <2>1, <2>3, LeastExists
  <2>5. at = least /\ at # 0
    BY Zenon, <2>1, <2>2, <2>4
  <2>6. Query!FirstOf(pairs, n) = pairs[least].value
    BY Zenon, <1>1, <2>5
  <2>7. least \in 1..Len(pairs) /\ Query!Folded(pairs[least].name) = n
    BY Zenon, <2>4
  <2> HIDE DEF least
  <2>8. \A j \in 1..(least - 1) : j \in 1..Len(pairs) /\ ~(least <= j)
    BY <2>7
  <2>9. \A j \in 1..(least - 1) : Query!Folded(pairs[j].name) # n
    BY Zenon, <2>4, <2>8
  <2>10. QED
    BY Zenon, <2>6, <2>7, <2>9
<1>4. QED
  BY Zenon, <1>2, <1>3

IsFirst(pairs, n, i) ==
    /\ i \in 1..Len(pairs) /\ Query!Folded(pairs[i].name) = n
    /\ \A j \in 1..(i - 1) : Query!Folded(pairs[j].name) # n
    /\ Query!FirstOf(pairs, n) = pairs[i].value

LEMMA FirstFound ==
    ASSUME NEW pairs \in Seq(Pairs), NEW n, Named(pairs, n)
    PROVE  \E i : IsFirst(pairs, n, i)
<1>1. PICK i \in 1..Len(pairs) : /\ Query!Folded(pairs[i].name) = n
                                 /\ \A j \in 1..(i - 1) : Query!Folded(pairs[j].name) # n
                                 /\ Query!FirstOf(pairs, n) = pairs[i].value
  <2> DEFINE one == \E i \in 1..Len(pairs) : /\ Query!Folded(pairs[i].name) = n
                                             /\ \A j \in 1..(i - 1) : Query!Folded(pairs[j].name) # n
                                             /\ Query!FirstOf(pairs, n) = pairs[i].value
  <2>1. Named(pairs, n) => one
    BY Zenon, FirstOfIs
  <2> HIDE DEF one
  <2>2. one
    BY Zenon, <2>1
  <2>3. QED
    BY Zenon, <2>2 DEF one
<1>4. i \in 1..Len(pairs) /\ Query!Folded(pairs[i].name) = n /\ Query!FirstOf(pairs, n) = pairs[i].value
  BY Zenon, <1>1
<1>2. IsFirst(pairs, n, i)
  BY <1>1, <1>4 DEF IsFirst
<1>3. QED
  BY Zenon, <1>2

\* What a text adds to a map: names that are not there, the first of each.
LEMMA InsertIs ==
    ASSUME NEW pairs \in Seq(Pairs), NEW map, NEW n
    PROVE  LET new == Query!Insert(map, Taken(pairs)) IN
           /\ n \in DOMAIN new <=> n \in DOMAIN map \/ Named(pairs, n)
           /\ n \in DOMAIN map => new[n] = map[n]
           /\ n \notin DOMAIN map => Lookup(new, n) = Query!FirstOf(pairs, n)
<1> DEFINE l == Len(pairs)
           P == Taken(pairs)
           name(i) == Query!Folded(pairs[i].name)
           value(i) == pairs[i].value
<1>1. l \in Nat
  OBVIOUS
<1>2. DOMAIN P = 1..l /\ \A i \in 1..l : Query!Folded(P[i][1]) = name(i) /\ P[i][2] = value(i)
  <2> DEFINE written(i) == pairs[i].name
  <2>1. P = [i \in 1..l |-> <<written(i), value(i)>>]
    BY Zenon DEF Taken
  <2>6. \A i \in 1..l : name(i) = Query!Folded(written(i))
    BY Zenon
  <2> HIDE DEF P, name, written, value, l
  <2>3. DOMAIN P = 1..l /\ \A i \in 1..l : P[i] = <<written(i), value(i)>>
    BY Zenon, <2>1
  <2>4. ASSUME NEW i \in 1..l
        PROVE  Query!Folded(P[i][1]) = name(i) /\ P[i][2] = value(i)
    <3> DEFINE a == written(i)
               b == value(i)
               p == P[i]
    <3>1. p = <<a, b>>
      BY Zenon, <2>3
    <3> HIDE DEF a, b, p
    <3>2. p[1] = a /\ p[2] = b
      BY <3>1
    <3>3. QED
      BY Zenon, <2>6, <3>2 DEF a, b, p
  <2>5. QED
    BY Zenon, <2>3, <2>4
<1> HIDE DEF P, name, value, l
<1>12. \E g : Steps(g, l, P, map)
  <2>1. l \in Nat /\ DOMAIN P = 1..l
    BY Zenon, <1>1, <1>2
  <2>2. QED
    BY Zenon, <2>1, InsertSteps
<1>3. PICK g : /\ g[0] = map /\ Query!Insert(map, P) = g[l]
               /\ \A k \in 1..l : g[k] = Emplace(g[k - 1], P[k])
  BY Zenon, <1>12 DEF Steps
<1> DEFINE Covers(k) ==
             \A x : /\ x \in DOMAIN g[k] <=> x \in DOMAIN map \/ \E i \in 1..k : name(i) = x
                    /\ x \in DOMAIN map => g[k][x] = map[x]
                    /\ \A i \in 1..k :
                         x \notin DOMAIN map /\ name(i) = x /\ (\A j \in 1..(i - 1) : name(j) # x)
                           => g[k][x] = value(i)
           T == {k \in Nat : k <= l => Covers(k)}
<1>4. 0 \in T
  <2>1. 1..0 = {} /\ 0 \in Nat
    OBVIOUS
  <2>2. Covers(0)
    BY Zenon, <1>3, <2>1
  <2>3. QED
    BY Zenon, <2>1, <2>2
<1>5. ASSUME NEW k \in Nat, k \in T
      PROVE  k + 1 \in T
  <2>1. SUFFICES ASSUME k + 1 <= l PROVE Covers(k + 1)
    OBVIOUS
  <2>2. Covers(k)
    <3>1. k <= l
      BY <1>1, <2>1
    <3>2. QED
      BY Zenon, <1>5, <3>1
  <2>3. k + 1 \in 1..l /\ (k + 1) - 1 = k /\ \A i \in 1..(k + 1) : i \in 1..k \/ i = k + 1
    BY <1>1, <2>1
  <2>4. k + 1 \in 1..(k + 1) /\ \A i \in 1..k : i \in 1..(k + 1)
    OBVIOUS
  <2> DEFINE a == name(k + 1)
             b == value(k + 1)
             G == g[k]
             H == g[k + 1]
  <2>5. H = IF a \in DOMAIN G THEN G ELSE Query!Put(G, a, b)
    BY Zenon, <1>2, <1>3, <2>3 DEF Emplace
  <2>6. TAKE x
  <2>7. /\ x \in DOMAIN G <=> x \in DOMAIN map \/ \E i \in 1..k : name(i) = x
        /\ x \in DOMAIN map => G[x] = map[x]
        /\ \A i \in 1..k :
             x \notin DOMAIN map /\ name(i) = x /\ (\A j \in 1..(i - 1) : name(j) # x)
               => G[x] = value(i)
    BY Zenon, <2>2
  <2>8. (\E i \in 1..(k + 1) : name(i) = x) <=> (\E i \in 1..k : name(i) = x) \/ a = x
    BY Zenon, <2>3, <2>4
  <2>9. /\ x \in DOMAIN H <=> x \in DOMAIN G \/ x = a
        /\ x \in DOMAIN G => H[x] = G[x]
        /\ x = a /\ x \notin DOMAIN G => H[x] = b
    <3> HIDE DEF G, H, a, b
    <3>2. Adds(G, a, b, H, x)
      BY Zenon, <2>5, PutStep
    <3>1. QED
      BY Zenon, <3>2 DEF Adds
  <2> HIDE DEF G, H
  <2>10. x \in DOMAIN H <=> x \in DOMAIN map \/ \E i \in 1..(k + 1) : name(i) = x
    BY Zenon, <2>7, <2>8, <2>9
  <2>11. x \in DOMAIN map => H[x] = map[x]
    BY Zenon, <2>7, <2>9
  <2>12. ASSUME NEW i \in 1..(k + 1), x \notin DOMAIN map, name(i) = x,
                \A j \in 1..(i - 1) : name(j) # x
         PROVE  H[x] = value(i)
    <3>1. CASE i \in 1..k
      BY Zenon, <2>7, <2>9, <2>12, <3>1
    <3>2. CASE i = k + 1
      <4>1. ~ \E j \in 1..k : name(j) = x
        BY Zenon, <2>3, <2>12, <3>2
      <4>2. x \notin DOMAIN G /\ x = a
        BY Zenon, <2>7, <2>12, <3>2, <4>1
      <4>3. QED
        BY Zenon, <2>9, <3>2, <4>2
    <3>3. QED
      BY Zenon, <2>3, <3>1, <3>2
  <2>13. QED
    BY Zenon, <2>10, <2>11, <2>12 DEF H
<1>6. Nat \subseteq T
  <2> HIDE DEF T
  <2>1. QED
    BY <1>4, <1>5, SetInduction
<1>7. Covers(l)
  <2>1. l \in T /\ l <= l
    BY <1>1, <1>6
  <2>2. QED
    BY Zenon, <2>1
<1> DEFINE new == Query!Insert(map, P)
<1>8. Named(pairs, n) <=> \E i \in 1..l : name(i) = n
  BY Zenon DEF Named, l, name
<1>9. /\ n \in DOMAIN new <=> n \in DOMAIN map \/ Named(pairs, n)
      /\ n \in DOMAIN map => new[n] = map[n]
  BY Zenon, <1>3, <1>7, <1>8
<1>10. ASSUME n \notin DOMAIN map
       PROVE  Lookup(new, n) = Query!FirstOf(pairs, n)
  <2>1. CASE ~Named(pairs, n)
    BY Zenon, <1>9, <1>10, <2>1, FirstOfIs DEF Lookup
  <2>2. CASE Named(pairs, n)
    <3>1. PICK i \in 1..l : /\ name(i) = n
                            /\ \A j \in 1..(i - 1) : name(j) # n
                            /\ Query!FirstOf(pairs, n) = value(i)
      BY Zenon, <2>2, FirstOfIs DEF l, name, value
    <3>2. new[n] = value(i)
      BY Zenon, <1>3, <1>7, <1>10, <3>1
    <3>3. QED
      BY Zenon, <1>9, <2>2, <3>1, <3>2 DEF Lookup
  <2>3. QED
    BY Zenon, <2>1, <2>2
<1>11. QED
  BY Zenon, <1>9, <1>10 DEF P


Inserted(new, map, pairs, n) ==
    /\ n \in DOMAIN new <=> n \in DOMAIN map \/ Named(pairs, n)
    /\ n \in DOMAIN map => new[n] = map[n]
    /\ n \notin DOMAIN map => Lookup(new, n) = Query!FirstOf(pairs, n)

LEMMA TakenInserted ==
    ASSUME NEW pairs \in Seq(Pairs), NEW map, NEW n
    PROVE  Inserted(Query!Insert(map, Taken(pairs)), map, pairs, n)
BY Zenon, InsertIs DEF Inserted

-----------------------------------------------------------------------------
(* The text of a pair.                                                     *)

\* What a character is written as.
Codes == [escaped : BOOLEAN, char : Letters \cup {"+", "=", "&", ";", " "}]

Encoded(c) == IF c = " " THEN Query!Plain("+") ELSE [escaped |-> c \notin Query!Unreserved, char |-> c]

LEMMA CodeIs ==
    ASSUME NEW c \in Letters
    PROVE  /\ Encoded(c) \in Codes
           /\ Encoded(c) # Query!Plain("&") /\ Encoded(c) # Query!Plain(";")
           /\ Encoded(c) # Query!Plain(" ")
           /\ Encoded(c) = Query!Plain("=") => c = "="
           /\ (IF Encoded(c) = Query!Plain("+") THEN " " ELSE Encoded(c).char) = c
<1> DEFINE e == Encoded(c)
<1>1. \A x : Query!Plain(x).char = x /\ Query!Plain(x).escaped = FALSE
  BY DEF Query!Plain
<1>2. CASE c = " "
  <2>1. e = Query!Plain("+")
    BY Zenon, <1>2 DEF Encoded
  <2> HIDE DEF e
  <2>2. e \in Codes
    BY <2>1 DEF Codes, Query!Plain
  <2>3. e.char = "+"
    BY <1>1, <2>1
  <2>4. "+" # "&" /\ "+" # ";" /\ "+" # " " /\ "+" # "="
    BY Zenon
  <2>5. /\ e # Query!Plain("&") /\ e # Query!Plain(";") /\ e # Query!Plain(" ")
        /\ e # Query!Plain("=")
    BY Zenon, <1>1, <2>3, <2>4
  <2>6. QED
    BY Zenon, <1>2, <2>1, <2>2, <2>5 DEF e
<1>3. CASE c # " "
  <2>1. e = [escaped |-> c \notin Query!Unreserved, char |-> c]
    BY Zenon, <1>3 DEF Encoded
  <2> HIDE DEF e
  <2>2. e \in Codes
    BY <2>1 DEF Codes
  <2>3. e.char = c /\ (e.escaped = FALSE => c \in Query!Unreserved)
    BY <2>1
  <2>4. "&" \notin Query!Unreserved /\ ";" \notin Query!Unreserved /\ " " \notin Query!Unreserved
        /\ "+" \notin Query!Unreserved
    BY Zenon DEF Query!Unreserved
  <2>5. \A x : e = Query!Plain(x) => x = c /\ x \in Query!Unreserved
    BY Zenon, <1>1, <2>3
  <2>6. /\ e # Query!Plain("&") /\ e # Query!Plain(";") /\ e # Query!Plain(" ")
        /\ e # Query!Plain("+") /\ (e = Query!Plain("=") => c = "=")
    BY Zenon, <2>4, <2>5
  <2>7. QED
    BY Zenon, <2>2, <2>3, <2>6 DEF e
<1>4. QED
  BY Zenon, <1>2, <1>3

LEMMA PlainIs ==
    /\ Query!Plain("=") \in Codes /\ Query!Plain("&") \in Codes /\ Query!Plain(";") \in Codes
    /\ Query!Plain(" ") \in Codes
    /\ Query!Plain("=") # Query!Plain("&") /\ Query!Plain("=") # Query!Plain(";")
    /\ Query!Plain("=") # Query!Plain(" ")
BY DEF Codes, Query!Plain

\* A text is encoded letter by letter, and UrlDecode() gives it back.
LEMMA EncodeIs ==
    ASSUME NEW s \in Seq(Letters)
    PROVE  LET e == Query!UrlEncode(s) IN
           /\ e \in Seq(Codes) /\ Len(e) = Len(s)
           /\ \A i \in 1..Len(s) : e[i] = Encoded(s[i])
           /\ Query!UrlDecode(e) = s
<1> DEFINE e == Query!UrlEncode(s)
           n == Len(s)
<1>1. n \in Nat /\ DOMAIN s = 1..n /\ \A i \in 1..n : s[i] \in Letters
  OBVIOUS
<1>2. e = [i \in 1..n |-> Encoded(s[i])]
  BY Zenon, <1>1 DEF Query!UrlEncode, Encoded
<1>3. \A i \in 1..n : e[i] = Encoded(s[i]) /\ e[i] \in Codes
  BY Zenon, <1>1, <1>2, CodeIs
<1>4. e \in Seq(Codes) /\ Len(e) = n
  <2>1. DOMAIN e = 1..n
    BY Zenon, <1>2
  <2> HIDE DEF e, n
  <2>2. e = [i \in 1..n |-> e[i]]
    BY Zenon, <1>2, <1>3
  <2>3. [i \in 1..n |-> e[i]] \in Seq(Codes)
    BY <1>1, <1>3
  <2>4. Len([i \in 1..n |-> e[i]]) = n
    BY <1>1
  <2>5. QED
    BY Zenon, <2>2, <2>3, <2>4
<1>5. Query!UrlDecode(e) = s
  <2> DEFINE d == [i \in 1..n |-> IF e[i] = Query!Plain("+") THEN " " ELSE e[i].char]
  <2>1. DOMAIN e = 1..n
    BY Zenon, <1>2
  <2>2. Query!UrlDecode(e) = d
    BY Zenon, <2>1 DEF Query!UrlDecode
  <2>3. \A i \in 1..n : d[i] = s[i]
    BY Zenon, <1>1, <1>3, CodeIs
  <2>4. s = [i \in 1..n |-> s[i]]
    BY <1>1
  <2>5. d = [i \in 1..n |-> d[i]]
    BY Zenon
  <2> HIDE DEF d, e, n
  <2>6. d = s
    BY Zenon, <2>3, <2>4, <2>5
  <2>7. QED
    BY Zenon, <2>2, <2>6
<1>6. QED
  BY Zenon, <1>3, <1>4, <1>5

-----------------------------------------------------------------------------
(* Taking a text apart.                                                    *)

\* The first place of x in text from "from" to "to", 0 if there is none.
Search(text, from, to, x) ==
    LET I == {i \in from..to : text[i] = x} IN
    IF I # {} THEN CHOOSE i \in I : \A j \in I : i <= j ELSE 0

LEMMA SearchIs ==
    ASSUME NEW text, NEW from \in Nat, NEW to \in Nat, NEW x
    PROVE  /\ Search(text, from, to, x) = 0 \/ Search(text, from, to, x) \in from..to
           /\ (\A i \in from..to : text[i] # x) => Search(text, from, to, x) = 0
           /\ \A at \in from..to :
                text[at] = x /\ (\A i \in from..(at - 1) : text[i] # x) => Search(text, from, to, x) = at
<1> DEFINE I == {i \in from..to : text[i] = x}
           least == CHOOSE i \in I : \A j \in I : i <= j
           s == Search(text, from, to, x)
<1>1. s = IF I # {} THEN least ELSE 0
  BY Zenon DEF Search
<1>2. I \in SUBSET Nat
  OBVIOUS
<1>3. ASSUME I # {}
      PROVE  least \in I /\ \A j \in I : least <= j
  <2> HIDE DEF I
  <2>1. QED
    BY Zenon, <1>2, <1>3, LeastExists
<1> HIDE DEF s, least
<1>4. s = 0 \/ s \in from..to
  BY Zenon, <1>1, <1>3
<1>5. (\A i \in from..to : text[i] # x) => s = 0
  BY Zenon, <1>1
<1>6. ASSUME NEW at \in from..to, text[at] = x, \A i \in from..(at - 1) : text[i] # x
      PROVE  s = at
  <2>1. at \in I
    BY Zenon, <1>6
  <2>2. least \in I /\ least <= at /\ s = least
    BY Zenon, <1>1, <1>3, <2>1
  <2>3. text[least] = x
    BY Zenon, <2>2
  <2>4. least \in from..to
    BY Zenon, <2>2
  <2>5. least < at => least \in from..(at - 1)
    BY <2>4
  <2>6. ~(least < at)
    BY Zenon, <1>6, <2>3, <2>5
  <2>7. QED
    BY <2>2, <2>4, <2>6
<1>7. QED
  BY Zenon, <1>4, <1>5, <1>6 DEF s

LEMMA SearchIn ==
    ASSUME NEW text, NEW from \in Nat, NEW to \in Nat, NEW x
    PROVE  Search(text, from, to, x) = 0 \/ Search(text, from, to, x) \in from..to
BY Zenon, SearchIs

LEMMA Found ==
    ASSUME NEW text, NEW from \in Nat, NEW to \in Nat, NEW x, NEW at \in from..to,
           text[at] = x, \A i \in from..(at - 1) : text[i] # x
    PROVE  Search(text, from, to, x) = at
BY Zenon, SearchIs

LEMMA NotFound ==
    ASSUME NEW text, NEW from \in Nat, NEW to \in Nat, NEW x, \A i \in from..to : text[i] # x
    PROVE  Search(text, from, to, x) = 0
BY Zenon, SearchIs

Trimmed(t, space) ==
    LET first == Query!SelectInSeq(t, LAMBDA c : c # space) IN
    IF first = 0 THEN <<>> ELSE SubSeq(t, first, Query!SelectLastInSeq(t, LAMBDA c : c # space))

LEMMA TrimIs ==
    ASSUME NEW space, NEW t \in Seq(Codes), NEW a \in 0..Len(t),
           \A i \in 1..a : t[i] = space,
           \A i \in (a + 1)..Len(t) : t[i] # space
    PROVE  Trimmed(t, space) = SubSeq(t, a + 1, Len(t))
<1> DEFINE I == {i \in 1..Len(t) : t[i] # space}
           least == CHOOSE x \in I : \A y \in I : x <= y
           greatest == CHOOSE x \in I : \A y \in I : x >= y
           first == IF I # {} THEN least ELSE 0
           end == IF I # {} THEN greatest ELSE 0
           n == Len(t)
<1>1. Trimmed(t, space) = IF first = 0 THEN <<>> ELSE SubSeq(t, first, end)
  BY Zenon DEF Trimmed, Query!SelectInSeq, Query!SelectLastInSeq, Query!Min, Query!Max
<1>2. n \in Nat /\ a \in 0..n
  OBVIOUS
<1> HIDE DEF n
<1>3. I = (a + 1)..n
  <2>1. \A i \in 1..n : i \in 1..a \/ i \in (a + 1)..n
    BY <1>2
  <2>2. \A i \in (a + 1)..n : i \in 1..n
    BY <1>2
  <2>3. QED
    BY Zenon, <2>1, <2>2 DEF n
<1> HIDE DEF I
<1>4. CASE a = n
  <2>1. I = {}
    BY <1>2, <1>3, <1>4
  <2>2. Trimmed(t, space) = <<>>
    BY Zenon, <1>1, <2>1
  <2>3. SubSeq(t, n + 1, n) = <<>>
    BY <1>2
  <2>4. QED
    BY Zenon, <1>4, <2>2, <2>3 DEF n
<1>5. CASE a # n
  <2>1. a + 1 \in I /\ n \in I /\ a + 1 # 0
    BY <1>2, <1>3, <1>5
  <2>2. \A y \in I : a + 1 <= y /\ n >= y
    BY <1>2, <1>3
  <2>3. least \in I /\ \A y \in I : least <= y
    BY Zenon, <2>1, <2>2
  <2>4. greatest \in I /\ \A y \in I : greatest >= y
    BY Zenon, <2>1, <2>2
  <2>5. least = a + 1
    <3> HIDE DEF least, greatest
    <3>1. least <= a + 1 /\ least \in (a + 1)..n
      BY Zenon, <1>3, <2>1, <2>3
    <3>2. QED
      BY <1>2, <3>1
  <2>6. greatest = n
    <3> HIDE DEF least, greatest
    <3>1. greatest >= n /\ greatest \in (a + 1)..n
      BY Zenon, <1>3, <2>1, <2>4
    <3>2. QED
      BY <1>2, <3>1
  <2>7. I # {} /\ first = a + 1 /\ end = n
    BY Zenon, <2>1, <2>5, <2>6
  <2> HIDE DEF first, end
  <2>8. Trimmed(t, space) = SubSeq(t, a + 1, n)
    BY Zenon, <1>1, <2>1, <2>7
  <2>9. QED
    BY Zenon, <2>8 DEF n
<1>6. QED
  BY Zenon, <1>4, <1>5

\* The recursion of the parser: from one place to a place behind it.
IsWalk(f, key, end, item) ==
    f = [pos \in Nat |-> IF key[pos] = 0 THEN <<>>
                         ELSE <<item[pos]>> \o IF end[pos] = 0 THEN <<>> ELSE f[end[pos] + 1]]

\* The value at one place.
WalkAt(f, key, end, item, pos) ==
    IF key[pos] = 0 THEN <<>> ELSE <<item[pos]>> \o IF end[pos] = 0 THEN <<>> ELSE f[end[pos] + 1]

LEMMA WalkExists ==
    ASSUME NEW key, NEW end, NEW item, NEW n \in Nat,
           \A pos \in Nat : pos > n => key[pos] = 0,
           \A pos \in Nat : key[pos] # 0 /\ end[pos] # 0 => end[pos] \in Nat /\ end[pos] >= pos
    PROVE  \E f : IsWalk(f, key, end, item)
<1> DEFINE Good(f, j) == /\ f = [pos \in Nat |-> f[pos]]
                         /\ \A pos \in Nat : pos + j > n => f[pos] = WalkAt(f, key, end, item, pos)
           T == {j \in Nat : \E f : Good(f, j)}
<1>1. 0 \in T
  <2> DEFINE f == [pos \in Nat |-> <<>>]
  <2>1. f = [pos \in Nat |-> f[pos]]
    BY Zenon
  <2>2. ASSUME NEW pos \in Nat, pos + 0 > n
        PROVE  f[pos] = WalkAt(f, key, end, item, pos)
    <3>1. pos > n
      BY <2>2
    <3>2. key[pos] = 0
      BY Zenon, <3>1
    <3>3. f[pos] = <<>>
      BY Zenon
    <3> HIDE DEF f
    <3>4. QED
      BY Zenon, <3>2, <3>3 DEF WalkAt
  <2> HIDE DEF f
  <2>3. Good(f, 0)
    BY Zenon, <2>1, <2>2
  <2>4. 0 \in Nat
    OBVIOUS
  <2> HIDE DEF Good
  <2>5. QED
    BY Zenon, <2>3, <2>4
<1>2. ASSUME NEW j \in Nat, j \in T
      PROVE  j + 1 \in T
  <2>1. PICK f : Good(f, j)
    BY Zenon, <1>2
  <2> DEFINE here == WalkAt(f, key, end, item, n - j)
             g == [pos \in Nat |-> IF pos = n - j THEN here ELSE f[pos]]
  <2>2. ASSUME NEW pos \in Nat, pos + (j + 1) > n
        PROVE  g[pos] = WalkAt(g, key, end, item, pos)
    <3>1. g[pos] = WalkAt(f, key, end, item, pos)
      <4>1. CASE pos = n - j
        BY Zenon, <4>1
      <4>2. CASE pos # n - j
        <5>1. pos + j > n
          BY <2>2, <4>2
        <5>2. f[pos] = WalkAt(f, key, end, item, pos)
          BY Zenon, <2>1, <5>1
        <5>3. QED
          BY Zenon, <4>2, <5>2
      <4>3. QED
        BY Zenon, <4>1, <4>2
    <3>2. ASSUME key[pos] # 0, end[pos] # 0
          PROVE  g[end[pos] + 1] = f[end[pos] + 1]
      <4> DEFINE to == end[pos]
      <4>1. to \in Nat /\ to >= pos
        BY Zenon, <3>2
      <4> HIDE DEF to
      <4>2. to + 1 \in Nat /\ to + 1 # n - j
        BY <2>2, <4>1
      <4>3. g[to + 1] = f[to + 1]
        BY Zenon, <4>2
      <4>4. QED
        BY Zenon, <4>3 DEF to
    <3> HIDE DEF g
    <3>3. WalkAt(g, key, end, item, pos) = WalkAt(f, key, end, item, pos)
      <4>1. CASE key[pos] = 0
        BY Zenon, <4>1 DEF WalkAt
      <4>2. CASE key[pos] # 0
        <5>1. CASE end[pos] = 0
          BY Zenon, <4>2, <5>1 DEF WalkAt
        <5>2. CASE end[pos] # 0
          BY Zenon, <3>2, <4>2, <5>2 DEF WalkAt
        <5>3. QED
          BY Zenon, <5>1, <5>2
      <4>3. QED
        BY Zenon, <4>1, <4>2
    <3>4. QED
      BY Zenon, <3>1, <3>3
  <2>3. g = [pos \in Nat |-> g[pos]]
    BY Zenon
  <2> HIDE DEF g
  <2>4. Good(g, j + 1)
    BY Zenon, <2>2, <2>3
  <2>5. j + 1 \in Nat
    OBVIOUS
  <2> HIDE DEF Good
  <2>6. QED
    BY Zenon, <2>4, <2>5
<1>3. Nat \subseteq T
  <2> HIDE DEF T
  <2>1. QED
    BY <1>1, <1>2, SetInduction
<1>4. n + 1 \in Nat
  OBVIOUS
<1>5. n + 1 \in T
  BY Zenon, <1>3, <1>4
<1>6. PICK f : Good(f, n + 1)
  BY Zenon, <1>5
<1>7. \A pos \in Nat : pos + (n + 1) > n
  OBVIOUS
<1>8. \A pos \in Nat : f[pos] = WalkAt(f, key, end, item, pos)
  BY Zenon, <1>6, <1>7
<1>9. [pos \in Nat |-> f[pos]] = [pos \in Nat |-> WalkAt(f, key, end, item, pos)]
  BY Zenon, <1>8
<1>10. f = [pos \in Nat |-> WalkAt(f, key, end, item, pos)]
  BY Zenon, <1>6, <1>9
<1>11. QED
  BY Zenon, <1>10 DEF IsWalk, WalkAt

-----------------------------------------------------------------------------
(* The text of a sequence of pairs.                                        *)

Enc(s) == Query!UrlEncode(s)
Equals == Query!Plain("=")
Width(p) == Len(p.name) + 1 + Len(p.value)

\* The writing of a pair stands behind place b of a text.
Placed(text, b, p) ==
    /\ b + Width(p) <= Len(text)
    /\ \A i \in 1..Len(p.name) : text[b + i] = Enc(p.name)[i]
    /\ text[b + Len(p.name) + 1] = Equals
    /\ \A i \in 1..Len(p.value) : text[b + Len(p.name) + 1 + i] = Enc(p.value)[i]

LEMMA PairIs ==
    ASSUME NEW p \in Pairs
    PROVE  /\ p.name \in Seq(Letters) /\ p.value \in Seq(Letters)
           /\ Len(p.name) \in Nat /\ Len(p.value) \in Nat /\ Width(p) \in Nat
           /\ Enc(p.name) \in Seq(Codes) /\ Len(Enc(p.name)) = Len(p.name)
           /\ Enc(p.value) \in Seq(Codes) /\ Len(Enc(p.value)) = Len(p.value)
<1>1. p.name \in Seq(Letters) /\ p.value \in Seq(Letters)
  BY DEF Pairs
<1>2. Len(p.name) \in Nat /\ Len(p.value) \in Nat
  BY <1>1
<1>3. Width(p) \in Nat
  <2> DEFINE m == Len(p.name)
             n == Len(p.value)
  <2>1. m \in Nat /\ n \in Nat
    BY Zenon, <1>2
  <2> HIDE DEF m, n
  <2>2. m + 1 + n \in Nat
    BY <2>1
  <2>3. QED
    BY Zenon, <2>2 DEF m, n, Width
<1>4. /\ Enc(p.name) \in Seq(Codes) /\ Len(Enc(p.name)) = Len(p.name)
      /\ Enc(p.value) \in Seq(Codes) /\ Len(Enc(p.value)) = Len(p.value)
  BY Zenon, <1>1, EncodeIs DEF Enc
<1>5. QED
  BY Zenon, <1>1, <1>2, <1>3, <1>4

Joined(S, w, s, t) ==
    /\ w \in Seq(S) /\ Len(w) = Len(s) + Len(t)
    /\ \A i \in 1..Len(s) : w[i] = s[i]
    /\ \A i \in 1..Len(t) : w[Len(s) + i] = t[i]

LEMMA Joins ==
    ASSUME NEW S, NEW s \in Seq(S), NEW t \in Seq(S)
    PROVE  Joined(S, s \o t, s, t)
BY DEF Joined

LEMMA WrittenIs ==
    ASSUME NEW p \in Pairs, ~p.bare
    PROVE  LET w == Query!Written(p) IN
           w \in Seq(Codes) /\ Len(w) = Width(p) /\ Placed(w, 0, p)
<1> DEFINE w == Query!Written(p)
           e == Enc(p.name)
           v == Enc(p.value)
           q == Equals
           m == Len(p.name)
           n == Len(p.value)
<1>1. w = e \o (<<q>> \o v)
  BY Zenon DEF Query!Written, Enc, Equals
<1>2. /\ e \in Seq(Codes) /\ v \in Seq(Codes) /\ Len(e) = m /\ Len(v) = n
      /\ m \in Nat /\ n \in Nat
  BY Zenon, PairIs
<1>3. q \in Codes
  BY Zenon, PlainIs DEF Equals
<1> HIDE DEF w, e, v, q, m, n
<1>4. /\ <<q>> \in Seq(Codes) /\ Len(<<q>>) = 1 /\ <<q>>[1] = q
  BY <1>3
<1> DEFINE r == <<q>> \o v
<1>5. /\ r \in Seq(Codes) /\ Len(r) = 1 + n /\ r[1] = q
      /\ \A i \in 1..n : r[1 + i] = v[i]
  BY <1>2, <1>4
<1> HIDE DEF r
<1>6. /\ w \in Seq(Codes) /\ Len(w) = m + 1 + n
      /\ \A i \in 1..m : w[i] = e[i]
      /\ \A i \in 1..(n + 1) : w[m + i] = r[i]
  <2>1. w = e \o r
    BY Zenon, <1>1 DEF r
  <2>4. Joined(Codes, w, e, r)
    BY Zenon, <1>2, <1>5, <2>1, Joins
  <2>2. /\ w \in Seq(Codes) /\ Len(w) = Len(e) + Len(r)
        /\ \A i \in 1..Len(e) : w[i] = e[i]
        /\ \A i \in 1..Len(r) : w[Len(e) + i] = r[i]
    BY Zenon, <2>4 DEF Joined
  <2>3. m + (1 + n) = m + 1 + n /\ 1 + n = n + 1
    BY <1>2
  <2>5. QED
    BY Zenon, <1>2, <1>5, <2>2, <2>3
<1>7. w[m + 1] = q
  BY <1>2, <1>5, <1>6
<1>8. ASSUME NEW i \in 1..n
      PROVE  w[m + 1 + i] = v[i]
  <2>1. 1 + i \in 1..(n + 1) /\ m + 1 + i = m + (1 + i)
    BY <1>2
  <2>2. QED
    BY Zenon, <1>5, <1>6, <2>1
<1>9. /\ 0 + (m + 1 + n) <= Len(w) /\ 0 + m + 1 = m + 1
      /\ \A i \in 1..m : 0 + i = i
      /\ \A i \in 1..n : 0 + m + 1 + i = m + 1 + i
  BY <1>2, <1>6
<1>10. /\ \A i \in 1..m : w[0 + i] = e[i]
       /\ w[0 + m + 1] = q
       /\ \A i \in 1..n : w[0 + m + 1 + i] = v[i]
  BY Zenon, <1>6, <1>7, <1>8, <1>9
<1>11. Placed(w, 0, p)
  BY Zenon, <1>9, <1>10 DEF Placed, Width, e, v, q, m, n
<1>12. QED
  BY Zenon, <1>6, <1>11 DEF w, Width, m, n

\* Text before it and behind it.
LEMMA PlacedIn ==
    ASSUME NEW p \in Pairs, NEW s \in Seq(Codes), NEW t \in Seq(Codes), NEW b \in Nat,
           NEW text \in Seq(Codes), Placed(t, b, p),
           Len(text) >= Len(s) + Len(t),
           \A i \in 1..Len(t) : text[Len(s) + i] = t[i]
    PROVE  Placed(text, Len(s) + b, p)
<1> DEFINE m == Len(p.name)
           n == Len(p.value)
           d == Len(s)
           k == Len(t)
           e == Enc(p.name)
           v == Enc(p.value)
           q == Equals
           h == Len(text)
<1>1. m \in Nat /\ n \in Nat /\ d \in Nat /\ k \in Nat /\ h \in Nat /\ h >= d + k
  BY PairIs
<1>2. /\ b + (m + 1 + n) <= k
      /\ \A i \in 1..m : t[b + i] = e[i]
      /\ t[b + m + 1] = q
      /\ \A i \in 1..n : t[b + m + 1 + i] = v[i]
  BY Zenon DEF Placed, Width
<1>3. \A i \in 1..k : text[d + i] = t[i]
  BY Zenon
<1> HIDE DEF m, n, d, k, e, v, q, h
<1>4. (d + b) + (m + 1 + n) <= h
  BY <1>1, <1>2
<1>5. ASSUME NEW i \in 1..m
      PROVE  text[(d + b) + i] = e[i]
  <2>1. b + i \in 1..k /\ (d + b) + i = d + (b + i)
    BY <1>1, <1>2
  <2>2. QED
    BY Zenon, <1>2, <1>3, <2>1
<1>6. text[(d + b) + m + 1] = q
  <2> DEFINE z == b + m + 1
  <2>1. z \in 1..k /\ (d + b) + m + 1 = d + z
    BY <1>1, <1>2
  <2>2. t[z] = q
    BY Zenon, <1>2
  <2> HIDE DEF z
  <2>3. text[d + z] = q
    BY Zenon, <1>3, <2>1, <2>2
  <2>4. QED
    BY Zenon, <2>1, <2>3
<1>7. ASSUME NEW i \in 1..n
      PROVE  text[(d + b) + m + 1 + i] = v[i]
  <2>1. b + m + 1 + i \in 1..k /\ (d + b) + m + 1 + i = d + (b + m + 1 + i)
    BY <1>1, <1>2
  <2>2. QED
    BY Zenon, <1>2, <1>3, <2>1
<1>8. QED
  BY Zenon, <1>4, <1>5, <1>6, <1>7 DEF Placed, Width, m, n, d, k, e, v, q, h

\* The first j pairs stand one behind the other; pair i ends at ends[i].
Laid(text, pairs, sep, ends, j) ==
    /\ ends[j] = Len(text) /\ ends[1] = Width(pairs[1])
    /\ \A i \in 1..j : /\ ends[i] \in Nat /\ ends[i] - Width(pairs[i]) \in Nat
                       /\ ends[i] <= Len(text)
                       /\ Placed(text, ends[i] - Width(pairs[i]), pairs[i])
    /\ \A i \in 1..(j - 1) : /\ ends[i + 1] = ends[i] + Len(sep) + Width(pairs[i + 1])
                             /\ \A x \in 1..Len(sep) : text[ends[i] + x] = sep[x]

LEMMA LaidMore ==
    ASSUME NEW pairs \in Seq(Pairs), NEW sep \in Seq(Codes), NEW ends, NEW j \in Nat \ {0},
           NEW s \in Seq(Codes), Laid(s, pairs, sep, ends, j), j + 1 \in 1..Len(pairs),
           ~pairs[j + 1].bare,
           NEW t, t = s \o (sep \o Query!Written(pairs[j + 1])), ends[j + 1] = Len(t)
    PROVE  t \in Seq(Codes) /\ Laid(t, pairs, sep, ends, j + 1)
<1> DEFINE p == pairs[j + 1]
           w == Query!Written(p)
           r == sep \o w
           d == Len(sep)
           l == Len(s)
<1>1. p \in Pairs /\ (\A i \in 1..(j + 1) : pairs[i] \in Pairs) /\ d \in Nat /\ l \in Nat
  OBVIOUS
<1>2. w \in Seq(Codes) /\ Len(w) = Width(p) /\ Placed(w, 0, p) /\ Width(p) \in Nat
  BY Zenon, <1>1, WrittenIs, PairIs
<1> HIDE DEF w
<1>3. Joined(Codes, r, sep, w)
  BY Zenon, <1>2, Joins
<1>4. r \in Seq(Codes) /\ Len(r) = d + Width(p)
      /\ (\A i \in 1..d : r[i] = sep[i]) /\ \A i \in 1..Len(w) : r[d + i] = w[i]
  BY Zenon, <1>2, <1>3 DEF Joined
<1>5. t = s \o r
  BY Zenon DEF w
<1> HIDE DEF r
<1>6. Joined(Codes, t, s, r)
  BY Zenon, <1>4, <1>5, Joins
<1>7. t \in Seq(Codes) /\ Len(t) = l + (d + Width(p))
      /\ (\A i \in 1..l : t[i] = s[i]) /\ \A i \in 1..Len(r) : t[l + i] = r[i]
  BY Zenon, <1>4, <1>6 DEF Joined
<1>8. /\ ends[j] = l /\ ends[1] = Width(pairs[1])
      /\ \A i \in 1..j : /\ ends[i] \in Nat /\ ends[i] - Width(pairs[i]) \in Nat /\ ends[i] <= l
                         /\ Placed(s, ends[i] - Width(pairs[i]), pairs[i])
      /\ \A i \in 1..(j - 1) : /\ ends[i + 1] = ends[i] + d + Width(pairs[i + 1])
                               /\ \A x \in 1..d : s[ends[i] + x] = sep[x]
  BY Zenon DEF Laid
<1> DEFINE width == Width(p)
           m == Len(t)
<1>9. m \in Nat /\ m = l + d + width /\ width \in Nat
  <2>1. width \in Nat /\ m = l + (d + width)
    BY Zenon, <1>2, <1>7
  <2> HIDE DEF width, m, d, l
  <2>2. QED
    BY <1>1, <2>1
<1>10. ASSUME NEW i \in 1..j
       PROVE  Placed(t, ends[i] - Width(pairs[i]), pairs[i])
  <2> DEFINE b == ends[i] - Width(pairs[i])
             q == pairs[i]
             none == <<>>
  <2>1. b \in Nat /\ Placed(s, b, q)
    BY Zenon, <1>8
  <2>2. q \in Pairs
    BY <1>1
  <2> HIDE DEF b, q
  <2>3. none \in Seq(Codes) /\ Len(none) = 0
    OBVIOUS
  <2> HIDE DEF none
  <2>4. 0 + b = b /\ m >= 0 + l /\ \A x \in 1..l : 0 + x = x
    <3> HIDE DEF m, l, d, width
    <3>1. QED
      BY <1>1, <1>9, <2>1
  <2>5. Len(t) >= Len(none) + Len(s)
    BY Zenon, <2>3, <2>4
  <2>6. \A x \in 1..Len(s) : t[Len(none) + x] = s[x]
    BY Zenon, <1>7, <2>3, <2>4
  <2>7. Placed(t, Len(none) + b, q)
    BY Zenon, <1>7, <2>1, <2>2, <2>3, <2>5, <2>6, PlacedIn
  <2>8. QED
    BY Zenon, <2>3, <2>4, <2>7 DEF b, q
<1>11. Placed(t, m - width, p)
  <2>1. Joined(Codes, s \o sep, s, sep)
    BY Zenon, Joins
  <2> DEFINE a == s \o sep
  <2>2. a \in Seq(Codes) /\ Len(a) = l + d
    BY Zenon, <2>1 DEF Joined
  <2> HIDE DEF a, m, l, d, width
  <2>3. Len(w) = width
    BY Zenon, <1>2 DEF width
  <2>4. m >= (l + d) + width /\ (l + d) + 0 = m - width
    BY <1>1, <1>9
  <2>5. ASSUME NEW x \in 1..width
        PROVE  t[(l + d) + x] = w[x]
    <3>1. d + x \in 1..(d + width) /\ (l + d) + x = l + (d + x)
      BY <1>1, <1>9
    <3>2. d + x \in 1..Len(r)
      BY Zenon, <1>4, <3>1 DEF width
    <3>3. t[l + (d + x)] = r[d + x] /\ r[d + x] = w[x]
      BY Zenon, <1>4, <1>7, <2>3, <3>2
    <3>4. QED
      BY Zenon, <3>1, <3>3
  <2>6. Len(t) >= Len(a) + Len(w)
    BY Zenon, <2>2, <2>3, <2>4 DEF m
  <2>7. \A x \in 1..Len(w) : t[Len(a) + x] = w[x]
    BY Zenon, <2>2, <2>3, <2>5
  <2>8. 0 \in Nat
    OBVIOUS
  <2>9. Placed(t, Len(a) + 0, p)
    BY Zenon, <1>1, <1>2, <1>7, <2>2, <2>6, <2>7, <2>8, PlacedIn
  <2>10. QED
    BY Zenon, <2>2, <2>4, <2>9
<1>12. ASSUME NEW i \in 1..j
       PROVE  ends[i] <= m
  <2>1. ends[i] \in Nat /\ ends[i] <= l
    BY Zenon, <1>8
  <2> HIDE DEF m, l, d, width
  <2>2. QED
    BY <1>1, <1>9, <2>1
<1>13. /\ ends[j + 1] = m /\ m - width \in Nat /\ m <= m
       /\ \A i \in 1..(j + 1) : i \in 1..j \/ i = j + 1
       /\ (j + 1) - 1 = j /\ \A i \in 1..j : i \in 1..(j - 1) \/ i = j
  <2>1. ends[j + 1] = m
    BY Zenon
  <2> HIDE DEF m, l, d, width
  <2>2. QED
    BY <1>1, <1>9, <2>1
<1>14. ASSUME NEW i \in 1..(j + 1)
       PROVE  /\ ends[i] \in Nat /\ ends[i] - Width(pairs[i]) \in Nat /\ ends[i] <= m
              /\ Placed(t, ends[i] - Width(pairs[i]), pairs[i])
  <2>1. CASE i \in 1..j
    BY Zenon, <1>8, <1>10, <1>12, <2>1
  <2>2. CASE i = j + 1
    BY Zenon, <1>9, <1>11, <1>13, <2>2
  <2>3. QED
    BY Zenon, <1>13, <2>1, <2>2
<1>15. ASSUME NEW i \in 1..((j + 1) - 1)
       PROVE  /\ ends[i + 1] = ends[i] + d + Width(pairs[i + 1])
              /\ \A x \in 1..d : t[ends[i] + x] = sep[x]
  <2>1. CASE i \in 1..(j - 1)
    <3>1. ends[i + 1] = ends[i] + d + Width(pairs[i + 1])
      BY Zenon, <1>8, <2>1
    <3>2. i + 1 \in 1..j /\ i \in 1..j
      BY <2>1
    <3>3. ends[i + 1] <= l /\ ends[i] \in Nat
      BY Zenon, <1>8, <3>2
    <3>4. Width(pairs[i + 1]) \in Nat
      <4>1. pairs[i + 1] \in Pairs
        BY <1>1, <3>2
      <4>2. QED
        BY Zenon, <4>1, PairIs
    <3>5. ASSUME NEW x \in 1..d
          PROVE  t[ends[i] + x] = sep[x]
      <4> DEFINE e == ends[i]
                 f == ends[i + 1]
                 v == Width(pairs[i + 1])
      <4>1. f = e + d + v /\ f <= l /\ e \in Nat /\ v \in Nat
        BY Zenon, <3>1, <3>3, <3>4
      <4> HIDE DEF e, f, v, d, l
      <4>2. e + x \in 1..l
        BY <1>1, <4>1
      <4>3. t[e + x] = s[e + x]
        BY Zenon, <1>7, <4>2
      <4>4. s[e + x] = sep[x]
        BY Zenon, <1>8, <2>1 DEF e
      <4>5. QED
        BY Zenon, <4>3, <4>4 DEF e
    <3>6. QED
      BY Zenon, <3>1, <3>5
  <2>2. CASE i = j
    <3>1. m = l + d + width /\ ends[i + 1] = m /\ ends[i] = l
      BY Zenon, <1>8, <1>9, <1>13, <2>2
    <3>2. ASSUME NEW x \in 1..d
          PROVE  t[l + x] = sep[x]
      <4> HIDE DEF m, l, d, width
      <4>1. x \in 1..(d + width)
        BY <1>1, <1>9
      <4>2. x \in 1..Len(r)
        BY Zenon, <1>4, <4>1 DEF width
      <4>3. QED
        BY Zenon, <1>4, <1>7, <4>2
    <3>3. QED
      BY Zenon, <2>2, <3>1, <3>2
  <2>3. QED
    BY Zenon, <1>13, <2>1, <2>2
<1>16. QED
  BY Zenon, <1>7, <1>8, <1>13, <1>14, <1>15 DEF Laid

LEMMA LineIs ==
    ASSUME NEW pairs \in Seq(Pairs), pairs # <<>>, \A i \in 1..Len(pairs) : ~pairs[i].bare,
           NEW sep \in Seq(Codes)
    PROVE  LET text == Query!Line(pairs, sep) IN
           text \in Seq(Codes) /\ \E ends : Laid(text, pairs, sep, ends, Len(pairs))
<1> DEFINE n == Len(pairs)
           part(i) == (IF i = 1 THEN <<>> ELSE sep) \o Query!Written(pairs[i])
           F == [i \in 1..n |-> part(i)]
           G == CHOOSE f : f = [i \in 1..n |-> IF i = 1 THEN F[i] ELSE f[i - 1] \o F[i]]
           text == Query!Line(pairs, sep)
<1>1. n \in Nat \ {0} /\ DOMAIN pairs = 1..n /\ \A i \in 1..n : pairs[i] \in Pairs
  OBVIOUS
<1>2. Len(F) = n /\ n # 0
  <2> HIDE DEF part
  <2>1. Len([i \in 1..n |-> part(i)]) = n
    BY <1>1
  <2>2. QED
    BY <1>1, <2>1
<1>3. G = [i \in 1..n |-> IF i = 1 THEN F[i] ELSE G[i - 1] \o F[i]]
  <2>1. \E f : f = [i \in 1..n |-> IF i = 1 THEN F[i] ELSE f[i - 1] \o F[i]]
    <3>1. n \in Nat
      BY Zenon, <1>1
    <3> HIDE DEF F, n
    <3>2. QED
      BY Zenon, <3>1, Flattens
  <2> HIDE DEF F, n
  <2>2. QED
    BY Zenon, <2>1
<1>4. text = G[n]
  <2>1. text = Query!FlattenSeq(F)
    BY Zenon, <1>1 DEF Query!Line
  <2> HIDE DEF F
  <2>2. Query!FlattenSeq(F) = G[n]
    BY Zenon, <1>2 DEF Query!FlattenSeq
  <2>3. QED
    BY Zenon, <2>1, <2>2
<1>5. \A i \in 1..n : F[i] = part(i)
  BY Zenon
<1> HIDE DEF G, F
<1>6. 1 \in 1..n /\ n \in 1..n
  <2> HIDE DEF n
  <2>1. QED
    BY <1>1
<1>7. G[1] = Query!Written(pairs[1])
  <2>1. G[1] = part(1)
    BY Zenon, <1>3, <1>5, <1>6
  <2> DEFINE w == Query!Written(pairs[1])
  <2>2. part(1) = <<>> \o w
    BY Zenon
  <2>3. w \in Seq(Codes)
    BY Zenon, <1>1, <1>6, WrittenIs
  <2> HIDE DEF w
  <2>4. <<>> \o w = w
    BY <2>3
  <2>5. QED
    BY Zenon, <2>1, <2>2, <2>4 DEF w
<1>8. \A i \in 1..n : i # 1 => G[i] = G[i - 1] \o (sep \o Query!Written(pairs[i]))
  BY Zenon, <1>3, <1>5
<1> HIDE DEF part
<1> DEFINE ends == [i \in 1..n |-> Len(G[i])]
           Fine(j) == G[j] \in Seq(Codes) /\ Laid(G[j], pairs, sep, ends, j)
           T == {j \in Nat : j \in 1..n => Fine(j)}
<1>9. \A i \in 1..n : ends[i] = Len(G[i])
  BY Zenon
<1> HIDE DEF ends
<1>10. 0 \in T
  BY <1>1
<1>11. ASSUME NEW j \in Nat, j \in T
       PROVE  j + 1 \in T
  <2>1. SUFFICES ASSUME j + 1 \in 1..n PROVE Fine(j + 1)
    OBVIOUS
  <2>2. CASE j = 0
    <3>1. j + 1 = 1
      BY <2>2
    <3> DEFINE p == pairs[1]
               w == G[1]
    <3>2. w \in Seq(Codes) /\ Len(w) = Width(p) /\ Placed(w, 0, p) /\ Width(p) \in Nat
      BY Zenon, <1>1, <1>6, <1>7, WrittenIs, PairIs
    <3>3. ends[1] = Len(w)
      BY Zenon, <1>6, <1>9
    <3> DEFINE d == Width(p)
    <3>4. d \in Nat
      BY Zenon, <3>2
    <3> HIDE DEF d
    <3>5. d - d = 0 /\ d <= d /\ 0 \in Nat /\ 1..(1 - 1) = {} /\ \A i \in 1..1 : i = 1
      BY <3>4
    <3> HIDE DEF w, p
    <3>6. \A i \in 1..1 : /\ ends[i] \in Nat /\ ends[i] - Width(pairs[i]) \in Nat /\ ends[i] <= Len(w)
                          /\ Placed(w, ends[i] - Width(pairs[i]), pairs[i])
      BY Zenon, <3>2, <3>3, <3>5 DEF d, p
    <3>7. Laid(w, pairs, sep, ends, 1)
      BY Zenon, <3>2, <3>3, <3>5, <3>6 DEF Laid, p
    <3>8. QED
      BY Zenon, <3>1, <3>2, <3>7 DEF w
  <2>3. CASE j # 0
    <3>1. j \in 1..n /\ j \in Nat \ {0} /\ j + 1 # 1 /\ (j + 1) - 1 = j
      <4> HIDE DEF n
      <4>1. QED
        BY <1>1, <2>1, <2>3
    <3>2. Fine(j)
      BY <1>11, <3>1
    <3> DEFINE s == G[j]
               t == G[j + 1]
    <3>3. t = s \o (sep \o Query!Written(pairs[j + 1]))
      BY Zenon, <1>8, <2>1, <3>1
    <3>4. ends[j + 1] = Len(t) /\ ~pairs[j + 1].bare
      BY Zenon, <1>9, <2>1
    <3>5. s \in Seq(Codes) /\ Laid(s, pairs, sep, ends, j)
      BY Zenon, <3>2
    <3> HIDE DEF s, t
    <3>6. t \in Seq(Codes) /\ Laid(t, pairs, sep, ends, j + 1)
      BY Zenon, <2>1, <3>1, <3>3, <3>4, <3>5, LaidMore
    <3>7. QED
      BY Zenon, <3>6 DEF t
  <2>4. QED
    BY <2>2, <2>3
<1>12. Nat \subseteq T
  <2> HIDE DEF T
  <2>1. QED
    BY <1>10, <1>11, SetInduction
<1>13. n \in T
  BY <1>1, <1>12
<1>14. Fine(n)
  BY Zenon, <1>6, <1>13
<1>15. QED
  BY Zenon, <1>4, <1>14

-----------------------------------------------------------------------------
(* PARSE_PARAM at one place of the text.                                   *)

Flags == {Query!Plain("&"), Query!Plain(";")}
Space == Query!Plain(" ")

Plain(s) == "=" \notin {s[j] : j \in DOMAIN s}

Key(text, from) == Search(text, from, Len(text), Equals)
End(text, from, flag) == Search(text, Key(text, from), Len(text), flag)
KeyText(text, from) == SubSeq(text, from, Key(text, from) - 1)
NameOf(text, from, trimmed) ==
    Query!UrlDecode(IF trimmed THEN Trimmed(KeyText(text, from), Space) ELSE KeyText(text, from))
ValueOf(text, from, flag) ==
    Query!UrlDecode(SubSeq(text, Key(text, from) + 1,
                           IF End(text, from, flag) = 0 THEN Len(text) ELSE End(text, from, flag) - 1))

LEMMA CharsAre ==
    ASSUME NEW s \in Seq(Letters), NEW i \in 1..Len(s), NEW flag \in Flags
    PROVE  /\ Enc(s)[i] # flag /\ Enc(s)[i] # Space
           /\ Plain(s) => Enc(s)[i] # Equals
<1>1. s[i] \in Letters /\ i \in DOMAIN s
  OBVIOUS
<1>2. Enc(s)[i] = Encoded(s[i])
  BY Zenon, EncodeIs DEF Enc
<1>3. QED
  BY Zenon, <1>1, <1>2, CodeIs DEF Plain, Flags, Space, Equals

LEMMA FlagIs ==
    ASSUME NEW flag \in Flags
    PROVE  Equals # flag /\ Equals # Space /\ flag \in Codes /\ Equals \in Codes /\ Space \in Codes
BY Zenon, PlainIs DEF Flags, Space, Equals

\* A piece of a text that is the writing of s is s.
LEMMA PieceDecoded ==
    ASSUME NEW text \in Seq(Codes), NEW s \in Seq(Letters), NEW b \in Nat, b + Len(s) <= Len(text),
           \A i \in 1..Len(s) : text[b + i] = Enc(s)[i]
    PROVE  /\ SubSeq(text, b + 1, b + Len(s)) = Enc(s)
           /\ Query!UrlDecode(SubSeq(text, b + 1, b + Len(s))) = s
<1> DEFINE n == Len(s)
           e == Enc(s)
           t == SubSeq(text, b + 1, b + n)
<1>1. n \in Nat /\ e \in Seq(Codes) /\ Len(e) = n
  BY Zenon, EncodeIs, LenProperties DEF Enc
<1>2. \A i \in 1..n : text[b + i] = e[i]
  BY Zenon
<1>3. b + n <= Len(text)
  BY Zenon
<1> HIDE DEF e, n
<1>4. Len(t) = n /\ \A i \in 1..n : t[i] = text[b + i]
  BY <1>1, <1>3
<1>5. t \in Seq(Codes)
  BY <1>1, <1>3
<1> HIDE DEF t
<1>6. \A i \in 1..n : t[i] = e[i]
  BY Zenon, <1>2, <1>4
<1>7. t = e
  BY <1>1, <1>4, <1>5, <1>6
<1>8. Query!UrlDecode(e) = s
  BY Zenon, EncodeIs DEF e, Enc
<1>9. QED
  BY Zenon, <1>7, <1>8 DEF t, e, n

Behind(r, t, a, m) ==
    /\ r \in Seq(Codes) /\ Len(r) = m
    /\ \A i \in 1..m : r[i] = t[a + i]

LEMMA TailIs ==
    ASSUME NEW t \in Seq(Codes), NEW a \in Nat, NEW m \in Nat, a + m = Len(t)
    PROVE  Behind(SubSeq(t, a + 1, Len(t)), t, a, m)
BY DEF Behind

\* What the parser makes of pair p from place "from" on.
Takes(text, p, from, flag, trimmed, stop) ==
    /\ Key(text, from) # 0
    /\ End(text, from, flag) = IF stop = Len(text) THEN 0 ELSE stop + 1
    /\ NameOf(text, from, trimmed) = p.name
    /\ ValueOf(text, from, flag) = p.value

LEMMA PairTaken ==
    ASSUME NEW text \in Seq(Codes), NEW p \in Pairs, Plain(p.name),
           NEW b \in Nat, Placed(text, b, p),
           NEW flag \in Flags, NEW trimmed \in BOOLEAN,
           NEW from \in Nat \ {0},
           from = b + 1 \/ (from = b /\ trimmed /\ text[from] = Space),
           NEW stop, stop = b + Width(p),
           stop = Len(text) \/ (stop < Len(text) /\ text[stop + 1] = flag)
    PROVE  Takes(text, p, from, flag, trimmed, stop)
<1> DEFINE m == Len(p.name)
           n == Len(p.value)
           l == Len(text)
           k == b + m + 1
           e == Enc(p.name)
           v == Enc(p.value)
           q == Equals
           sp == Space
<1>1. /\ p.name \in Seq(Letters) /\ p.value \in Seq(Letters) /\ m \in Nat /\ n \in Nat
      /\ e \in Seq(Codes) /\ Len(e) = m /\ v \in Seq(Codes) /\ Len(v) = n
  BY Zenon, PairIs
<1>2. /\ b + (m + 1 + n) <= l
      /\ \A i \in 1..m : text[b + i] = e[i]
      /\ text[k] = q
      /\ \A i \in 1..n : text[k + i] = v[i]
  BY Zenon DEF Placed, Width
<1>3. stop = b + (m + 1 + n)
  BY Zenon DEF Width
<1>4. l \in Nat
  OBVIOUS
<1>5. /\ q # flag /\ q # sp
      /\ \A i \in 1..m : e[i] # flag /\ e[i] # sp /\ e[i] # q
      /\ \A i \in 1..n : v[i] # flag
  BY Zenon, <1>1, CharsAre, FlagIs
<1>6. from = b + 1 \/ (from = b /\ trimmed /\ text[from] = sp)
  BY Zenon
<1>7. stop = l \/ (stop < l /\ text[stop + 1] = flag)
  BY Zenon
<1> HIDE DEF m, n, l, e, v, q, sp
<1>17. m \in Nat /\ n \in Nat /\ l \in Nat
  BY Zenon, <1>1, <1>4
<1>8. Key(text, from) = k
  <2>1. k \in from..l
    BY <1>1, <1>2, <1>4, <1>6
  <2>2. ASSUME NEW i \in from..(k - 1)
        PROVE  text[i] # q
    <3>1. CASE i = b
      <4>1. text[i] = sp
        BY <1>6, <3>1
      <4>2. QED
        BY Zenon, <1>5, <4>1
    <3>2. CASE i # b
      <4>1. i - b \in 1..m /\ b + (i - b) = i
        BY <1>1, <1>6, <3>2
      <4>2. text[b + (i - b)] = e[i - b] /\ e[i - b] # q
        BY Zenon, <1>2, <1>5, <4>1
      <4>3. QED
        BY Zenon, <4>1, <4>2
    <3>3. QED
      BY Zenon, <3>1, <3>2
  <2>3. from \in Nat
    OBVIOUS
  <2> HIDE DEF k
  <2>4. Search(text, from, l, q) = k
    <3>1. text[k] = q
      BY Zenon, <1>2
    <3>2. \A i \in from..(k - 1) : text[i] # q
      BY Zenon, <2>2
    <3>3. QED
      BY Zenon, <1>4, <2>1, <2>3, <3>1, <3>2, Found
  <2>5. QED
    BY Zenon, <2>4 DEF Key, l, q
<1>9. k \in Nat \ {0}
  BY <1>1
<1>10. ASSUME NEW i \in k..stop
       PROVE  text[i] # flag
  <2>1. CASE i = k
    BY Zenon, <1>2, <1>5, <2>1
  <2>2. CASE i # k
    <3>1. i - k \in 1..n /\ k + (i - k) = i
      BY <1>1, <1>3, <2>2
    <3>2. text[k + (i - k)] = v[i - k] /\ v[i - k] # flag
      BY Zenon, <1>2, <1>5, <3>1
    <3>3. QED
      BY Zenon, <3>1, <3>2
  <2>3. QED
    BY Zenon, <2>1, <2>2
<1>11. stop \in Nat /\ stop = k + n /\ k <= stop /\ k - 1 = b + m
  BY <1>3, <1>17
<1> HIDE DEF k
<1> DEFINE x == End(text, from, flag)
<1>12. x = Search(text, k, l, flag)
  BY Zenon, <1>8 DEF End, l
<1>13. x = IF stop = l THEN 0 ELSE stop + 1
  <2>1. CASE stop = l
    <3>1. k \in Nat
      BY <1>9
    <3>2. Search(text, k, l, flag) = 0
      BY Zenon, <1>4, <1>10, <2>1, <3>1, NotFound
    <3>3. QED
      BY Zenon, <1>12, <2>1, <3>2
  <2>2. CASE stop # l
    <3>1. k \in Nat /\ stop + 1 \in k..l /\ (stop + 1) - 1 = stop /\ text[stop + 1] = flag
      BY <1>4, <1>7, <1>9, <1>11, <2>2
    <3>2. Search(text, k, l, flag) = stop + 1
      BY Zenon, <1>4, <1>10, <3>1, Found
    <3>3. QED
      BY Zenon, <1>12, <2>2, <3>2
  <2>3. QED
    BY Zenon, <2>1, <2>2
<1> HIDE DEF x
<1>14. ValueOf(text, from, flag) = p.value
  <2> DEFINE to == IF x = 0 THEN l ELSE x - 1
  <2>1. to = stop
    <3>1. CASE stop = l
      BY <1>13, <3>1
    <3>2. CASE stop # l
      BY <1>11, <1>13, <3>2
    <3>3. QED
      BY Zenon, <3>1, <3>2
  <2>2. ValueOf(text, from, flag) = Query!UrlDecode(SubSeq(text, k + 1, to))
    BY Zenon, <1>8 DEF ValueOf, x, l
  <2>3. k \in Nat /\ k + n <= l
    BY <1>1, <1>3, <1>2, <1>9, <1>11
  <2>4. Query!UrlDecode(SubSeq(text, k + 1, k + n)) = p.value
    BY Zenon, <1>1, <1>2, <2>3, PieceDecoded DEF n, l, v
  <2>5. QED
    BY Zenon, <1>11, <2>1, <2>2, <2>4
<1>15. NameOf(text, from, trimmed) = p.name
  <2> DEFINE t == SubSeq(text, from, b + m)
  <2>1. KeyText(text, from) = t
    BY Zenon, <1>8, <1>11 DEF KeyText
  <2>2. b + m <= l
    BY <1>1, <1>2, <1>4
  <2>3. SubSeq(text, b + 1, b + m) = e /\ Query!UrlDecode(e) = p.name
    <3>1. SubSeq(text, b + 1, b + m) = e
      BY Zenon, <1>1, <1>2, <2>2, PieceDecoded DEF m, l, e
    <3>2. Query!UrlDecode(e) = p.name
      BY Zenon, <1>1, EncodeIs DEF e, Enc
    <3>3. QED
      BY Zenon, <3>1, <3>2
  <2>4. /\ t \in Seq(Codes) /\ Len(t) = b + m + 1 - from
        /\ \A i \in 1..(b + m + 1 - from) : t[i] = text[from + i - 1]
    BY <1>1, <1>4, <1>6, <2>2 DEF l
  <2> DEFINE a == b + 1 - from
  <2>5. a \in {0, 1} /\ a \in 0..Len(t) /\ (a = 1 => trimmed /\ text[from] = sp)
    BY <1>1, <1>6, <2>4
  <2>6. \A i \in 1..a : t[i] = sp
    <3>1. ASSUME NEW i \in 1..a
          PROVE  t[i] = sp
      <4>1. a = 1 /\ i = 1 /\ i \in 1..(b + m + 1 - from) /\ from + i - 1 = from
        BY <1>1, <1>6, <2>5
      <4>2. t[i] = text[from]
        BY Zenon, <2>4, <4>1
      <4>3. QED
        BY Zenon, <2>5, <4>1, <4>2
    <3>2. QED
      BY Zenon, <3>1
  <2>7. \A i \in (a + 1)..Len(t) : t[i] # sp
    <3>1. ASSUME NEW i \in (a + 1)..Len(t)
          PROVE  t[i] # sp
      <4>1. i - a \in 1..m /\ from + i - 1 = b + (i - a) /\ i \in 1..(b + m + 1 - from)
        BY <1>1, <1>6, <2>4
      <4>2. t[i] = text[b + (i - a)]
        BY Zenon, <2>4, <4>1
      <4>3. text[b + (i - a)] = e[i - a] /\ e[i - a] # sp
        BY Zenon, <1>2, <1>5, <4>1
      <4>4. QED
        BY Zenon, <4>2, <4>3
    <3>2. QED
      BY Zenon, <3>1
  <2>8. SubSeq(t, a + 1, Len(t)) = e
    <3> DEFINE r == SubSeq(t, a + 1, Len(t))
    <3>4. a \in Nat /\ a + m = Len(t)
      BY <1>6, <1>17, <2>4
    <3>1. /\ r \in Seq(Codes) /\ Len(r) = m
          /\ \A i \in 1..m : r[i] = t[a + i]
      <4> HIDE DEF t, a
      <4>1. Behind(SubSeq(t, a + 1, Len(t)), t, a, m)
        BY Zenon, <1>17, <2>4, <3>4, TailIs
      <4>2. Behind(r, t, a, m)
        BY Zenon, <4>1
      <4> HIDE DEF r
      <4>3. QED
        BY Zenon, <4>2 DEF Behind
    <3>2. ASSUME NEW i \in 1..m
          PROVE  r[i] = e[i]
      <4>1. a + i \in 1..(b + m + 1 - from) /\ from + (a + i) - 1 = b + i
        BY <1>6, <1>17
      <4>2. QED
        BY Zenon, <1>2, <2>4, <3>1, <4>1
    <3> HIDE DEF r, t, a
    <3>3. r = e
      BY <1>1, <3>1, <3>2
    <3>5. QED
      BY Zenon, <3>3 DEF r
  <2>9. CASE trimmed
    <3>1. Trimmed(t, sp) = SubSeq(t, a + 1, Len(t))
      <4> HIDE DEF t, a
      <4>1. QED
        BY Zenon, <2>4, <2>5, <2>6, <2>7, TrimIs
    <3>2. QED
      BY Zenon, <2>1, <2>3, <2>8, <2>9, <3>1 DEF NameOf, sp
  <2>10. CASE ~trimmed
    <3>1. t = SubSeq(text, b + 1, b + m)
      BY Zenon, <1>6, <2>10
    <3>2. QED
      BY Zenon, <2>1, <2>3, <2>10, <3>1 DEF NameOf
  <2>11. QED
    BY Zenon, <2>9, <2>10
<1>16. QED
  BY Zenon, <1>8, <1>9, <1>13, <1>14, <1>15 DEF Takes, x, l

-----------------------------------------------------------------------------
(* PARSE_PARAM over the whole text.                                        *)

IsParse(f, text, flag, trimmed) ==
    f = [pos \in Nat |->
           IF Key(text, pos) = 0 THEN <<>>
           ELSE <<<<NameOf(text, pos, trimmed), ValueOf(text, pos, flag)>>>>
                \o IF End(text, pos, flag) = 0 THEN <<>> ELSE f[End(text, pos, flag) + 1]]

LEMMA ParseExists ==
    ASSUME NEW text \in Seq(Codes), NEW flag, NEW trimmed
    PROVE  \E f : IsParse(f, text, flag, trimmed)
<1> DEFINE n == Len(text)
           key == [pos \in Nat |-> Key(text, pos)]
           end == [pos \in Nat |-> End(text, pos, flag)]
           item == [pos \in Nat |-> <<NameOf(text, pos, trimmed), ValueOf(text, pos, flag)>>]
<1>1. n \in Nat
  OBVIOUS
<1>2. ASSUME NEW pos \in Nat
      PROVE  /\ key[pos] = Key(text, pos) /\ end[pos] = End(text, pos, flag)
             /\ item[pos] = <<NameOf(text, pos, trimmed), ValueOf(text, pos, flag)>>
  BY Zenon
<1>3. ASSUME NEW pos \in Nat
      PROVE  key[pos] = 0 \/ key[pos] \in pos..n
  BY Zenon, <1>1, <1>2, SearchIn DEF Key
<1>4. ASSUME NEW pos \in Nat, pos > n
      PROVE  key[pos] = 0
  <2>1. pos..n = {}
    BY <1>1, <1>4
  <2>2. QED
    BY Zenon, <1>3, <2>1
<1>5. ASSUME NEW pos \in Nat, key[pos] # 0, end[pos] # 0
      PROVE  end[pos] \in Nat /\ end[pos] >= pos
  <2> DEFINE k == key[pos]
             x == end[pos]
  <2>1. k \in pos..n
    BY Zenon, <1>3, <1>5
  <2>2. x = Search(text, k, n, flag)
    BY Zenon, <1>2 DEF End
  <2> HIDE DEF k
  <2>3. k \in Nat /\ k >= pos
    BY <1>1, <2>1
  <2>8. Search(text, k, n, flag) = 0 \/ Search(text, k, n, flag) \in k..n
    BY Zenon, <1>1, <2>3, SearchIn
  <2>4. x = 0 \/ x \in k..n
    BY Zenon, <2>2, <2>8
  <2>5. x \in k..n
    BY Zenon, <1>5, <2>4
  <2> HIDE DEF x
  <2>6. x \in Nat /\ x >= pos
    BY <1>1, <2>3, <2>5
  <2>7. QED
    BY Zenon, <2>6 DEF x
<1> HIDE DEF key, end, item, n
<1>6. PICK f : IsWalk(f, key, end, item)
  BY Zenon, <1>1, <1>4, <1>5, WalkExists
<1> DEFINE a == [pos \in Nat |-> WalkAt(f, key, end, item, pos)]
           b(pos) == IF Key(text, pos) = 0 THEN <<>>
                     ELSE <<<<NameOf(text, pos, trimmed), ValueOf(text, pos, flag)>>>>
                          \o IF End(text, pos, flag) = 0 THEN <<>> ELSE f[End(text, pos, flag) + 1]
<1>7. f = a
  BY Zenon, <1>6 DEF IsWalk, WalkAt
<1>8. ASSUME NEW pos \in Nat
      PROVE  WalkAt(f, key, end, item, pos) = b(pos)
  BY Zenon, <1>2 DEF WalkAt
<1>9. a = [pos \in Nat |-> b(pos)]
  <2> HIDE DEF b
  <2>1. QED
    BY Zenon, <1>8
<1>10. f = [pos \in Nat |-> b(pos)]
  BY Zenon, <1>7, <1>9
<1>11. QED
  BY Zenon, <1>10 DEF IsParse

LEMMA ParsedBy ==
    ASSUME NEW text, NEW char, NEW trimmed
    PROVE  Query!Parsed(text, char, trimmed) =
             (CHOOSE f : IsParse(f, text, Query!Plain(char), trimmed))[1]
BY Zenon DEF Query!Parsed, IsParse, Key, End, KeyText, NameOf, ValueOf, Search, Trimmed, Equals, Space,
             Query!Trim, Query!SelectInSubSeq, Query!SelectInSeq, Query!SelectLastInSeq, Query!Min, Query!Max

Pushed(S, r, a, s) ==
    /\ r \in Seq(S) /\ Len(r) = Len(s) + 1 /\ r[1] = a
    /\ \A x \in 1..Len(s) : r[x + 1] = s[x]

LEMMA Pushes ==
    ASSUME NEW S, NEW a \in S, NEW s \in Seq(S)
    PROVE  Pushed(S, <<a>> \o s, a, s)
<1>1. <<a>> \in Seq(S) /\ Len(<<a>>) = 1 /\ <<a>>[1] = a
  OBVIOUS
<1> DEFINE t == <<a>>
<1>2. t \in Seq(S) /\ Len(t) = 1 /\ t[1] = a
  BY Zenon, <1>1
<1> HIDE DEF t
<1> DEFINE r == t \o s
<1>5. Joined(S, r, t, s)
  BY Zenon, <1>2, Joins
<1> HIDE DEF r
<1>6. /\ r \in Seq(S) /\ Len(r) = 1 + Len(s) /\ \A i \in 1..1 : r[i] = t[i]
      /\ \A x \in 1..Len(s) : r[1 + x] = s[x]
  BY Zenon, <1>2, <1>5 DEF Joined
<1>7. 1 \in 1..1 /\ 1 + Len(s) = Len(s) + 1 /\ \A x \in 1..Len(s) : 1 + x = x + 1
  OBVIOUS
<1>8. r[1] = a /\ \A x \in 1..Len(s) : r[x + 1] = s[x]
  BY Zenon, <1>2, <1>6, <1>7
<1>3. Pushed(S, t \o s, a, s)
  BY Zenon, <1>6, <1>7, <1>8 DEF Pushed, r
<1>4. QED
  BY Zenon, <1>3 DEF t

LEMMA Headed ==
    ASSUME NEW S, NEW P \in Seq(S), NEW i \in 1..Len(P)
    PROVE  /\ <<P[i]>> \o SubSeq(P, i + 1, Len(P)) = SubSeq(P, i, Len(P))
           /\ SubSeq(P, Len(P) + 1, Len(P)) = <<>> /\ SubSeq(P, 1, Len(P)) = P
<1> DEFINE n == Len(P)
           s == SubSeq(P, i + 1, n)
           t == SubSeq(P, i, n)
<1>1. n \in Nat /\ i \in 1..n /\ P[i] \in S
  OBVIOUS
<1> HIDE DEF n
<1>2. /\ s \in Seq(S) /\ Len(s) = n - i /\ \A x \in 1..(n - i) : s[x] = P[i + x]
  BY <1>1 DEF n
<1>3. /\ t \in Seq(S) /\ Len(t) = n - i + 1 /\ \A x \in 1..(n - i + 1) : t[x] = P[i + x - 1]
  BY <1>1 DEF n
<1> HIDE DEF s, t
<1> DEFINE r == <<P[i]>> \o s
<1>4. r \in Seq(S) /\ Len(r) = n - i + 1 /\ r[1] = P[i] /\ \A x \in 1..(n - i) : r[x + 1] = s[x]
  <2>1. Pushed(S, r, P[i], s)
    BY Zenon, <1>1, <1>2, Pushes
  <2> HIDE DEF r
  <2>2. Len(s) + 1 = n - i + 1
    BY <1>1, <1>2
  <2>3. QED
    BY Zenon, <1>2, <2>1, <2>2 DEF Pushed
<1> HIDE DEF r
<1>5. ASSUME NEW x \in 1..(n - i + 1)
      PROVE  r[x] = t[x]
  <2>1. CASE x = 1
    <3>1. i + x - 1 = i
      BY <1>1, <2>1
    <3>2. QED
      BY Zenon, <1>3, <1>4, <2>1, <3>1
  <2>2. CASE x # 1
    <3>1. x - 1 \in 1..(n - i) /\ (x - 1) + 1 = x /\ i + (x - 1) = i + x - 1
      BY <1>1, <2>2
    <3>2. r[(x - 1) + 1] = s[x - 1] /\ s[x - 1] = P[i + (x - 1)] /\ t[x] = P[i + x - 1]
      BY Zenon, <1>2, <1>3, <1>4, <3>1
    <3>3. QED
      BY Zenon, <3>1, <3>2
  <2>3. QED
    BY Zenon, <2>1, <2>2
<1>6. r = t
  <2>1. Len(r) = Len(t) /\ Len(r) = n - i + 1
    BY Zenon, <1>3, <1>4
  <2>2. \A x \in 1..Len(r) : r[x] = t[x]
    BY Zenon, <1>5, <2>1
  <2>3. QED
    BY Zenon, <1>3, <1>4, <2>1, <2>2, SeqEqual
<1>7. SubSeq(P, Len(P) + 1, Len(P)) = <<>> /\ SubSeq(P, 1, Len(P)) = P
  OBVIOUS
<1>8. QED
  BY Zenon, <1>6, <1>7 DEF r, s, t, n

\* The parser gives back the pairs that the text was made of.
LEMMA WalkIs ==
    ASSUME NEW pairs \in Seq(Pairs), \A i \in 1..Len(pairs) : ~pairs[i].bare /\ Plain(pairs[i].name),
           NEW flag \in Flags, NEW trimmed \in BOOLEAN, NEW sep \in Seq(Codes),
           Len(sep) = 1 \/ (Len(sep) = 2 /\ trimmed /\ sep[2] = Space), sep[1] = flag,
           NEW f, IsParse(f, Query!Line(pairs, sep), flag, trimmed), pairs # <<>>
    PROVE  f[1] = Taken(pairs)
<1> DEFINE text == Query!Line(pairs, sep)
           n == Len(pairs)
           d == Len(sep)
           l == Len(text)
           P == Taken(pairs)
           Couples == Seq(Letters) \X Seq(Letters)
<1>1. text \in Seq(Codes) /\ \E ends : Laid(text, pairs, sep, ends, n)
  BY Zenon, LineIs
<1>2. PICK ends : Laid(text, pairs, sep, ends, n)
  BY Zenon, <1>1
<1> HIDE DEF text
<1>3. n \in Nat \ {0} /\ d \in {1, 2} /\ l \in Nat /\ \A i \in 1..n : pairs[i] \in Pairs
  BY <1>1
<1> HIDE DEF n, d, l
<1>4. /\ ends[n] = l /\ ends[1] = Width(pairs[1])
      /\ \A i \in 1..n : /\ ends[i] \in Nat /\ ends[i] - Width(pairs[i]) \in Nat /\ ends[i] <= l
                         /\ Placed(text, ends[i] - Width(pairs[i]), pairs[i])
      /\ \A i \in 1..(n - 1) : /\ ends[i + 1] = ends[i] + d + Width(pairs[i + 1])
                               /\ \A x \in 1..d : text[ends[i] + x] = sep[x]
  BY Zenon, <1>2 DEF Laid, l, d
<1>5. P \in Seq(Couples) /\ Len(P) = n /\ \A i \in 1..n : P[i] = <<pairs[i].name, pairs[i].value>>
  <2> DEFINE c(i) == <<pairs[i].name, pairs[i].value>>
  <2>1. ASSUME NEW i \in 1..n
        PROVE  c(i) \in Couples
    <3>1. pairs[i].name \in Seq(Letters) /\ pairs[i].value \in Seq(Letters)
      BY Zenon, <1>3, PairIs
    <3>2. QED
      BY <3>1
  <2>2. P = [i \in 1..n |-> c(i)]
    BY Zenon DEF Taken, n
  <2> HIDE DEF c, P, Couples
  <2>3. [i \in 1..n |-> c(i)] \in Seq(Couples) /\ Len([i \in 1..n |-> c(i)]) = n
    BY <1>3, <2>1
  <2>4. \A i \in 1..n : P[i] = c(i)
    BY Zenon, <2>2
  <2>5. QED
    BY Zenon, <2>2, <2>3, <2>4 DEF c
<1> HIDE DEF P, Couples
<1> DEFINE start(i) == IF i = 1 THEN 1 ELSE ends[i - 1] + 2
<1>6. ASSUME NEW i \in 1..n
      PROVE  f[start(i)] = <<P[i]>> \o IF i = n THEN <<>> ELSE f[start(i + 1)]
  <2> DEFINE p == pairs[i]
             w == Width(p)
             b == ends[i] - w
             stop == ends[i]
             from == start(i)
  <2>1. p \in Pairs /\ Plain(p.name) /\ w \in Nat
    BY Zenon, <1>3, PairIs DEF n
  <2>2. b \in Nat /\ stop \in Nat /\ stop <= l /\ Placed(text, b, p)
    BY Zenon, <1>4
  <2>3. stop = b + w
    <3> HIDE DEF w
    <3>1. QED
      BY <2>1, <2>2
  <2>4. from \in Nat \ {0} /\ (from = b + 1 \/ (from = b /\ trimmed /\ text[from] = Space))
    <3>1. CASE i = 1
      <4>1. from = 1 /\ stop = w
        BY Zenon, <1>4, <3>1
      <4> HIDE DEF from, stop, w
      <4>2. b = 0
        BY <2>1, <2>2, <2>3, <4>1
      <4> HIDE DEF b
      <4>3. QED
        BY <4>1, <4>2
    <3>2. CASE i # 1
      <4> DEFINE e == ends[i - 1]
      <4>1. i - 1 \in 1..(n - 1) /\ i - 1 \in 1..n /\ (i - 1) + 1 = i
        BY <1>3, <3>2
      <4>2. e \in Nat /\ stop = e + d + w /\ \A x \in 1..d : text[e + x] = sep[x]
        BY Zenon, <1>4, <4>1
      <4>3. from = e + 2
        BY Zenon, <3>2
      <4> HIDE DEF from, e, stop, w, b
      <4>4. b = e + d
        BY <1>3, <2>1, <2>2, <2>3, <4>2
      <4>5. from \in Nat \ {0}
        BY <4>2, <4>3
      <4>6. CASE d = 1
        BY <4>2, <4>3, <4>4, <4>5, <4>6
      <4>7. CASE d = 2
        <5>1. d # 1
          BY <4>7
        <5>2. trimmed /\ sep[2] = Space
          BY Zenon, <5>1 DEF d
        <5>3. 2 \in 1..d
          BY <4>7
        <5>4. text[e + 2] = Space
          BY Zenon, <4>2, <5>2, <5>3
        <5>5. from = b /\ text[from] = Space
          BY Zenon, <4>3, <4>4, <4>7, <5>4
        <5>6. QED
          BY Zenon, <4>5, <5>2, <5>5
      <4>8. QED
        BY <1>3, <4>6, <4>7
    <3>3. QED
      BY Zenon, <3>1, <3>2
  <2>5. i # n => stop < l /\ text[stop + 1] = flag
    <3>1. SUFFICES ASSUME i # n PROVE stop < l /\ text[stop + 1] = flag
      OBVIOUS
    <3>2. i \in 1..(n - 1) /\ i + 1 \in 1..n /\ 1 \in 1..d
      BY <1>3, <3>1
    <3> DEFINE v == Width(pairs[i + 1])
               x == ends[i + 1]
    <3>3. v \in Nat /\ x <= l /\ x \in Nat /\ x = stop + d + v
      BY Zenon, <1>3, <1>4, <3>2, PairIs
    <3>4. text[stop + 1] = sep[1]
      BY Zenon, <1>4, <3>2
    <3> HIDE DEF v, x, stop
    <3>5. stop < l
      BY <1>3, <2>2, <3>3
    <3>6. QED
      BY Zenon, <3>4, <3>5
  <2>6. i = n => stop = l
    BY Zenon, <1>4
  <2> DEFINE end == End(text, from, flag)
  <2> HIDE DEF from, stop, b, p
  <2>7. (stop = l) <=> i = n
    <3>1. CASE i = n
      BY Zenon, <2>6, <3>1
    <3>2. CASE i # n
      <4>1. stop < l
        BY Zenon, <2>5, <3>2
      <4>2. stop # l
        BY <1>3, <2>2, <4>1
      <4>3. QED
        BY Zenon, <3>2, <4>2
    <3>3. QED
      BY Zenon, <3>1, <3>2
  <2>8. stop = l \/ (stop < l /\ text[stop + 1] = flag)
    BY Zenon, <2>5, <2>6
  <2>9. /\ Key(text, from) # 0
        /\ end = IF stop = l THEN 0 ELSE stop + 1
        /\ NameOf(text, from, trimmed) = p.name
        /\ ValueOf(text, from, flag) = p.value
    <3>1. Takes(text, p, from, flag, trimmed, stop)
      BY Zenon, <1>1, <2>1, <2>2, <2>3, <2>4, <2>8, PairTaken DEF l, w
    <3>2. QED
      BY Zenon, <3>1 DEF Takes, l
  <2>10. <<NameOf(text, from, trimmed), ValueOf(text, from, flag)>> = P[i]
    BY Zenon, <1>5, <2>9 DEF p
  <2>11. f[from] = <<P[i]>> \o IF end = 0 THEN <<>> ELSE f[end + 1]
    <3> DEFINE g == [pos \in Nat |->
                      IF Key(text, pos) = 0 THEN <<>>
                      ELSE <<<<NameOf(text, pos, trimmed), ValueOf(text, pos, flag)>>>>
                           \o IF End(text, pos, flag) = 0 THEN <<>> ELSE f[End(text, pos, flag) + 1]]
    <3>1. f = g
      BY Zenon DEF IsParse, text
    <3>2. from \in Nat
      BY <2>4
    <3>3. g[from] = <<P[i]>> \o IF end = 0 THEN <<>> ELSE f[end + 1]
      BY Zenon, <2>9, <2>10, <3>2
    <3> HIDE DEF g
    <3>4. QED
      BY Zenon, <3>1, <3>3
  <2> HIDE DEF end
  <2>12. CASE i = n
    <3>1. end = 0
      BY Zenon, <2>7, <2>9, <2>12
    <3>2. QED
      BY Zenon, <2>11, <2>12, <3>1 DEF from
  <2>13. CASE i # n
    <3>1. end = stop + 1
      BY Zenon, <2>7, <2>9, <2>13
    <3>2. end # 0 /\ end + 1 = stop + 2 /\ i + 1 # 1 /\ (i + 1) - 1 = i
      BY <1>3, <2>2, <3>1
    <3>3. start(i + 1) = stop + 2
      BY Zenon, <3>2 DEF stop
    <3>4. f[from] = <<P[i]>> \o f[start(i + 1)]
      BY Zenon, <2>11, <3>2, <3>3
    <3>5. QED
      BY Zenon, <2>13, <3>4 DEF from
  <2>14. QED
    BY Zenon, <2>12, <2>13
<1>7. start(1) = 1
  BY Zenon
<1> HIDE DEF start
<1> DEFINE T == {j \in Nat : j < n => f[start(n - j)] = SubSeq(P, n - j, n)}
<1>8. 0 \in T
  <2>1. n \in 1..n /\ n - 0 = n /\ 0 \in Nat
    BY <1>3
  <2>2. f[start(n)] = <<P[n]>> \o <<>>
    BY Zenon, <1>6, <2>1
  <2>3. <<P[n]>> \o SubSeq(P, n + 1, n) = SubSeq(P, n, n) /\ SubSeq(P, n + 1, n) = <<>>
    BY Zenon, <1>5, <2>1, Headed
  <2>4. f[start(n)] = SubSeq(P, n, n)
    BY Zenon, <2>2, <2>3
  <2>5. QED
    BY Zenon, <2>1, <2>4
<1>9. ASSUME NEW j \in Nat, j \in T
      PROVE  j + 1 \in T
  <2>1. SUFFICES ASSUME j + 1 < n PROVE f[start(n - (j + 1))] = SubSeq(P, n - (j + 1), n)
    OBVIOUS
  <2> DEFINE i == n - (j + 1)
  <2>2. i \in 1..n /\ i # n /\ i + 1 = n - j /\ j < n
    BY <1>3, <2>1
  <2>3. f[start(i + 1)] = SubSeq(P, i + 1, n)
    BY Zenon, <1>9, <2>2
  <2> HIDE DEF i
  <2>4. f[start(i)] = <<P[i]>> \o SubSeq(P, i + 1, n)
    BY Zenon, <1>6, <2>2, <2>3
  <2>5. <<P[i]>> \o SubSeq(P, i + 1, n) = SubSeq(P, i, n)
    BY Zenon, <1>5, <2>2, Headed
  <2>6. QED
    BY Zenon, <2>4, <2>5 DEF i
<1>10. Nat \subseteq T
  <2> HIDE DEF T
  <2>1. QED
    BY <1>8, <1>9, SetInduction
<1>11. n - 1 \in Nat /\ n - 1 < n /\ n - (n - 1) = 1 /\ 1 \in 1..n
  BY <1>3
<1>12. f[start(1)] = SubSeq(P, 1, n)
  <2>1. n - 1 \in T
    BY Zenon, <1>10, <1>11
  <2>2. QED
    BY Zenon, <1>11, <2>1
<1>13. SubSeq(P, 1, n) = P
  BY Zenon, <1>5, <1>11, Headed
<1>14. QED
  BY Zenon, <1>7, <1>12, <1>13 DEF P

LEMMA EmptyLine ==
    ASSUME NEW pairs, pairs = <<>>, NEW sep
    PROVE  Query!Line(pairs, sep) = <<>>
<1> DEFINE part(i) == (IF i = 1 THEN <<>> ELSE sep) \o Query!Written(pairs[i])
           F == [i \in 1..0 |-> part(i)]
<1>1. DOMAIN pairs = 1..0
  OBVIOUS
<1>2. Query!Line(pairs, sep) = Query!FlattenSeq(F)
  BY Zenon, <1>1 DEF Query!Line
<1>3. F = <<>> /\ Len(F) = 0
  <2> HIDE DEF part
  <2>1. QED
    OBVIOUS
<1> HIDE DEF F
<1>4. QED
  BY Zenon, <1>2, <1>3 DEF Query!FlattenSeq

LEMMA ParsedAs ==
    ASSUME NEW pairs \in Seq(Pairs), Query!Separable(pairs),
           NEW char, Query!Plain(char) \in Flags, NEW trimmed \in BOOLEAN, NEW sep \in Seq(Codes),
           Len(sep) = 1 \/ (Len(sep) = 2 /\ trimmed /\ sep[2] = Space), sep[1] = Query!Plain(char)
    PROVE  Query!Parsed(Query!Line(pairs, sep), char, trimmed) = Taken(pairs)
<1> DEFINE text == Query!Line(pairs, sep)
           flag == Query!Plain(char)
           f == CHOOSE g : IsParse(g, text, flag, trimmed)
<1>1. DOMAIN pairs = 1..Len(pairs)
  OBVIOUS
<1>2. \A i \in 1..Len(pairs) : ~pairs[i].bare /\ Plain(pairs[i].name)
  BY Zenon, <1>1 DEF Query!Separable, Plain
<1>3. Query!Parsed(text, char, trimmed) = f[1]
  BY Zenon, ParsedBy
<1>4. text \in Seq(Codes)
  <2>1. CASE pairs = <<>>
    <3>1. text = <<>>
      BY Zenon, <2>1, EmptyLine
    <3>2. <<>> \in Seq(Codes)
      OBVIOUS
    <3>3. QED
      BY Zenon, <3>1, <3>2
  <2>2. CASE pairs # <<>>
    BY Zenon, <1>2, <2>2, LineIs
  <2>3. QED
    BY Zenon, <2>1, <2>2
<1>5. IsParse(f, text, flag, trimmed)
  <2>1. \E g : IsParse(g, text, flag, trimmed)
    <3> HIDE DEF text, flag
    <3>1. QED
      BY Zenon, <1>4, ParseExists
  <2> HIDE DEF text, flag
  <2>2. QED
    BY Zenon, <2>1
<1> HIDE DEF f
<1>6. CASE pairs = <<>>
  <2>1. text = <<>>
    BY Zenon, <1>6, EmptyLine
  <2> HIDE DEF text, flag
  <2>2. 1..Len(text) = {} /\ 1 \in Nat /\ Len(text) \in Nat
    BY <2>1
  <2>3. Key(text, 1) = 0
    BY Zenon, <2>2, NotFound DEF Key
  <2>4. f[1] = <<>>
    BY Zenon, <1>5, <2>2, <2>3 DEF IsParse
  <2>5. Taken(pairs) = <<>>
    BY <1>6 DEF Taken
  <2>6. QED
    BY Zenon, <1>3, <2>4, <2>5 DEF text
<1>7. CASE pairs # <<>>
  <2>1. f[1] = Taken(pairs)
    BY Zenon, <1>2, <1>5, <1>7, WalkIs
  <2>2. QED
    BY Zenon, <1>3, <2>1
<1>8. QED
  BY Zenon, <1>6, <1>7

LEMMA ParsedIs ==
    ASSUME NEW pairs \in Seq(Pairs), Query!Separable(pairs)
    PROVE  /\ Query!Parsed(Query!Line(pairs, <<Query!Plain("&")>>), "&", FALSE) = Taken(pairs)
           /\ Query!Parsed(Query!Line(pairs, <<Query!Plain(";"), Query!Plain(" ")>>), ";", TRUE)
                = Taken(pairs)
<1>1. /\ Query!Plain("&") \in Flags /\ Query!Plain(";") \in Flags /\ Query!Plain("&") \in Codes
      /\ Query!Plain(";") \in Codes /\ Query!Plain(" ") \in Codes /\ Space = Query!Plain(" ")
  BY Zenon, PlainIs DEF Flags, Space
<1> DEFINE amp == Query!Plain("&")
           semi == Query!Plain(";")
           sp == Query!Plain(" ")
           one == <<amp>>
           two == <<semi, sp>>
<1>2. amp \in Codes /\ semi \in Codes /\ sp \in Codes
  BY Zenon, <1>1
<1> HIDE DEF amp, semi, sp
<1>3. /\ one \in Seq(Codes) /\ Len(one) = 1 /\ one[1] = amp
      /\ two \in Seq(Codes) /\ Len(two) = 2 /\ two[1] = semi /\ two[2] = sp
  BY <1>2
<1> HIDE DEF one, two
<1>4. TRUE \in BOOLEAN /\ FALSE \in BOOLEAN
  OBVIOUS
<1>5. Query!Parsed(Query!Line(pairs, one), "&", FALSE) = Taken(pairs)
  BY Zenon, <1>1, <1>3, <1>4, ParsedAs DEF amp
<1>6. Query!Parsed(Query!Line(pairs, two), ";", TRUE) = Taken(pairs)
  BY Zenon, <1>1, <1>3, <1>4, ParsedAs DEF semi, sp
<1>7. QED
  BY Zenon, <1>5, <1>6 DEF one, two, amp, semi, sp

-----------------------------------------------------------------------------
(* What a text adds to the map.                                            *)

Dids == [what : {"nothing", "set", "deleted", "deleted early"}, value : Values \cup {Query!Absent}]

\* The map has what the servlet did to a name, and, when the texts have been
\* parsed, what the client sent for the others.
Held(map, n, did, parsed, sent) ==
    /\ parsed /\ Query!Separable(sent) =>
         Lookup(map, n) = IF did.what \in {"set", "deleted"} THEN did.value ELSE Query!FirstOf(sent, n)
    /\ ~parsed => /\ n \in DOMAIN map <=> did.what = "set"
                  /\ did.what = "set" => map[n] = did.value
                  /\ did.what # "deleted"

LEMMA FirstAt ==
    ASSUME NEW pairs \in Seq(Pairs), NEW n, NEW i \in 1..Len(pairs), Query!Folded(pairs[i].name) = n,
           \A j \in 1..(i - 1) : Query!Folded(pairs[j].name) # n
    PROVE  Query!FirstOf(pairs, n) = pairs[i].value
<1>1. Named(pairs, n)
  BY Zenon DEF Named
<1>6. PICK k : IsFirst(pairs, n, k)
  BY Zenon, <1>1, FirstFound
<1>2. /\ k \in 1..Len(pairs) /\ Query!Folded(pairs[k].name) = n /\ \A j \in 1..(k - 1) : Query!Folded(pairs[j].name) # n
      /\ Query!FirstOf(pairs, n) = pairs[k].value
  BY Zenon, <1>6 DEF IsFirst
<1>3. k \in 1..(i - 1) \/ k = i \/ i \in 1..(k - 1)
  BY <1>2
<1>4. k = i
  BY Zenon, <1>2, <1>3
<1>5. QED
  BY Zenon, <1>2, <1>4

LEMMA FirstOfBoth ==
    ASSUME NEW s \in Seq(Pairs), NEW t \in Seq(Pairs), NEW n
    PROVE  Query!FirstOf(s \o t, n) = IF Named(s, n) THEN Query!FirstOf(s, n) ELSE Query!FirstOf(t, n)
<1> DEFINE w == s \o t
           m == Len(s)
<1>1. Joined(Pairs, w, s, t)
  BY Zenon, Joins
<1> HIDE DEF w
<1>2. /\ w \in Seq(Pairs) /\ Len(w) = m + Len(t) /\ (\A i \in 1..m : w[i] = s[i])
      /\ \A i \in 1..Len(t) : w[m + i] = t[i]
  BY Zenon, <1>1 DEF Joined
<1>3. m \in Nat /\ Len(t) \in Nat
  OBVIOUS
<1> HIDE DEF m
<1>4. CASE Named(s, n)
  <2>6. PICK i : IsFirst(s, n, i)
    BY Zenon, <1>4, FirstFound
  <2>1. /\ i \in 1..m /\ Query!Folded(s[i].name) = n /\ \A j \in 1..(i - 1) : Query!Folded(s[j].name) # n
        /\ Query!FirstOf(s, n) = s[i].value
    BY Zenon, <2>6 DEF IsFirst, m
  <2>2. i \in 1..Len(w) /\ \A j \in 1..(i - 1) : j \in 1..m
    BY <1>2, <1>3, <2>1
  <2>3. Query!Folded(w[i].name) = n /\ (\A j \in 1..(i - 1) : Query!Folded(w[j].name) # n) /\ w[i] = s[i]
    BY Zenon, <1>2, <2>1, <2>2
  <2>4. Query!FirstOf(w, n) = w[i].value
    BY Zenon, <1>2, <2>2, <2>3, FirstAt
  <2>5. QED
    BY Zenon, <1>4, <2>1, <2>3, <2>4 DEF w
<1>5. CASE ~Named(s, n)
  <2>1. \A j \in 1..m : Query!Folded(s[j].name) # n
    BY Zenon, <1>5 DEF Named, m
  <2>2. CASE Named(t, n)
    <3>8. PICK i : IsFirst(t, n, i)
      BY Zenon, <2>2, FirstFound
    <3>1. /\ i \in 1..Len(t) /\ Query!Folded(t[i].name) = n /\ \A j \in 1..(i - 1) : Query!Folded(t[j].name) # n
          /\ Query!FirstOf(t, n) = t[i].value
      BY Zenon, <3>8 DEF IsFirst
    <3>2. m + i \in 1..Len(w)
      BY <1>2, <1>3, <3>1
    <3>3. ASSUME NEW j \in 1..(m + i - 1)
          PROVE  Query!Folded(w[j].name) # n
      <4>1. CASE j \in 1..m
        BY Zenon, <1>2, <2>1, <4>1
      <4>2. CASE j \notin 1..m
        <5>1. j - m \in 1..(i - 1) /\ j - m \in 1..Len(t) /\ m + (j - m) = j
          BY <1>3, <3>1, <4>2
        <5>2. w[m + (j - m)] = t[j - m] /\ Query!Folded(t[j - m].name) # n
          BY Zenon, <1>2, <3>1, <5>1
        <5>3. QED
          BY Zenon, <5>1, <5>2
      <4>3. QED
        BY Zenon, <4>1, <4>2
    <3>4. w[m + i] = t[i]
      BY Zenon, <1>2, <3>1
    <3> DEFINE k == m + i
    <3>5. k \in 1..Len(w) /\ Query!Folded(w[k].name) = n
      BY Zenon, <3>1, <3>2, <3>4
    <3>9. \A j \in 1..(k - 1) : Query!Folded(w[j].name) # n
      <4>1. k - 1 = m + i - 1
        BY <1>3, <3>1
      <4>2. QED
        BY Zenon, <3>3, <4>1
    <3> HIDE DEF k
    <3>6. Query!FirstOf(w, n) = w[k].value
      BY Zenon, <1>2, <3>5, <3>9, FirstAt
    <3>7. QED
      BY Zenon, <1>5, <3>1, <3>4, <3>6 DEF w, k
  <2>3. CASE ~Named(t, n)
    <3>1. \A j \in 1..Len(t) : Query!Folded(t[j].name) # n
      BY Zenon, <2>3 DEF Named
    <3>2. ASSUME NEW j \in 1..Len(w)
          PROVE  Query!Folded(w[j].name) # n
      <4>1. CASE j \in 1..m
        BY Zenon, <1>2, <2>1, <4>1
      <4>2. CASE j \notin 1..m
        <5>1. j - m \in 1..Len(t) /\ m + (j - m) = j
          BY <1>2, <1>3, <4>2
        <5>2. w[m + (j - m)] = t[j - m] /\ Query!Folded(t[j - m].name) # n
          BY Zenon, <1>2, <3>1, <5>1
        <5>3. QED
          BY Zenon, <5>1, <5>2
      <4>3. QED
        BY Zenon, <4>1, <4>2
    <3>3. ~Named(w, n)
      BY Zenon, <3>2 DEF Named
    <3>4. Query!FirstOf(w, n) = Query!Absent /\ Query!FirstOf(t, n) = Query!Absent
      BY Zenon, <1>2, <2>3, <3>3, FirstOfIs
    <3>5. QED
      BY Zenon, <1>5, <3>4 DEF w
  <2>4. QED
    BY Zenon, <2>2, <2>3
<1>6. QED
  BY Zenon, <1>4, <1>5

LEMMA SeparableBoth ==
    ASSUME NEW s \in Seq(Pairs), NEW t \in Seq(Pairs), Query!Separable(s \o t)
    PROVE  Query!Separable(s) /\ Query!Separable(t)
<1> DEFINE w == s \o t
           fine(p) == ~p.bare /\ "=" \notin {p.name[j] : j \in DOMAIN p.name}
<1>1. Joined(Pairs, w, s, t)
  BY Zenon, Joins
<1>2. \A i \in DOMAIN w : fine(w[i])
  BY Zenon DEF Query!Separable
<1> HIDE DEF w, fine
<1>3. /\ w \in Seq(Pairs) /\ Len(w) = Len(s) + Len(t) /\ (\A i \in 1..Len(s) : w[i] = s[i])
      /\ \A i \in 1..Len(t) : w[Len(s) + i] = t[i]
  BY Zenon, <1>1 DEF Joined
<1>4. /\ DOMAIN w = 1..(Len(s) + Len(t)) /\ DOMAIN s = 1..Len(s) /\ DOMAIN t = 1..Len(t)
      /\ Len(s) \in Nat /\ Len(t) \in Nat
  BY <1>3
<1> DEFINE m == Len(s)
           k == Len(t)
<1>5. (\A i \in 1..m : i \in 1..(m + k)) /\ \A i \in 1..k : m + i \in 1..(m + k)
  <2> HIDE DEF m, k
  <2>1. m \in Nat /\ k \in Nat
    BY Zenon, <1>4 DEF m, k
  <2>2. QED
    BY <2>1
<1>6. \A i \in 1..m : fine(s[i])
  BY Zenon, <1>2, <1>3, <1>4, <1>5
<1>7. \A i \in 1..k : fine(t[i])
  BY Zenon, <1>2, <1>3, <1>4, <1>5
<1>8. QED
  BY Zenon, <1>4, <1>6, <1>7 DEF Query!Separable, fine

\* One text, and a second one after it.
LEMMA TextHeld ==
    ASSUME NEW map, NEW n, NEW did, NEW s \in Seq(Pairs), Held(map, n, did, FALSE, s),
           NEW parsed, Query!Separable(s) => parsed = Taken(s)
    PROVE  Held(Query!Insert(map, parsed), n, did, TRUE, s)
<1> DEFINE new == Query!Insert(map, parsed)
<1>1. SUFFICES ASSUME Query!Separable(s)
               PROVE  Lookup(new, n) = IF did.what \in {"set", "deleted"} THEN did.value
                                       ELSE Query!FirstOf(s, n)
  BY Zenon DEF Held
<1>2. /\ n \in DOMAIN new <=> n \in DOMAIN map \/ Named(s, n)
      /\ n \in DOMAIN map => new[n] = map[n]
      /\ n \notin DOMAIN map => Lookup(new, n) = Query!FirstOf(s, n)
  <2>1. Inserted(Query!Insert(map, Taken(s)), map, s, n)
    BY Zenon, TakenInserted
  <2>2. Inserted(new, map, s, n)
    BY Zenon, <1>1, <2>1
  <2> HIDE DEF new
  <2>3. QED
    BY Zenon, <2>2 DEF Inserted
<1> HIDE DEF new
<1>3. /\ n \in DOMAIN map <=> did.what = "set"
      /\ did.what = "set" => map[n] = did.value
      /\ did.what # "deleted"
  BY Zenon DEF Held
<1>4. CASE did.what = "set"
  BY Zenon, <1>2, <1>3, <1>4 DEF Lookup
<1>5. CASE did.what # "set"
  BY Zenon, <1>2, <1>3, <1>5
<1>6. QED
  BY Zenon, <1>4, <1>5

LEMMA TextsHeld ==
    ASSUME NEW map, NEW n, NEW did, NEW s \in Seq(Pairs), NEW t \in Seq(Pairs),
           Held(map, n, did, FALSE, s \o t),
           NEW first, Query!Separable(s) => first = Taken(s),
           NEW second, Query!Separable(t) => second = Taken(t)
    PROVE  Held(Query!Insert(Query!Insert(map, first), second), n, did, TRUE, s \o t)
<1> DEFINE mid == Query!Insert(map, first)
           new == Query!Insert(mid, second)
<1>1. SUFFICES ASSUME Query!Separable(s \o t)
               PROVE  Lookup(new, n) = IF did.what \in {"set", "deleted"} THEN did.value
                                       ELSE Query!FirstOf(s \o t, n)
  BY Zenon DEF Held
<1>7. Query!Separable(s) /\ Query!Separable(t)
  BY Zenon, <1>1, SeparableBoth
<1>2. /\ n \in DOMAIN mid <=> n \in DOMAIN map \/ Named(s, n)
      /\ n \in DOMAIN map => mid[n] = map[n]
      /\ n \notin DOMAIN map => Lookup(mid, n) = Query!FirstOf(s, n)
  <2>1. Inserted(Query!Insert(map, Taken(s)), map, s, n)
    BY Zenon, TakenInserted
  <2>2. Inserted(mid, map, s, n)
    BY Zenon, <1>7, <2>1
  <2> HIDE DEF mid
  <2>3. QED
    BY Zenon, <2>2 DEF Inserted
<1> HIDE DEF mid
<1>8. /\ n \in DOMAIN new <=> n \in DOMAIN mid \/ Named(t, n)
      /\ n \in DOMAIN mid => new[n] = mid[n]
      /\ n \notin DOMAIN mid => Lookup(new, n) = Query!FirstOf(t, n)
  <2>1. Inserted(Query!Insert(mid, Taken(t)), mid, t, n)
    BY Zenon, TakenInserted
  <2>2. Inserted(new, mid, t, n)
    BY Zenon, <1>7, <2>1
  <2> HIDE DEF new
  <2>3. QED
    BY Zenon, <2>2 DEF Inserted
<1> HIDE DEF new
<1>3. /\ n \in DOMAIN map <=> did.what = "set"
      /\ did.what = "set" => map[n] = did.value
      /\ did.what # "deleted"
  BY Zenon DEF Held
<1>4. CASE did.what = "set"
  BY Zenon, <1>2, <1>3, <1>4, <1>8 DEF Lookup
<1>5. CASE did.what # "set"
  <2>1. Lookup(new, n) = Query!FirstOf(s \o t, n)
    <3>1. CASE Named(s, n)
      BY Zenon, <1>2, <1>3, <1>5, <1>8, <3>1, FirstOfBoth DEF Lookup
    <3>2. CASE ~Named(s, n)
      BY Zenon, <1>2, <1>3, <1>5, <1>8, <3>2, FirstOfBoth
    <3>3. QED
      BY Zenon, <3>1, <3>2
  <2>2. QED
    BY Zenon, <1>3, <1>5, <2>1
<1>6. QED
  BY Zenon, <1>4, <1>5

\* The servlet sets a name.
LEMMA PutHeld ==
    ASSUME NEW map, NEW n, NEW v, NEW x, NEW old, NEW parsed, NEW sent,
           Held(map, x, old, parsed, sent)
    PROVE  Held(Query!Put(map, n, v), x, IF x = n THEN [what |-> "set", value |-> v] ELSE old,
                parsed, sent)
<1> DEFINE new == Query!Put(map, n, v)
           set == [what |-> "set", value |-> v]
           here == DOMAIN map
<1>1. DOMAIN new = here \cup {n} /\ new[n] = v
  BY DEF Query!Put
<1>2. x \in here /\ x # n => new[x] = map[x]
  BY DEF Query!Put
<1> HIDE DEF new
<1>3. set.what = "set" /\ set.value = v
  OBVIOUS
<1> HIDE DEF set
<1>4. CASE x = n
  <2>1. x \in DOMAIN new /\ new[x] = v
    BY Zenon, <1>1, <1>4
  <2>2. Lookup(new, x) = v
    BY Zenon, <2>1 DEF Lookup
  <2>3. set.what \in {"set", "deleted"} /\ set.what # "deleted"
    BY Zenon, <1>3
  <2>4. Held(new, x, set, parsed, sent)
    BY Zenon, <1>3, <2>1, <2>2, <2>3 DEF Held
  <2>5. QED
    BY Zenon, <1>4, <2>4 DEF new, set
<1>5. CASE x # n
  <2>1. x \in DOMAIN new <=> x \in DOMAIN map
    BY Zenon, <1>1, <1>5
  <2>2. x \in DOMAIN map => new[x] = map[x]
    BY Zenon, <1>2, <1>5
  <2>3. Lookup(new, x) = Lookup(map, x)
    BY Zenon, <2>1, <2>2 DEF Lookup
  <2>4. Held(new, x, old, parsed, sent)
    BY Zenon, <2>1, <2>2, <2>3 DEF Held
  <2>5. QED
    BY Zenon, <1>5, <2>4 DEF new
<1>6. QED
  BY Zenon, <1>4, <1>5

\* The servlet deletes a name.
LEMMA WithoutHeld ==
    ASSUME NEW map, NEW n, NEW x, NEW old, NEW parsed \in BOOLEAN, NEW sent,
           Held(map, x, old, parsed, sent),
           NEW what, what = IF parsed THEN "deleted" ELSE "deleted early"
    PROVE  Held(Query!Without(map, n), x,
                IF x = n THEN [what |-> what, value |-> Query!Absent] ELSE old, parsed, sent)
<1> DEFINE new == Query!Without(map, n)
           none == Query!Absent
           del == [what |-> what, value |-> none]
           here == DOMAIN map
<1>1. DOMAIN new = here \ {n}
  BY DEF Query!Without
<1>2. x \in here /\ x # n => new[x] = map[x]
  BY DEF Query!Without
<1> HIDE DEF new, none
<1>3. del.what = what /\ del.value = none
  OBVIOUS
<1> HIDE DEF del
<1>4. CASE x = n
  <2>1. x \notin DOMAIN new
    BY Zenon, <1>1, <1>4
  <2>2. Lookup(new, x) = none
    BY Zenon, <2>1 DEF Lookup, none
  <2>3. CASE parsed
    <3>1. del.what = "deleted"
      BY Zenon, <1>3, <2>3
    <3>2. Held(new, x, del, parsed, sent)
      BY Zenon, <1>3, <2>2, <2>3, <3>1 DEF Held
    <3>3. QED
      BY Zenon, <1>4, <3>2 DEF new, del, none
  <2>4. CASE ~parsed
    <3>1. del.what = "deleted early"
      BY Zenon, <1>3, <2>4
    <3>2. del.what # "set" /\ del.what # "deleted"
      BY Zenon, <3>1
    <3>3. Held(new, x, del, parsed, sent)
      BY Zenon, <2>1, <2>4, <3>2 DEF Held
    <3>4. QED
      BY Zenon, <1>4, <3>3 DEF new, del, none
  <2>5. QED
    BY Zenon, <2>3, <2>4
<1>5. CASE x # n
  <2>1. x \in DOMAIN new <=> x \in DOMAIN map
    BY Zenon, <1>1, <1>5
  <2>2. x \in DOMAIN map => new[x] = map[x]
    BY Zenon, <1>2, <1>5
  <2>3. Lookup(new, x) = Lookup(map, x)
    BY Zenon, <2>1, <2>2 DEF Lookup
  <2>4. Held(new, x, old, parsed, sent)
    BY Zenon, <2>1, <2>2, <2>3 DEF Held
  <2>5. QED
    BY Zenon, <1>5, <2>4 DEF new
<1>6. QED
  BY Zenon, <1>4, <1>5

-----------------------------------------------------------------------------
(* The inductive invariant.                                                *)

Owns == {"param", "cookie"}

SentTypes ==
    /\ query \in Seq(Pairs) /\ form \in Seq(Pairs) /\ cookie \in Seq(Pairs)
    /\ isForm \in BOOLEAN

\* The query and the body are parsed together.
Together == "query" \in m_parserParamFlag <=> "body" \in m_parserParamFlag

ParamsHeld ==
    \A n \in Query!Keys : Held(m_params, n, own["param"][n], "query" \in m_parserParamFlag,
                          Query!Sent("param"))
CookiesHeld ==
    \A n \in Query!Keys : Held(m_cookies, n, own["cookie"][n], "cookie" \in m_parserParamFlag,
                          Query!Sent("cookie"))

QueryInv ==
    /\ SentTypes /\ Query!TypeOK /\ Together
    /\ ParamsHeld /\ CookiesHeld /\ Query!ParamsAsSent

LEMMA SentIs ==
    /\ Query!Sent("cookie") = cookie
    /\ Query!Sent("param") = query \o IF isForm THEN form ELSE <<>>
BY Zenon DEF Query!Sent

LEMMA SentKept ==
    ASSUME UNCHANGED <<query, form, cookie, isForm>>, NEW of
    PROVE  Query!Sent(of)' = Query!Sent(of)
BY DEF Query!Sent

Noted(new, o, of, n, d) ==
    /\ new \in [Owns -> [Query!Keys -> Dids]]
    /\ \A a \in Owns, x \in Query!Keys : new[a][x] = IF a = of /\ x = n THEN d ELSE o[a][x]

LEMMA OwnIs ==
    ASSUME NEW o \in [Owns -> [Query!Keys -> Dids]], NEW of \in Owns, NEW n \in Query!Keys, NEW d \in Dids
    PROVE  Noted([o EXCEPT ![of][n] = d], o, of, n, d)
BY DEF Noted

LEMMA QueryStart ==
    ASSUME Lines, Query!Init
    PROVE  QueryInv
<1>1. /\ query \in Seq(Pairs) /\ form \in Seq(Pairs) /\ cookie \in Seq(Pairs) /\ isForm \in BOOLEAN
      /\ m_parserParamFlag = {} /\ m_params = [n \in {} |-> Query!Absent] /\ m_cookies = m_params
      /\ own = [of \in Owns |-> [n \in Query!Keys |-> Query!Untouched]]
      /\ last = Query!NoAnswer /\ ops = 0 /\ MaxOps \in Nat
  BY DEF Lines, Query!Init, Owns
<1>2. DOMAIN m_params = {} /\ DOMAIN m_cookies = {}
  BY Zenon, <1>1
<1> DEFINE u == Query!Untouched
           none == Query!Absent
<1>3. u.what = "nothing" /\ u.value = none /\ u \in Dids
  <2> DEFINE t == [what |-> "nothing", value |-> none]
  <2>1. u = t
    BY Zenon DEF Query!Untouched
  <2> HIDE DEF u, none
  <2>2. t.what = "nothing" /\ t.value = none
    OBVIOUS
  <2>3. t \in [what : {"nothing", "set", "deleted", "deleted early"}, value : Values \cup {none}]
    OBVIOUS
  <2>4. QED
    BY Zenon, <2>1, <2>2, <2>3 DEF Dids, none
<1>4. u.what # "set" /\ u.what # "deleted"
  BY Zenon, <1>3
<1> HIDE DEF u, none
<1>5. \A of \in Owns, n \in Query!Keys : own[of][n] = u
  BY Zenon, <1>1 DEF u
<1>6. "param" \in Owns /\ "cookie" \in Owns
  BY Zenon DEF Owns
<1>7. ParamsHeld
  BY Zenon, <1>1, <1>2, <1>4, <1>5, <1>6 DEF ParamsHeld, Held
<1>8. CookiesHeld
  BY Zenon, <1>1, <1>2, <1>4, <1>5, <1>6 DEF CookiesHeld, Held
<1>9. last.of = "none"
  BY <1>1 DEF Query!NoAnswer
<1>10. Query!ParamsAsSent
  BY Zenon, <1>9 DEF Query!ParamsAsSent
<1>11. Query!TypeOK
  <2>1. own \in [Owns -> [Query!Keys -> Dids]]
    BY <1>1, <1>3 DEF u
  <2>2. ops \in 0..MaxOps
    BY <1>1
  <2>3. m_parserParamFlag \subseteq {"query", "body", "cookie"}
    BY Zenon, <1>1
  <2>4. QED
    BY Zenon, <1>9, <2>1, <2>2, <2>3 DEF Query!TypeOK, Owns, Dids
<1>12. SentTypes /\ Together
  BY Zenon, <1>1 DEF SentTypes, Together
<1>13. QED
  BY Zenon, <1>7, <1>8, <1>10, <1>11, <1>12 DEF QueryInv

-----------------------------------------------------------------------------
(* The answers.                                                            *)

Right(asked, did, sent) ==
    asked.of # "none" /\ Query!Separable(sent) =>
        asked.value = IF did.what \in {"set", "deleted"} THEN did.value
                                                       ELSE Query!FirstOf(sent, asked.name)

LEMMA RightIs ==
    /\ Query!ParamsAsSent <=> Right(last, own[last.of][last.name], Query!Sent(last.of))
    /\ Query!ParamsAsSent' <=> Right(last', own'[last'.of][last'.name],
                                     IF last'.of = "cookie" THEN cookie'
                                     ELSE query' \o IF isForm' THEN form' ELSE <<>>)
<1>1. Query!ParamsAsSent <=> Right(last, own[last.of][last.name], Query!Sent(last.of))
  BY Zenon DEF Query!ParamsAsSent, Right
<1>2. Query!ParamsAsSent' <=> Right(last', own'[last'.of][last'.name],
                                     IF last'.of = "cookie" THEN cookie'
                                     ELSE query' \o IF isForm' THEN form' ELSE <<>>)
  BY Zenon DEF Query!ParamsAsSent, Right, Query!Sent
<1>3. QED
  BY Zenon, <1>1, <1>2

LEMMA Asked ==
    ASSUME NEW of \in Owns, NEW n \in Query!Keys, NEW new,
           UNCHANGED <<query, form, cookie, isForm>>,
           own' = own,
           last' = [of |-> of, name |-> n, value |-> IF n \in DOMAIN new THEN new[n] ELSE Query!Absent],
           Held(new, n, own[of][n], TRUE, Query!Sent(of))
    PROVE  Query!ParamsAsSent' /\ last'.of \in {"none", "param", "cookie"}
<1> DEFINE v == Lookup(new, n)
           sent == Query!Sent(of)
           did == own[of][n]
<1>1. last' = [of |-> of, name |-> n, value |-> v]
  BY Zenon DEF Lookup
<1> HIDE DEF v
<1>2. last'.of = of /\ last'.name = n /\ last'.value = v
  BY <1>1
<1>3. query' = query /\ form' = form /\ cookie' = cookie /\ isForm' = isForm
  OBVIOUS
<1>4. (IF last'.of = "cookie" THEN cookie' ELSE query' \o IF isForm' THEN form' ELSE <<>>) = sent
  <2> DEFINE body == IF isForm THEN form ELSE <<>>
             body1 == IF isForm' THEN form' ELSE <<>>
  <2>1. body1 = body
    BY <1>3
  <2>2. sent = IF of = "cookie" THEN cookie ELSE query \o body
    BY Zenon DEF Query!Sent
  <2> HIDE DEF body, body1, sent
  <2>3. (IF last'.of = "cookie" THEN cookie' ELSE query' \o body1) = sent
    BY Zenon, <1>2, <1>3, <2>1, <2>2
  <2>4. QED
    BY Zenon, <2>3 DEF body1
<1>5. own'[last'.of][last'.name] = did
  BY Zenon, <1>2
<1>6. Query!Separable(sent) =>
        v = IF did.what \in {"set", "deleted"} THEN did.value ELSE Query!FirstOf(sent, n)
  BY Zenon DEF Held, v
<1> HIDE DEF sent, did
<1>7. Right(last', did, sent)
  BY Zenon, <1>2, <1>6 DEF Right
<1>8. Query!ParamsAsSent'
  BY Zenon, <1>4, <1>5, <1>7, RightIs
<1>9. QED
  BY Zenon, <1>2, <1>8 DEF Owns

\* Parsing a text that is not in the flag.
LEMMA QueryHeld ==
    ASSUME SentTypes, NEW n \in Query!Keys, NEW did, "query" \notin m_parserParamFlag,
           "body" \notin m_parserParamFlag, Held(m_params, n, did, FALSE, Query!Sent("param"))
    PROVE  Held(Query!BodyParams(Query!QueryParams(m_params)), n, did, TRUE, Query!Sent("param"))
<1> DEFINE q == Query!Parsed(Query!Line(query, <<Query!Plain("&")>>), "&", FALSE)
           f == Query!Parsed(Query!Line(form, <<Query!Plain("&")>>), "&", FALSE)
<1>1. query \in Seq(Pairs) /\ form \in Seq(Pairs) /\ isForm \in BOOLEAN
  BY Zenon DEF SentTypes
<1>2. Query!QueryParams(m_params) = Query!Insert(m_params, q)
  BY Zenon DEF Query!QueryParams, Query!Unparsed
<1>3. /\ Query!Separable(query) => q = Taken(query)
      /\ Query!Separable(form) => f = Taken(form)
  BY Zenon, <1>1, ParsedIs
<1> DEFINE mid == Query!Insert(m_params, q)
<1> HIDE DEF q, f
<1>4. CASE isForm
  <2>1. Query!BodyParams(mid) = Query!Insert(mid, f)
    BY Zenon, <1>4 DEF Query!BodyParams, Query!Unparsed, f
  <2>2. Query!Sent("param") = query \o form
    BY Zenon, <1>4, SentIs
  <2>3. Held(m_params, n, did, FALSE, query \o form)
    BY Zenon, <2>2
  <2>4. Held(Query!Insert(Query!Insert(m_params, q), f), n, did, TRUE, query \o form)
    BY Zenon, <1>1, <1>3, <2>3, TextsHeld
  <2>5. QED
    BY Zenon, <1>2, <2>1, <2>2, <2>4
<1>5. CASE ~isForm
  <2>1. Query!BodyParams(mid) = mid
    BY Zenon, <1>5 DEF Query!BodyParams
  <2>2. Query!Sent("param") = query
    <3>1. query \o <<>> = query
      BY <1>1
    <3>2. Query!Sent("param") = query \o <<>>
      BY Zenon, <1>5, SentIs
    <3>3. QED
      BY Zenon, <3>1, <3>2
  <2>3. Held(m_params, n, did, FALSE, query)
    BY Zenon, <2>2
  <2>4. Held(Query!Insert(m_params, q), n, did, TRUE, query)
    BY Zenon, <1>1, <1>3, <2>3, TextHeld
  <2>5. QED
    BY Zenon, <1>2, <2>1, <2>2, <2>4
<1>6. QED
  BY Zenon, <1>1, <1>4, <1>5

LEMMA CookieHeld ==
    ASSUME SentTypes, NEW n \in Query!Keys, NEW did, "cookie" \notin m_parserParamFlag,
           Held(m_cookies, n, did, FALSE, Query!Sent("cookie"))
    PROVE  Held(Query!CookieLine(m_cookies), n, did, TRUE, Query!Sent("cookie"))
<1> DEFINE c == Query!Parsed(Query!Line(cookie, <<Query!Plain(";"), Query!Plain(" ")>>), ";", TRUE)
<1>1. cookie \in Seq(Pairs)
  BY Zenon DEF SentTypes
<1>2. Query!CookieLine(m_cookies) = Query!Insert(m_cookies, c)
  BY Zenon DEF Query!CookieLine, Query!Unparsed
<1>3. Query!Separable(cookie) => c = Taken(cookie)
  BY Zenon, <1>1, ParsedIs
<1> HIDE DEF c
<1>4. Query!Sent("cookie") = cookie
  BY Zenon, SentIs
<1>5. Held(m_cookies, n, did, FALSE, cookie)
  BY Zenon, <1>4
<1>6. Held(Query!Insert(m_cookies, c), n, did, TRUE, cookie)
  BY Zenon, <1>1, <1>3, <1>5, TextHeld
<1>7. QED
  BY Zenon, <1>2, <1>4, <1>6

LEMMA GetParamStep ==
    ASSUME Lines, QueryInv, NEW n \in Query!Keys, Query!GetParam(n)
    PROVE  QueryInv'
<1> DEFINE new == Query!BodyParams(Query!QueryParams(m_params))
<1>1. SentTypes /\ Query!TypeOK /\ Together /\ ParamsHeld /\ CookiesHeld
  BY Zenon DEF QueryInv
<1>2. /\ UNCHANGED <<query, form, cookie, isForm>>
      /\ ops < MaxOps /\ ops' = ops + 1
      /\ m_params' = new /\ m_cookies' = m_cookies /\ own' = own
      /\ m_parserParamFlag' = m_parserParamFlag \cup {"query", "body"}
      /\ last' = [of |-> "param", name |-> n,
                  value |-> IF n \in DOMAIN m_params' THEN m_params'[n] ELSE Query!Absent]
  BY DEF Query!GetParam, Query!Op, Query!sentVars, Query!Answer
<1>3. /\ query' = query /\ form' = form /\ cookie' = cookie /\ isForm' = isForm
      /\ Query!Sent("param")' = Query!Sent("param") /\ Query!Sent("cookie")' = Query!Sent("cookie")
  BY Zenon, <1>2, SentKept
<1>4. SentTypes'
  BY <1>1, <1>3 DEF SentTypes
<1>5. /\ "query" \in m_parserParamFlag' /\ "body" \in m_parserParamFlag'
      /\ "cookie" \in m_parserParamFlag' <=> "cookie" \in m_parserParamFlag
  BY Zenon, <1>2
<1>6. Together'
  BY Zenon, <1>5 DEF Together
<1> HIDE DEF new
<1>7. ASSUME NEW x \in Query!Keys
      PROVE  Held(new, x, own["param"][x], TRUE, Query!Sent("param"))
  <2> DEFINE did == own["param"][x]
             sent == Query!Sent("param")
  <2>1. Held(m_params, x, did, "query" \in m_parserParamFlag, sent)
    BY Zenon, <1>1 DEF ParamsHeld
  <2> HIDE DEF did, sent
  <2>2. CASE "query" \in m_parserParamFlag
    <3>1. "body" \in m_parserParamFlag
      BY Zenon, <1>1, <2>2 DEF Together
    <3>2. new = m_params
      BY Zenon, <2>2, <3>1 DEF new, Query!BodyParams, Query!QueryParams, Query!Unparsed
    <3>3. Held(m_params, x, did, TRUE, sent)
      BY Zenon, <2>1, <2>2 DEF Held
    <3>4. QED
      BY Zenon, <3>2, <3>3 DEF did, sent
  <2>3. CASE "query" \notin m_parserParamFlag
    <3>1. "body" \notin m_parserParamFlag
      BY Zenon, <1>1, <2>3 DEF Together
    <3>2. Held(m_params, x, did, FALSE, sent)
      BY Zenon, <2>1, <2>3 DEF Held
    <3>3. QED
      BY Zenon, <1>1, <2>3, <3>1, <3>2, QueryHeld DEF new, did, sent
  <2>4. QED
    BY Zenon, <2>2, <2>3
<1>8. ParamsHeld'
  <2>1. ASSUME NEW x \in Query!Keys
        PROVE  Held(m_params', x, own'["param"][x], "query" \in m_parserParamFlag',
                    Query!Sent("param")')
    <3>1. Held(new, x, own["param"][x], TRUE, Query!Sent("param"))
      BY Zenon, <1>7
    <3>2. Held(m_params', x, own'["param"][x], TRUE, Query!Sent("param")')
      BY Zenon, <1>2, <1>3, <3>1
    <3>3. QED
      BY Zenon, <1>5, <3>2 DEF Held
  <2>2. QED
    BY Zenon, <2>1 DEF ParamsHeld
<1>9. CookiesHeld'
  <2>1. ASSUME NEW x \in Query!Keys
        PROVE  Held(m_cookies', x, own'["cookie"][x], "cookie" \in m_parserParamFlag',
                    Query!Sent("cookie")')
    <3>1. Held(m_cookies, x, own["cookie"][x], "cookie" \in m_parserParamFlag, Query!Sent("cookie"))
      BY Zenon, <1>1 DEF CookiesHeld
    <3>2. Held(m_cookies', x, own'["cookie"][x], "cookie" \in m_parserParamFlag,
               Query!Sent("cookie")')
      BY Zenon, <1>2, <1>3, <3>1
    <3>3. QED
      BY Zenon, <1>5, <3>2 DEF Held
  <2>2. QED
    BY Zenon, <2>1 DEF CookiesHeld
<1>10. Query!ParamsAsSent' /\ last'.of \in {"none", "param", "cookie"}
  <2>1. last' = [of |-> "param", name |-> n, value |-> IF n \in DOMAIN new THEN new[n] ELSE Query!Absent]
    BY Zenon, <1>2
  <2>2. "param" \in Owns
    BY Zenon DEF Owns
  <2>3. Held(new, n, own["param"][n], TRUE, Query!Sent("param"))
    BY Zenon, <1>7
  <2>4. QED
    BY Zenon, <1>2, <2>1, <2>2, <2>3, Asked
<1>11. Query!TypeOK'
  <2>1. ops' \in 0..MaxOps
    <3>1. ops \in 0..MaxOps /\ ops < MaxOps /\ ops' = ops + 1 /\ MaxOps \in Nat
      BY Zenon, <1>1, <1>2 DEF Query!TypeOK, Lines
    <3>2. QED
      BY <3>1
  <2>2. m_parserParamFlag' \subseteq {"query", "body", "cookie"}
    BY Zenon, <1>1, <1>2 DEF Query!TypeOK
  <2>3. QED
    BY Zenon, <1>1, <1>2, <1>10, <2>1, <2>2 DEF Query!TypeOK
<1>12. QED
  BY Zenon, <1>4, <1>6, <1>8, <1>9, <1>10, <1>11 DEF QueryInv

LEMMA GetCookieStep ==
    ASSUME Lines, QueryInv, NEW n \in Query!Keys, Query!GetCookie(n)
    PROVE  QueryInv'
<1> DEFINE new == Query!CookieLine(m_cookies)
<1>1. SentTypes /\ Query!TypeOK /\ Together /\ ParamsHeld /\ CookiesHeld
  BY Zenon DEF QueryInv
<1>2. /\ UNCHANGED <<query, form, cookie, isForm>>
      /\ ops < MaxOps /\ ops' = ops + 1
      /\ m_cookies' = new /\ m_params' = m_params /\ own' = own
      /\ m_parserParamFlag' = m_parserParamFlag \cup {"cookie"}
      /\ last' = [of |-> "cookie", name |-> n,
                  value |-> IF n \in DOMAIN m_cookies' THEN m_cookies'[n] ELSE Query!Absent]
  BY DEF Query!GetCookie, Query!Op, Query!sentVars, Query!Answer
<1>3. /\ query' = query /\ form' = form /\ cookie' = cookie /\ isForm' = isForm
      /\ Query!Sent("param")' = Query!Sent("param") /\ Query!Sent("cookie")' = Query!Sent("cookie")
  BY Zenon, <1>2, SentKept
<1>4. SentTypes'
  BY <1>1, <1>3 DEF SentTypes
<1>5. /\ "cookie" \in m_parserParamFlag'
      /\ "query" \in m_parserParamFlag' <=> "query" \in m_parserParamFlag
      /\ "body" \in m_parserParamFlag' <=> "body" \in m_parserParamFlag
  BY Zenon, <1>2
<1>6. Together'
  BY Zenon, <1>1, <1>5 DEF Together
<1> HIDE DEF new
<1>7. ASSUME NEW x \in Query!Keys
      PROVE  Held(new, x, own["cookie"][x], TRUE, Query!Sent("cookie"))
  <2> DEFINE did == own["cookie"][x]
             sent == Query!Sent("cookie")
  <2>1. Held(m_cookies, x, did, "cookie" \in m_parserParamFlag, sent)
    BY Zenon, <1>1 DEF CookiesHeld
  <2> HIDE DEF did, sent
  <2>2. CASE "cookie" \in m_parserParamFlag
    <3>1. new = m_cookies
      BY Zenon, <2>2 DEF new, Query!CookieLine, Query!Unparsed
    <3>2. Held(m_cookies, x, did, TRUE, sent)
      BY Zenon, <2>1, <2>2 DEF Held
    <3>3. QED
      BY Zenon, <3>1, <3>2 DEF did, sent
  <2>3. CASE "cookie" \notin m_parserParamFlag
    <3>1. Held(m_cookies, x, did, FALSE, sent)
      BY Zenon, <2>1, <2>3 DEF Held
    <3>2. QED
      BY Zenon, <1>1, <2>3, <3>1, CookieHeld DEF new, did, sent
  <2>4. QED
    BY Zenon, <2>2, <2>3
<1>8. CookiesHeld'
  <2>1. ASSUME NEW x \in Query!Keys
        PROVE  Held(m_cookies', x, own'["cookie"][x], "cookie" \in m_parserParamFlag',
                    Query!Sent("cookie")')
    <3>1. Held(new, x, own["cookie"][x], TRUE, Query!Sent("cookie"))
      BY Zenon, <1>7
    <3>2. Held(m_cookies', x, own'["cookie"][x], TRUE, Query!Sent("cookie")')
      BY Zenon, <1>2, <1>3, <3>1
    <3>3. QED
      BY Zenon, <1>5, <3>2 DEF Held
  <2>2. QED
    BY Zenon, <2>1 DEF CookiesHeld
<1>9. ParamsHeld'
  <2>1. ASSUME NEW x \in Query!Keys
        PROVE  Held(m_params', x, own'["param"][x], "query" \in m_parserParamFlag',
                    Query!Sent("param")')
    <3>1. Held(m_params, x, own["param"][x], "query" \in m_parserParamFlag, Query!Sent("param"))
      BY Zenon, <1>1 DEF ParamsHeld
    <3>2. Held(m_params', x, own'["param"][x], "query" \in m_parserParamFlag,
               Query!Sent("param")')
      BY Zenon, <1>2, <1>3, <3>1
    <3>3. QED
      BY Zenon, <1>5, <3>2 DEF Held
  <2>2. QED
    BY Zenon, <2>1 DEF ParamsHeld
<1>10. Query!ParamsAsSent' /\ last'.of \in {"none", "param", "cookie"}
  <2>1. last' = [of |-> "cookie", name |-> n, value |-> IF n \in DOMAIN new THEN new[n] ELSE Query!Absent]
    BY Zenon, <1>2
  <2>2. "cookie" \in Owns
    BY Zenon DEF Owns
  <2>3. Held(new, n, own["cookie"][n], TRUE, Query!Sent("cookie"))
    BY Zenon, <1>7
  <2>4. QED
    BY Zenon, <1>2, <2>1, <2>2, <2>3, Asked
<1>11. Query!TypeOK'
  <2>1. ops' \in 0..MaxOps
    <3>1. ops \in 0..MaxOps /\ ops < MaxOps /\ ops' = ops + 1 /\ MaxOps \in Nat
      BY Zenon, <1>1, <1>2 DEF Query!TypeOK, Lines
    <3>2. QED
      BY <3>1
  <2>2. m_parserParamFlag' \subseteq {"query", "body", "cookie"}
    BY Zenon, <1>1, <1>2 DEF Query!TypeOK
  <2>3. QED
    BY Zenon, <1>1, <1>2, <1>10, <2>1, <2>2 DEF Query!TypeOK
<1>12. QED
  BY Zenon, <1>4, <1>6, <1>8, <1>9, <1>10, <1>11 DEF QueryInv

\* What a step that sets or deletes a name leaves of both maps.
Keeps(of, n, d) ==
  \A x \in Query!Keys :
    /\ Held(m_params', x, IF of = "param" /\ x = n THEN d ELSE own["param"][x],
            "query" \in m_parserParamFlag, Query!Sent("param"))
    /\ Held(m_cookies', x, IF of = "cookie" /\ x = n THEN d ELSE own["cookie"][x],
            "cookie" \in m_parserParamFlag, Query!Sent("cookie"))

\* The servlet sets or deletes a name: no answer is under way.
LEMMA DidStep ==
    ASSUME Lines, QueryInv, NEW of \in Owns, NEW n \in Query!Keys, NEW what, NEW v,
           [what |-> what, value |-> v] \in Dids,
           Query!Op, Query!Did(of, n, what, v),
           Keeps(of, n, [what |-> what, value |-> v])
    PROVE  QueryInv'
<1> DEFINE d == [what |-> what, value |-> v]
           new == [own EXCEPT ![of][n] = d]
<1>1. SentTypes /\ Query!TypeOK /\ Together
  BY Zenon DEF QueryInv
<1>2. /\ UNCHANGED <<query, form, cookie, isForm>>
      /\ ops < MaxOps /\ ops' = ops + 1
      /\ own' = new /\ m_parserParamFlag' = m_parserParamFlag /\ last' = Query!NoAnswer
  BY DEF Query!Did, Query!Op, Query!sentVars
<1>3. /\ query' = query /\ form' = form /\ cookie' = cookie /\ isForm' = isForm
      /\ Query!Sent("param")' = Query!Sent("param") /\ Query!Sent("cookie")' = Query!Sent("cookie")
  BY Zenon, <1>2, SentKept
<1>4. SentTypes'
  BY <1>1, <1>3 DEF SentTypes
<1>5. Together'
  BY Zenon, <1>1, <1>2 DEF Together
<1>6. \A x \in Query!Keys :
        /\ Held(m_params', x, IF of = "param" /\ x = n THEN d ELSE own["param"][x],
                "query" \in m_parserParamFlag, Query!Sent("param"))
        /\ Held(m_cookies', x, IF of = "cookie" /\ x = n THEN d ELSE own["cookie"][x],
                "cookie" \in m_parserParamFlag, Query!Sent("cookie"))
  BY Zenon DEF Keeps
<1>7. d \in Dids /\ own \in [Owns -> [Query!Keys -> Dids]]
  BY Zenon, <1>1 DEF Query!TypeOK, Owns, Dids
<1>8. /\ new \in [Owns -> [Query!Keys -> Dids]]
      /\ \A a \in Owns, x \in Query!Keys : new[a][x] = IF a = of /\ x = n THEN d ELSE own[a][x]
  <2> HIDE DEF d
  <2>1. Noted(new, own, of, n, d)
    BY Zenon, <1>7, OwnIs
  <2> HIDE DEF new
  <2>2. QED
    BY Zenon, <2>1 DEF Noted
<1> HIDE DEF d, new
<1>9. "param" \in Owns /\ "cookie" \in Owns
  BY Zenon DEF Owns
<1>10. ParamsHeld'
  <2>1. ASSUME NEW x \in Query!Keys
        PROVE  Held(m_params', x, own'["param"][x], "query" \in m_parserParamFlag',
                    Query!Sent("param")')
    <3>1. own'["param"][x] = IF of = "param" /\ x = n THEN d ELSE own["param"][x]
      BY Zenon, <1>2, <1>8, <1>9
    <3>2. QED
      BY Zenon, <1>2, <1>3, <1>6, <3>1
  <2>2. QED
    BY Zenon, <2>1 DEF ParamsHeld
<1>11. CookiesHeld'
  <2>1. ASSUME NEW x \in Query!Keys
        PROVE  Held(m_cookies', x, own'["cookie"][x], "cookie" \in m_parserParamFlag',
                    Query!Sent("cookie")')
    <3>1. own'["cookie"][x] = IF of = "cookie" /\ x = n THEN d ELSE own["cookie"][x]
      BY Zenon, <1>2, <1>8, <1>9
    <3>2. QED
      BY Zenon, <1>2, <1>3, <1>6, <3>1
  <2>2. QED
    BY Zenon, <2>1 DEF CookiesHeld
<1>12. last'.of = "none"
  BY <1>2 DEF Query!NoAnswer
<1>13. Query!ParamsAsSent'
  BY Zenon, <1>12, RightIs DEF Right
<1>14. Query!TypeOK'
  <2>1. ops' \in 0..MaxOps
    <3>1. ops \in 0..MaxOps /\ ops < MaxOps /\ ops' = ops + 1 /\ MaxOps \in Nat
      BY Zenon, <1>1, <1>2 DEF Query!TypeOK, Lines
    <3>2. QED
      BY <3>1
  <2>2. m_parserParamFlag' \subseteq {"query", "body", "cookie"}
    BY Zenon, <1>1, <1>2 DEF Query!TypeOK
  <2>3. QED
    BY Zenon, <1>2, <1>8, <1>12, <2>1, <2>2 DEF Query!TypeOK, Owns, Dids
<1>15. QED
  BY Zenon, <1>4, <1>5, <1>10, <1>11, <1>13, <1>14 DEF QueryInv

LEMMA SetStep ==
    ASSUME Lines, QueryInv, NEW n \in Query!Keys, NEW v \in Values,
           Query!SetParam(n, v) \/ Query!SetCookie(n, v)
    PROVE  QueryInv'
<1> DEFINE d == [what |-> "set", value |-> v]
           p == "query" \in m_parserParamFlag
           c == "cookie" \in m_parserParamFlag
<1>1. "param" \in Owns /\ "cookie" \in Owns /\ "param" # "cookie"
  BY Zenon DEF Owns
<1>2. d \in Dids
  BY DEF Dids
<1>3. ASSUME NEW x \in Query!Keys
      PROVE  /\ Held(m_params, x, own["param"][x], p, Query!Sent("param"))
             /\ Held(m_cookies, x, own["cookie"][x], c, Query!Sent("cookie"))
  BY Zenon DEF QueryInv, ParamsHeld, CookiesHeld
<1>4. CASE Query!SetParam(n, v)
  <2>1. /\ Query!Op /\ Query!Did("param", n, "set", v)
        /\ m_params' = Query!Put(m_params, n, v) /\ m_cookies' = m_cookies
    BY Zenon, <1>4 DEF Query!SetParam
  <2>2. ASSUME NEW x \in Query!Keys
        PROVE  /\ Held(m_params', x, IF "param" = "param" /\ x = n THEN d ELSE own["param"][x], p,
                       Query!Sent("param"))
               /\ Held(m_cookies', x, IF "param" = "cookie" /\ x = n THEN d ELSE own["cookie"][x], c,
                       Query!Sent("cookie"))
    <3>1. Held(Query!Put(m_params, n, v), x, IF x = n THEN d ELSE own["param"][x], p,
               Query!Sent("param"))
      BY Zenon, <1>3, PutHeld
    <3>2. /\ (IF "param" = "param" /\ x = n THEN d ELSE own["param"][x])
               = (IF x = n THEN d ELSE own["param"][x])
          /\ (IF "param" = "cookie" /\ x = n THEN d ELSE own["cookie"][x]) = own["cookie"][x]
      BY Zenon, <1>1
    <3> HIDE DEF d, p, c
    <3>3. QED
      BY Zenon, <1>3, <2>1, <3>1, <3>2
  <2>3. Keeps("param", n, d)
    <3> HIDE DEF d
    <3>1. QED
      BY Zenon, <2>2 DEF Keeps
  <2>4. QED
    BY Zenon, <1>1, <1>2, <2>1, <2>3, DidStep
<1>5. CASE Query!SetCookie(n, v)
  <2>1. /\ Query!Op /\ Query!Did("cookie", n, "set", v)
        /\ m_cookies' = Query!Put(m_cookies, n, v) /\ m_params' = m_params
    BY Zenon, <1>5 DEF Query!SetCookie
  <2>2. ASSUME NEW x \in Query!Keys
        PROVE  /\ Held(m_params', x, IF "cookie" = "param" /\ x = n THEN d ELSE own["param"][x], p,
                       Query!Sent("param"))
               /\ Held(m_cookies', x, IF "cookie" = "cookie" /\ x = n THEN d ELSE own["cookie"][x], c,
                       Query!Sent("cookie"))
    <3>1. Held(Query!Put(m_cookies, n, v), x, IF x = n THEN d ELSE own["cookie"][x], c,
               Query!Sent("cookie"))
      BY Zenon, <1>3, PutHeld
    <3>2. /\ (IF "cookie" = "cookie" /\ x = n THEN d ELSE own["cookie"][x])
               = (IF x = n THEN d ELSE own["cookie"][x])
          /\ (IF "cookie" = "param" /\ x = n THEN d ELSE own["param"][x]) = own["param"][x]
      BY Zenon, <1>1
    <3> HIDE DEF d, p, c
    <3>3. QED
      BY Zenon, <1>3, <2>1, <3>1, <3>2
  <2>3. Keeps("cookie", n, d)
    <3> HIDE DEF d
    <3>1. QED
      BY Zenon, <2>2 DEF Keeps
  <2>4. QED
    BY Zenon, <1>1, <1>2, <2>1, <2>3, DidStep
<1>6. QED
  BY Zenon, <1>4, <1>5

LEMMA DelStep ==
    ASSUME Lines, QueryInv, NEW n \in Query!Keys, Query!DelParam(n) \/ Query!DelCookie(n)
    PROVE  QueryInv'
<1> DEFINE p == "query" \in m_parserParamFlag
           c == "cookie" \in m_parserParamFlag
           wp == IF p THEN "deleted" ELSE "deleted early"
           wc == IF c THEN "deleted" ELSE "deleted early"
           none == Query!Absent
           dp == [what |-> wp, value |-> none]
           dc == [what |-> wc, value |-> none]
<1>1. "param" \in Owns /\ "cookie" \in Owns /\ "param" # "cookie"
  BY Zenon DEF Owns
<1>2. dp \in Dids /\ dc \in Dids
  <2>1. wp \in {"nothing", "set", "deleted", "deleted early"}
    BY Zenon
  <2>2. wc \in {"nothing", "set", "deleted", "deleted early"}
    BY Zenon
  <2> HIDE DEF wp, wc, none
  <2>3. dp \in [what : {"nothing", "set", "deleted", "deleted early"}, value : Values \cup {none}]
    BY <2>1
  <2>4. dc \in [what : {"nothing", "set", "deleted", "deleted early"}, value : Values \cup {none}]
    BY <2>2
  <2>5. QED
    BY Zenon, <2>3, <2>4 DEF Dids, none
<1>3. ASSUME NEW x \in Query!Keys
      PROVE  /\ Held(m_params, x, own["param"][x], p, Query!Sent("param"))
             /\ Held(m_cookies, x, own["cookie"][x], c, Query!Sent("cookie"))
  BY Zenon DEF QueryInv, ParamsHeld, CookiesHeld
<1>7. p \in BOOLEAN /\ c \in BOOLEAN
  OBVIOUS
<1>4. CASE Query!DelParam(n)
  <2>1. /\ Query!Op /\ Query!Did("param", n, wp, none)
        /\ m_params' = Query!Without(m_params, n) /\ m_cookies' = m_cookies
    <3>1. wp = IF Query!Unparsed("query") THEN "deleted early" ELSE "deleted"
      BY Zenon DEF Query!Unparsed
    <3> HIDE DEF wp
    <3>2. QED
      BY Zenon, <1>4, <3>1 DEF Query!DelParam
  <2>2. ASSUME NEW x \in Query!Keys
        PROVE  /\ Held(m_params', x, IF "param" = "param" /\ x = n THEN dp ELSE own["param"][x], p,
                       Query!Sent("param"))
               /\ Held(m_cookies', x, IF "param" = "cookie" /\ x = n THEN dp ELSE own["cookie"][x], c,
                       Query!Sent("cookie"))
    <3>1. Held(Query!Without(m_params, n), x, IF x = n THEN dp ELSE own["param"][x], p,
               Query!Sent("param"))
      <4>1. wp = IF p THEN "deleted" ELSE "deleted early"
        BY Zenon
      <4> HIDE DEF wp, p
      <4>2. QED
        BY Zenon, <1>3, <1>7, <4>1, WithoutHeld
    <3>2. /\ (IF "param" = "param" /\ x = n THEN dp ELSE own["param"][x])
               = (IF x = n THEN dp ELSE own["param"][x])
          /\ (IF "param" = "cookie" /\ x = n THEN dp ELSE own["cookie"][x]) = own["cookie"][x]
      <4> HIDE DEF dp
      <4>1. QED
        BY Zenon, <1>1
    <3> HIDE DEF dp, p, c
    <3>3. QED
      BY Zenon, <1>3, <2>1, <3>1, <3>2
  <2>3. Keeps("param", n, dp)
    <3> HIDE DEF dp
    <3>1. QED
      BY Zenon, <2>2 DEF Keeps
  <2> HIDE DEF wp, none
  <2>4. QED
    BY Zenon, <1>1, <1>2, <2>1, <2>3, DidStep
<1>5. CASE Query!DelCookie(n)
  <2>1. /\ Query!Op /\ Query!Did("cookie", n, wc, none)
        /\ m_cookies' = Query!Without(m_cookies, n) /\ m_params' = m_params
    <3>1. wc = IF Query!Unparsed("cookie") THEN "deleted early" ELSE "deleted"
      BY Zenon DEF Query!Unparsed
    <3> HIDE DEF wc
    <3>2. QED
      BY Zenon, <1>5, <3>1 DEF Query!DelCookie
  <2>2. ASSUME NEW x \in Query!Keys
        PROVE  /\ Held(m_params', x, IF "cookie" = "param" /\ x = n THEN dc ELSE own["param"][x], p,
                       Query!Sent("param"))
               /\ Held(m_cookies', x, IF "cookie" = "cookie" /\ x = n THEN dc ELSE own["cookie"][x], c,
                       Query!Sent("cookie"))
    <3>1. Held(Query!Without(m_cookies, n), x, IF x = n THEN dc ELSE own["cookie"][x], c,
               Query!Sent("cookie"))
      <4>1. wc = IF c THEN "deleted" ELSE "deleted early"
        BY Zenon
      <4> HIDE DEF wc, c
      <4>2. QED
        BY Zenon, <1>3, <1>7, <4>1, WithoutHeld
    <3>2. /\ (IF "cookie" = "cookie" /\ x = n THEN dc ELSE own["cookie"][x])
               = (IF x = n THEN dc ELSE own["cookie"][x])
          /\ (IF "cookie" = "param" /\ x = n THEN dc ELSE own["param"][x]) = own["param"][x]
      <4> HIDE DEF dc
      <4>1. QED
        BY Zenon, <1>1
    <3> HIDE DEF dc, p, c
    <3>3. QED
      BY Zenon, <1>3, <2>1, <3>1, <3>2
  <2>3. Keeps("cookie", n, dc)
    <3> HIDE DEF dc
    <3>1. QED
      BY Zenon, <2>2 DEF Keeps
  <2> HIDE DEF wc, none
  <2>4. QED
    BY Zenon, <1>1, <1>2, <2>1, <2>3, DidStep
<1>6. QED
  BY Zenon, <1>4, <1>5

LEMMA QueryStutter ==
    ASSUME QueryInv, UNCHANGED Query!vars
    PROVE  QueryInv'
<1>1. /\ query' = query /\ form' = form /\ cookie' = cookie /\ isForm' = isForm
      /\ m_parserParamFlag' = m_parserParamFlag /\ m_params' = m_params /\ m_cookies' = m_cookies
      /\ own' = own /\ last' = last /\ ops' = ops
  BY DEF Query!vars, Query!sentVars
<1>2. \A of : Query!Sent(of)' = Query!Sent(of)
  BY Zenon, <1>1, SentKept
<1>3. SentTypes'
  BY <1>1 DEF QueryInv, SentTypes
<1>4. Query!TypeOK'
  BY <1>1 DEF QueryInv, Query!TypeOK
<1>5. Together' /\ ParamsHeld' /\ CookiesHeld'
  <2>1. Query!Sent("param")' = Query!Sent("param") /\ Query!Sent("cookie")' = Query!Sent("cookie")
    BY Zenon, <1>1, SentKept
  <2>2. Together'
    BY Zenon, <1>1 DEF QueryInv, Together
  <2>3. ParamsHeld'
    BY Zenon, <1>1, <2>1 DEF QueryInv, ParamsHeld
  <2>4. CookiesHeld'
    BY Zenon, <1>1, <2>1 DEF QueryInv, CookiesHeld
  <2>5. QED
    BY Zenon, <2>2, <2>3, <2>4
<1>6. Query!ParamsAsSent'
  <2>1. Right(last, own[last.of][last.name], Query!Sent(last.of))
    BY Zenon, RightIs DEF QueryInv
  <2> DEFINE sent1 == IF last'.of = "cookie" THEN cookie' ELSE query' \o IF isForm' THEN form' ELSE <<>>
             sent == IF last.of = "cookie" THEN cookie ELSE query \o IF isForm THEN form ELSE <<>>
  <2>2. sent1 = sent
    BY <1>1
  <2>3. Query!Sent(last.of) = sent
    BY Zenon DEF Query!Sent
  <2> HIDE DEF sent
  <2>4. Right(last', own'[last'.of][last'.name], sent1)
    <3> HIDE DEF sent1
    <3>1. QED
      BY Zenon, <1>1, <2>1, <2>2, <2>3
  <2>5. QED
    BY Zenon, <2>4, RightIs
<1>7. QED
  BY Zenon, <1>3, <1>4, <1>5, <1>6 DEF QueryInv

LEMMA QueryStep ==
    ASSUME Lines, QueryInv, [Query!Next]_(Query!vars)
    PROVE  QueryInv'
<1>1. ASSUME NEW n \in Query!Keys, Query!GetParam(n)
      PROVE  QueryInv'
  BY Zenon, <1>1, GetParamStep
<1>2. ASSUME NEW n \in Query!Keys, Query!GetCookie(n)
      PROVE  QueryInv'
  BY Zenon, <1>2, GetCookieStep
<1>3. ASSUME NEW n \in Query!Keys, Query!DelParam(n) \/ Query!DelCookie(n)
      PROVE  QueryInv'
  BY Zenon, <1>3, DelStep
<1>4. ASSUME NEW n \in Query!Keys, NEW v \in Values, Query!SetParam(n, v) \/ Query!SetCookie(n, v)
      PROVE  QueryInv'
  BY Zenon, <1>4, SetStep
<1>5. ASSUME UNCHANGED Query!vars
      PROVE  QueryInv'
  BY Zenon, <1>5, QueryStutter
<1>6. QED
  BY Zenon, <1>1, <1>2, <1>3, <1>4, <1>5 DEF Query!Next

\* Whatever text a client sends, a servlet that asks for a parameter or a
\* cookie gets the value that was sent for the name, in whatever case it was
\* written, or the one it has set itself (http.cc:69-72, 96-184).
THEOREM ParamsCorrect ==
    ASSUME Lines
    PROVE  QuerySpec => []Query!ParamsAsSent
<1>1. Query!Init => QueryInv
  BY QueryStart
<1>2. QueryInv /\ [Query!Next]_(Query!vars) => QueryInv'
  BY QueryStep
<1>3. QueryInv => Query!ParamsAsSent
  BY Zenon DEF QueryInv
<1>4. QED
  BY <1>1, <1>2, <1>3, PTL DEF QuerySpec

\* The maps, the flag and the history have the type TypeOK states.
THEOREM QueryTypeCorrect ==
    ASSUME Lines
    PROVE  QuerySpec => []Query!TypeOK
<1>1. Query!Init => QueryInv
  BY QueryStart
<1>2. QueryInv /\ [Query!Next]_(Query!vars) => QueryInv'
  BY QueryStep
<1>3. QueryInv => Query!TypeOK
  BY Zenon DEF QueryInv
<1>4. QED
  BY <1>1, <1>2, <1>3, PTL DEF QuerySpec
=============================================================================
