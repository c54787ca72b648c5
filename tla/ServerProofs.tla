---------------------------- MODULE ServerProofs ----------------------------
(***************************************************************************)
(* Proofs about TcpServer, for any number of addresses, clients, loops and *)
(* calls of stop(): what the closing that stop() schedules reaches.  Then  *)
(* about HookIo, for any fibers, descriptors, sockets and calls: the       *)
(* answers of the hooked calls and the table of descriptors.  Then         *)
(* about HttpServer, which is a TcpServer, for any number of clients,      *)
(* requests and servlets: whose answers a client gets.  And about          *)
(* ByteArray, for any size of its blocks and any number of operations:     *)
(* what is read is what was written.                                       *)
(***************************************************************************)
EXTENDS TcpServer, FiniteSetTheorems, SequenceTheorems, WellFoundedInduction, TLAPS

-----------------------------------------------------------------------------
(* TcpServer: the inductive invariant.                                     *)

AcceptLoop == [sock : Listeners, at : {"queued", "test", "try", "add", "parked", "ended"}]

Types ==
    /\ m_isStop \in BOOLEAN
    /\ m_socks \in SUBSET Listeners
    /\ todo \in SUBSET m_socks
    /\ lstate \in [Listeners -> {"unbound", "listening", "closed"}]
    /\ loop \in [Loops -> AcceptLoop \cup {Nothing}]
    /\ queued \in Nat
    /\ at \in {"idle", "cancel", "close", "fd"}
    /\ client \in [Clients -> {"none", "accepted", "reset"} \cup Listeners]
    /\ aborted \in BOOLEAN /\ restarted \in BOOLEAN

\* The sockets of the server listen until a closing comes to them.
Open ==
    /\ at = "idle" => todo = {}
    /\ at \in {"close", "fd"} => todo # {}
    /\ \A l \in m_socks : lstate[l] = IF at = "idle" \/ l \in todo THEN "listening"
                                                                  ELSE "closed"

\* Whose sockets the loops have.
Owned ==
    \A k \in Loops : Alive(k) =>
        LET l == loop[k].sock IN
        /\ lstate[l] # "unbound"
        /\ l \in m_socks \/ lstate[l] = "closed" \/ l \in dropped

\* A loop that waits at a closed socket came after its last cancelling.
Missed ==
    \A k \in Loops : loop[k].at = "parked" =>
        LET l == loop[k].sock IN
        lstate[l] = "closed" \/ (at = "fd" /\ l = Target) => k \in slipped \/ l \in dropped

\* Once a closing is through the loops have none of the server's sockets.
Through ==
    m_isStop /\ queued = 0 /\ at = "idle" =>
        \A k \in Loops : Alive(k) => loop[k].sock \notin m_socks

\* A server that was not restarted too early has a loop for each socket, and
\* while it is started nothing of an earlier stop() is under way.
Orderly ==
    ~restarted =>
        /\ ~aborted
        /\ \A j, k \in Loops : Alive(j) /\ Alive(k) /\ loop[j].sock = loop[k].sock => j = k
        /\ ~m_isStop => /\ queued = 0 /\ at = "idle"
                        /\ \A k \in Loops : Alive(k) => lstate[loop[k].sock] = "listening"

Inv == Types /\ Open /\ Owned /\ Missed /\ Through /\ Orderly

-----------------------------------------------------------------------------
(* Facts the steps below share.                                            *)

LEMMA TargetIsLeft ==
    ASSUME todo # {}
    PROVE  Target \in todo
BY DEF Target

LEMMA TargetStays ==
    ASSUME todo' = todo
    PROVE  Target' = Target
BY DEF Target

LEMMA InitInv ==
    ASSUME Init
    PROVE  Inv
<1>1. \A k \in Loops : loop[k] = Nothing /\ ~Alive(k) /\ loop[k].at # "parked"
  BY DEF Init, Alive, Nothing
<1>2. Types
  BY DEF Init, Types
<1>3. Open
  BY DEF Init, Open
<1>4. Owned /\ Missed /\ Through /\ Orderly
  BY <1>1 DEF Init, Owned, Missed, Through, Orderly
<1>5. QED
  BY <1>2, <1>3, <1>4 DEF Inv

-----------------------------------------------------------------------------
(* bind(), start() and stop().                                             *)

\* What Bind does with the new sockets of which those in ok could be bound.
BindEffect(new, ok) ==
    LET gone == IF ok = new THEN {} ELSE m_socks \cup new IN
    /\ m_socks' = (m_socks \cup ok) \ gone
    /\ dropped' = dropped \cup {l \in gone : Held(l)}
    /\ lstate' = [l \in Listeners |->
                    IF l \in gone THEN (IF Held(l) THEN lstate[l] ELSE "closed")
                    ELSE IF l \in new THEN "listening" ELSE lstate[l]]
    /\ Reset({l \in gone : ~Held(l)})

LEMMA BindKeeps ==
    ASSUME Inv, Bind
    PROVE  Inv'
<1> USE DEF Inv
<1>1. PICK new \in SUBSET {l \in Listeners : lstate[l] = "unbound"} : \E ok \in SUBSET new :
        BindEffect(new, ok)
  BY DEF Bind, BindEffect
<1>2. PICK ok \in SUBSET new : BindEffect(new, ok)
  BY <1>1
<1> DEFINE gone == IF ok = new THEN {} ELSE m_socks \cup new
<1>3. /\ m_socks' = (m_socks \cup ok) \ gone
      /\ dropped' = dropped \cup {l \in gone : Held(l)}
      /\ \A l \in Listeners : lstate'[l] =
            IF l \in gone THEN (IF Held(l) THEN lstate[l] ELSE "closed")
            ELSE IF l \in new THEN "listening" ELSE lstate[l]
      /\ Reset({l \in gone : ~Held(l)})
  BY <1>2 DEF BindEffect
<1>4. /\ at = "idle" /\ at' = "idle" /\ todo = {} /\ todo' = {}
      /\ loop' = loop /\ m_isStop' = m_isStop /\ queued' = queued
      /\ aborted' = aborted /\ restarted' = restarted /\ slipped' = slipped
  BY DEF Bind, Open
<1>5. new \subseteq Listeners /\ gone \subseteq Listeners /\ m_socks' \in SUBSET Listeners
  BY <1>3 DEF Types
<1>6. \A k \in Loops : Alive(k)' <=> Alive(k)
  BY <1>4 DEF Alive
<1>7. \A k \in Loops : Alive(k) => /\ loop[k].sock \in Listeners
                                   /\ Held(loop[k].sock)
                                   /\ loop[k].sock \notin new
  BY DEF Types, AcceptLoop, Alive, Nothing, Held, Owned
<1>8. Types'
  <2>1. lstate' \in [Listeners -> {"unbound", "listening", "closed"}]
    BY <1>2 DEF Types, BindEffect
  <2>2. client' \in [Clients -> {"none", "accepted", "reset"} \cup Listeners]
    BY <1>3 DEF Types, Reset
  <2>3. QED
    BY <1>4, <1>5, <2>1, <2>2 DEF Types
<1>9. Open'
  BY <1>3, <1>4, <1>5 DEF Open, Types
\* A socket that somebody holds stays as it is.
<1>10. \A k \in Loops : Alive(k) =>
         /\ lstate'[loop[k].sock] = lstate[loop[k].sock]
         /\ loop[k].sock \in m_socks => loop[k].sock \in m_socks' \/ loop[k].sock \in dropped'
         /\ loop[k].sock \in m_socks' => loop[k].sock \in m_socks
  BY <1>3, <1>7
<1>11. Owned'
  BY <1>3, <1>4, <1>6, <1>10 DEF Owned
<1>12. Missed'
  BY <1>3, <1>4, <1>10 DEF Missed, Alive
<1>13. Through'
  BY <1>4, <1>6, <1>10 DEF Through
<1>14. Orderly'
  BY <1>4, <1>6, <1>10 DEF Orderly
<1>15. QED
  BY <1>8, <1>9, <1>11, <1>12, <1>13, <1>14

LEMMA StartKeeps ==
    ASSUME MaxLoops \in Nat, Inv, Start
    PROVE  Inv'
<1> USE DEF Inv
<1> DEFINE used == Cardinality({k \in Loops : loop[k] # Nothing})
<1>1. PICK order \in [1..Cardinality(m_socks) -> m_socks] :
        /\ \A i, j \in DOMAIN order : order[i] = order[j] => i = j
        /\ loop' = [k \in Loops |-> IF k - used \in DOMAIN order
                                      THEN [sock |-> order[k - used], at |-> "queued"]
                                      ELSE loop[k]]
  BY DEF Start
<1>2. used \in Nat
  <2>1. IsFiniteSet(Loops)
    BY FS_Interval DEF Loops
  <2>2. IsFiniteSet({k \in Loops : loop[k] # Nothing})
    BY <2>1, FS_Subset
  <2>3. QED
    BY <2>2, FS_CardinalityType
<1> HIDE DEF used
<1>3. /\ m_isStop /\ m_isStop' = FALSE /\ ~aborted
      /\ restarted' = (restarted \/ queued > 0 \/ at # "idle" \/ \E k \in Loops : Alive(k))
      /\ UNCHANGED <<m_socks, lstate, queued, todo, at, client, aborted, dropped, slipped>>
  BY DEF Start
<1> DEFINE Begun(k) == k - used \in DOMAIN order
<1>4. \A k \in Loops : Begun(k) =>
         loop'[k].at = "queued" /\ loop'[k] \in AcceptLoop /\ loop'[k].sock \in m_socks
  <2> TAKE k \in Loops
  <2>1. ASSUME Begun(k)
        PROVE  loop'[k] = [sock |-> order[k - used], at |-> "queued"]
    BY <1>1, <2>1
  <2>2. ASSUME Begun(k)
        PROVE  order[k - used] \in m_socks
    BY <1>1, <2>2
  <2>3. m_socks \subseteq Listeners
    BY DEF Types
  <2>4. QED
    BY <2>1, <2>2, <2>3 DEF AcceptLoop
<1>5. \A k \in Loops : ~Begun(k) => loop'[k] = loop[k]
  BY <1>1
<1>6. \A j, k \in Loops : Begun(j) /\ Begun(k) /\ loop'[j].sock = loop'[k].sock => j = k
  <2> TAKE j, k \in Loops
  <2>1. ASSUME Begun(j), Begun(k), loop'[j].sock = loop'[k].sock
        PROVE  order[j - used] = order[k - used]
    BY <1>1, <2>1
  <2>2. ASSUME Begun(j), Begun(k), order[j - used] = order[k - used]
        PROVE  j - used = k - used
    BY <1>1, <2>2
  <2>3. j - used = k - used => j = k
    BY <1>2 DEF Loops
  <2>4. QED
    BY <2>1, <2>2, <2>3
<1> HIDE DEF Begun
<1>7. Types'
  <2>1. loop' \in [Loops -> AcceptLoop \cup {Nothing}]
    <3>1. \A k \in Loops : loop'[k] \in AcceptLoop \cup {Nothing}
      BY <1>4, <1>5 DEF Types, AcceptLoop
    <3>2. loop' = [k \in Loops |-> loop'[k]]
      BY <1>1
    <3>3. QED
      BY <3>1, <3>2
  <2>2. QED
    BY <1>3, <2>1 DEF Types
<1>8. Open'
  BY <1>3 DEF Open
<1>9. \A l \in m_socks : lstate[l] \in {"listening", "closed"}
  BY DEF Open
<1>10. Owned'
  BY <1>3, <1>4, <1>5, <1>9 DEF Owned, Alive
<1>11. Missed'
  BY <1>3, <1>4, <1>5, TargetStays DEF Missed
<1>12. Through'
  BY <1>3 DEF Through
<1>13. Orderly'
  <2>1. SUFFICES ASSUME ~restarted' PROVE Orderly'
    BY DEF Orderly
  <2>2. ~restarted /\ queued = 0 /\ at = "idle" /\ \A k \in Loops : ~Alive(k)
    <3>1. ~(restarted \/ queued > 0 \/ at # "idle" \/ \E k \in Loops : Alive(k))
      BY <1>3, <2>1
    <3>2. queued \in Nat
      BY DEF Types
    <3>3. queued = 0
      BY <3>1, <3>2
    <3>4. QED
      BY <3>1, <3>3
  <2>3. \A k \in Loops : Alive(k)' => Begun(k)
    BY <1>5, <2>2 DEF Alive
  <2>4. \A j, k \in Loops : Alive(j)' /\ Alive(k)' /\ loop'[j].sock = loop'[k].sock => j = k
    BY <1>4, <1>6, <2>3
  <2>5. \A k \in Loops : Alive(k)' => lstate'[loop'[k].sock] = "listening"
    <3>1. \A l \in m_socks : lstate[l] = "listening"
      BY <2>2 DEF Open
    <3>2. QED
      BY <1>3, <1>4, <2>3, <3>1
  <2>6. QED
    BY <1>3, <2>2, <2>4, <2>5 DEF Orderly
<1>14. QED
  BY <1>7, <1>8, <1>10, <1>11, <1>12, <1>13

LEMMA StopKeeps ==
    ASSUME Inv, Stop
    PROVE  Inv'
<1> USE DEF Inv, Stop
<1>1. Types' /\ queued' # 0
  BY DEF Types
<1>2. Open'
  BY DEF Open
<1>3. Owned' /\ Missed'
  BY TargetStays DEF Owned, Missed, Alive
<1>4. Through'
  BY <1>1 DEF Through
<1>5. Orderly'
  BY DEF Orderly, Alive
<1>6. QED
  BY <1>1, <1>2, <1>3, <1>4, <1>5

-----------------------------------------------------------------------------
(* The closing.                                                            *)

LEMMA BeginClosingKeeps ==
    ASSUME Inv, BeginClosing
    PROVE  Inv'
<1> USE DEF Inv, BeginClosing, Closing
<1>1. Types'
  BY DEF Types
<1>2. Open'
  BY DEF Open
<1>3. Owned' /\ Missed'
  BY DEF Owned, Missed, Alive
<1>4. Through'
  BY DEF Through
<1>5. Orderly'
  BY DEF Orderly, Alive, Types
<1>6. QED
  BY <1>1, <1>2, <1>3, <1>4, <1>5

LEMMA CancelAllKeeps ==
    ASSUME Inv, CancelAll
    PROVE  Inv'
<1> USE DEF Inv
<1>1. /\ at \in {"cancel", "close"} /\ todo # {} /\ ~aborted
      /\ at' = IF at = "cancel" THEN "close" ELSE "fd"
      /\ UNCHANGED <<m_isStop, aborted, restarted, dropped, m_socks, lstate, queued,
                     todo, client, slipped>>
  BY DEF CancelAll, Closing
<1>2. Target \in m_socks /\ Target' = Target /\ lstate[Target] = "listening"
  BY <1>1, TargetIsLeft, TargetStays DEF Open, Types
<1>3. Cancelled(Target)
  BY <1>2 DEF CancelAll
<1>4. \A k \in Loops :
         IF loop[k] = [sock |-> Target, at |-> "parked"]
         THEN loop'[k] = [sock |-> Target, at |-> "try"] ELSE loop'[k] = loop[k]
  BY <1>3 DEF Cancelled
<1>5. \A k \in Loops : (Alive(k)' <=> Alive(k)) /\ (Alive(k) => loop'[k].sock = loop[k].sock)
  BY <1>4 DEF Alive
<1>6. \A k \in Loops : loop'[k].at = "parked" => loop'[k] = loop[k] /\ loop[k].sock # Target
  BY <1>4 DEF Types, AcceptLoop, Nothing
<1>7. Types'
  <2>1. Target \in Listeners
    BY <1>2 DEF Types
  <2>2. loop' \in [Loops -> AcceptLoop \cup {Nothing}]
    BY <1>3, <2>1 DEF Types, Cancelled, AcceptLoop
  <2>3. QED
    BY <1>1, <2>2 DEF Types
<1>8. Open'
  BY <1>1 DEF Open
<1>9. Owned'
  BY <1>1, <1>5 DEF Owned
<1>10. Missed'
  BY <1>1, <1>2, <1>6 DEF Missed
<1>11. Through'
  BY <1>1 DEF Through
<1>12. Orderly'
  BY <1>1, <1>5 DEF Orderly
<1>13. QED
  BY <1>7, <1>8, <1>9, <1>10, <1>11, <1>12

LEMMA CloseFdKeeps ==
    ASSUME Inv, CloseFd
    PROVE  Inv'
<1> USE DEF Inv
<1>1. /\ at = "fd" /\ at' = "cancel"
      /\ lstate' = [lstate EXCEPT ![Target] = "closed"]
      /\ todo' = todo \ {Target}
      /\ Reset({Target})
      /\ UNCHANGED <<m_isStop, aborted, restarted, dropped, m_socks, loop, queued, slipped>>
  BY DEF CloseFd, Closing
<1>2. Target \in m_socks /\ Target \in Listeners
  BY <1>1, TargetIsLeft DEF Open, Types
<1>3. \A l \in Listeners : lstate'[l] = IF l = Target THEN "closed" ELSE lstate[l]
  BY <1>1, <1>2 DEF Types
<1>4. \A k \in Loops : Alive(k)' <=> Alive(k)
  BY <1>1 DEF Alive
<1>5. \A k \in Loops : Alive(k) => loop[k].sock \in Listeners
  BY DEF Alive, Types, AcceptLoop, Nothing
<1>6. Types'
  BY <1>1 DEF Types, Reset
<1>7. Open'
  BY <1>1, <1>2, <1>3 DEF Open, Types
<1>8. Owned'
  BY <1>1, <1>3, <1>4, <1>5 DEF Owned
<1>9. Missed'
  BY <1>1, <1>3, <1>5 DEF Missed, Alive
<1>10. Through' /\ Orderly'
  BY <1>1, <1>4 DEF Through, Orderly
<1>11. QED
  BY <1>6, <1>7, <1>8, <1>9, <1>10

LEMMA EndClosingKeeps ==
    ASSUME Inv, EndClosing
    PROVE  Inv'
<1> USE DEF Inv, EndClosing, Closing
<1>1. Types' /\ Open'
  BY DEF Types, Open
<1>2. \A l \in m_socks : lstate[l] = "closed"
  BY DEF Open
<1>3. Owned' /\ Missed'
  BY <1>2 DEF Owned, Missed, Alive
<1>4. Through'
  BY DEF Through
<1>5. Orderly'
  BY DEF Orderly, Alive
<1>6. QED
  BY <1>1, <1>3, <1>4, <1>5

-----------------------------------------------------------------------------
(* The accept loops.                                                       *)

\* What a step of one loop leaves alone.
LEMMA LoopStepFacts ==
    ASSUME Inv, NEW k \in Loops, Alive(k),
           NEW a \in {"test", "try", "add", "parked", "ended"}, LoopStep(k, a)
    PROVE  /\ ~aborted
           /\ UNCHANGED <<m_isStop, m_socks, queued, todo, at, restarted, dropped>>
           /\ Target' = Target
           /\ loop' \in [Loops -> AcceptLoop \cup {Nothing}]
           /\ loop'[k] = [sock |-> loop[k].sock, at |-> a]
           /\ \A j \in Loops : j # k => loop'[j] = loop[j]
           /\ \A j \in Loops : Alive(j)' =>
                Alive(j) /\ loop'[j].sock = loop[j].sock /\ loop[j].sock \in Listeners
           /\ a # "ended" => \A j \in Loops : Alive(j)' <=> Alive(j)
<1>1. loop' = [loop EXCEPT ![k].at = a] /\ ~aborted
      /\ UNCHANGED <<m_isStop, m_socks, queued, todo, at, restarted, dropped>>
  BY DEF LoopStep
<1>2. loop \in [Loops -> AcceptLoop \cup {Nothing}] /\ loop[k] \in AcceptLoop
  BY DEF Inv, Types, Alive, Nothing
<1>3. loop'[k] = [sock |-> loop[k].sock, at |-> a] /\ loop'[k] \in AcceptLoop
  BY <1>1, <1>2 DEF AcceptLoop
<1>4. \A j \in Loops : j # k => loop'[j] = loop[j]
  BY <1>1, <1>2
<1>5. loop' \in [Loops -> AcceptLoop \cup {Nothing}]
  <2>1. loop' = [j \in Loops |-> loop'[j]]
    BY <1>1, <1>2
  <2>2. \A j \in Loops : loop'[j] \in AcceptLoop \cup {Nothing}
    BY <1>2, <1>3, <1>4
  <2>3. QED
    BY <2>1, <2>2
<1>6. \A j \in Loops : Alive(j) => loop[j].sock \in Listeners
  BY <1>2 DEF Alive, AcceptLoop, Nothing
<1>7. \A j \in Loops : Alive(j)' => Alive(j) /\ loop'[j].sock = loop[j].sock
  BY <1>3, <1>4 DEF Alive
<1>8. a # "ended" => \A j \in Loops : Alive(j)' <=> Alive(j)
  BY <1>3, <1>4 DEF Alive
<1>9. QED
  BY <1>1, <1>3, <1>4, <1>5, <1>6, <1>7, <1>8, TargetStays

\* A step that neither closes a socket nor registers nor fails.
LEMMA QuietStepKeeps ==
    ASSUME Inv, NEW k \in Loops, Alive(k),
           NEW a \in {"test", "try", "add", "ended"}, LoopStep(k, a),
           UNCHANGED <<lstate, aborted, slipped>>,
           client' \in [Clients -> {"none", "accepted", "reset"} \cup Listeners]
    PROVE  Inv'
<1> USE DEF Inv
<1>1. Types' /\ Open'
  BY LoopStepFacts DEF Types, Open
<1>2. Owned'
  BY LoopStepFacts DEF Owned
<1>3. Missed'
  <2>1. loop'[k] = [sock |-> loop[k].sock, at |-> a]
    BY LoopStepFacts
  <2>2. loop'[k].at # "parked"
    BY <2>1
  <2>3. \A j \in Loops : loop'[j].at = "parked" => loop'[j] = loop[j]
    BY <2>2, LoopStepFacts
  <2>4. QED
    BY <2>3, LoopStepFacts DEF Missed
<1>4. Through'
  BY LoopStepFacts DEF Through
<1>5. Orderly'
  BY LoopStepFacts DEF Orderly
<1>6. QED
  BY <1>1, <1>2, <1>3, <1>4, <1>5

LEMMA LoopTestKeeps ==
    ASSUME Inv, NEW k \in Loops, LoopTest(k)
    PROVE  Inv'
<1> USE DEF Inv
<1>1. Alive(k) /\ UNCHANGED <<aborted, slipped>>
  BY DEF LoopTest, Alive
<1>2. CASE ~m_isStop
  <2>1. LoopStep(k, "try") /\ UNCHANGED <<lstate, client>>
    BY <1>2 DEF LoopTest
  <2>2. client' \in [Clients -> {"none", "accepted", "reset"} \cup Listeners]
    BY <2>1 DEF Types
  <2>3. QED
    BY <1>1, <2>1, <2>2, QuietStepKeeps
<1>3. CASE m_isStop
  <2> DEFINE l == loop[k].sock
  <2>1. LoopStep(k, "ended") /\ LoopEnds(k)
    BY <1>3 DEF LoopTest
  <2>2. l \in Listeners
    BY <1>1 DEF Types, AcceptLoop, Alive, Nothing
  <2>3. client' \in [Clients -> {"none", "accepted", "reset"} \cup Listeners]
    BY <2>1, <2>2 DEF LoopEnds, Reset, Types
  <2>4. CASE lstate' = lstate
    BY <1>1, <2>1, <2>3, <2>4, QuietStepKeeps
  <2>5. CASE lstate' # lstate
    <3>1. /\ l \notin m_socks
          /\ \A j \in Loops : j # k /\ Alive(j) => loop[j].sock # l
          /\ lstate' = [lstate EXCEPT ![l] = "closed"]
      BY <2>1, <2>5 DEF LoopEnds
    <3>2. \A m \in Listeners : m # l => lstate'[m] = lstate[m]
      BY <3>1 DEF Types
    <3>3. lstate' \in [Listeners -> {"unbound", "listening", "closed"}]
      BY <3>1 DEF Types
    <3>4. loop'[k] = [sock |-> l, at |-> "ended"]
      BY <1>1, <2>1, LoopStepFacts
    <3>5. ~Alive(k)'
      BY <3>4 DEF Alive
    <3>6. \A j \in Loops : Alive(j)' => j # k /\ loop'[j] = loop[j] /\ Alive(j)
                                        /\ loop[j].sock \in Listeners /\ loop[j].sock # l
      BY <1>1, <2>1, <3>1, <3>5, LoopStepFacts
    <3>7. /\ UNCHANGED <<m_isStop, m_socks, queued, todo, at, restarted, dropped>>
          /\ Target' = Target
          /\ loop' \in [Loops -> AcceptLoop \cup {Nothing}]
      BY <1>1, <2>1, LoopStepFacts
    <3>8. Types'
      BY <1>1, <2>3, <3>3, <3>7 DEF Types
    <3>9. Open'
      BY <3>1, <3>2, <3>7 DEF Open, Types
    <3>10. Owned'
      BY <3>2, <3>6, <3>7 DEF Owned
    <3>11. Missed'
      BY <1>1, <3>2, <3>6, <3>7 DEF Missed, Alive
    <3>12. Through'
      BY <3>6, <3>7 DEF Through
    <3>13. Orderly'
      BY <1>1, <1>3, <3>6, <3>7 DEF Orderly
    <3>14. QED
      BY <3>8, <3>9, <3>10, <3>11, <3>12, <3>13
  <2>6. QED
    BY <2>4, <2>5
<1>4. QED
  BY <1>2, <1>3

LEMMA AcceptKeeps ==
    ASSUME Inv, NEW k \in Loops, Accept(k)
    PROVE  Inv'
<1>1. Alive(k) /\ UNCHANGED <<lstate, aborted, slipped>>
  BY DEF Accept, Alive
<1>2. LoopStep(k, "test") \/ LoopStep(k, "add")
  BY DEF Accept
<1>3. client' \in [Clients -> {"none", "accepted", "reset"} \cup Listeners]
  BY DEF Accept, Inv, Types, Waiting
<1>4. QED
  BY <1>1, <1>2, <1>3, QuietStepKeeps

LEMMA ReportKeeps ==
    ASSUME Inv, NEW k \in Loops, Report(k)
    PROVE  Inv'
<1>1. Alive(k) /\ LoopStep(k, "try") /\ UNCHANGED <<lstate, client, aborted, slipped>>
  BY DEF Report, Alive
<1>2. client' \in [Clients -> {"none", "accepted", "reset"} \cup Listeners]
  BY <1>1 DEF Inv, Types
<1>3. QED
  BY <1>1, <1>2, QuietStepKeeps

LEMMA AddEventKeeps ==
    ASSUME Inv, NEW k \in Loops, AddEvent(k)
    PROVE  Inv'
<1> USE DEF Inv
<1> DEFINE l == loop[k].sock
<1>1. Alive(k) /\ UNCHANGED <<lstate, client>>
  BY DEF AddEvent, Alive
<1>2. client' \in [Clients -> {"none", "accepted", "reset"} \cup Listeners]
  BY <1>1 DEF Types
<1>3. CASE lstate[l] = "closed"
  <2>1. LoopStep(k, "test") /\ UNCHANGED <<aborted, slipped>>
    BY <1>3 DEF AddEvent
  <2>2. QED
    BY <1>1, <1>2, <2>1, QuietStepKeeps
<1>4. CASE lstate[l] # "closed"
  <2>1. /\ LoopStep(k, "parked")
        /\ aborted' = \E j \in Loops \ {k} : loop[j] = [sock |-> l, at |-> "parked"]
        /\ slipped' = IF at = "fd" /\ Target = l THEN slipped \cup {k} ELSE slipped
    BY <1>4 DEF AddEvent
  <2>2. /\ UNCHANGED <<m_isStop, m_socks, queued, todo, at, restarted, dropped>>
        /\ Target' = Target
        /\ loop' \in [Loops -> AcceptLoop \cup {Nothing}]
        /\ loop'[k] = [sock |-> l, at |-> "parked"]
        /\ \A j \in Loops : j # k => loop'[j] = loop[j]
        /\ \A j \in Loops : (Alive(j)' <=> Alive(j))
        /\ \A j \in Loops : Alive(j) => loop'[j].sock = loop[j].sock
    BY <1>1, <2>1, LoopStepFacts
  <2>3. aborted' \in BOOLEAN
    BY <2>1
  <2>4. Types' /\ Open'
    BY <1>1, <1>2, <2>2, <2>3 DEF Types, Open
  <2>5. Owned'
    BY <1>1, <2>2 DEF Owned
  <2>6. Missed'
    BY <1>1, <1>4, <2>1, <2>2 DEF Missed
  <2>7. Through'
    BY <2>2 DEF Through
  <2>8. ~restarted => ~aborted'
    <3>1. SUFFICES ASSUME ~restarted, NEW j \in Loops \ {k},
                          loop[j] = [sock |-> l, at |-> "parked"]
                   PROVE  FALSE
      BY <2>1
    <3>2. Alive(j) /\ loop[j].sock = l
      BY <3>1 DEF Alive
    <3>3. QED
      BY <1>1, <3>1, <3>2 DEF Orderly
  <2>9. Orderly'
    BY <1>1, <2>2, <2>8 DEF Orderly
  <2>10. QED
    BY <2>4, <2>5, <2>6, <2>7, <2>9
<1>5. QED
  BY <1>3, <1>4

LEMMA ConnectKeeps ==
    ASSUME Inv, NEW c \in Clients, Connect(c)
    PROVE  Inv'
<1> USE DEF Inv
<1>1. /\ UNCHANGED <<m_isStop, m_socks, lstate, loop, stops, queued, todo, at,
                     aborted, restarted, dropped, slipped>>
      /\ client' \in [Clients -> {"none", "accepted", "reset"} \cup Listeners]
  BY DEF Connect, Types
<1>2. Types' /\ Open'
  BY <1>1 DEF Types, Open
<1>3. Owned' /\ Missed' /\ Through' /\ Orderly'
  BY <1>1, TargetStays DEF Owned, Missed, Through, Orderly, Alive
<1>4. QED
  BY <1>2, <1>3

-----------------------------------------------------------------------------
LEMMA NextInv ==
    ASSUME MaxLoops \in Nat, Inv, [Next]_vars
    PROVE  Inv'
<1>1. CASE Next
  BY <1>1, BindKeeps, StartKeeps, StopKeeps, BeginClosingKeeps, CancelAllKeeps,
     CloseFdKeeps, EndClosingKeeps, LoopTestKeeps, AcceptKeeps, AddEventKeeps,
     ReportKeeps, ConnectKeeps DEF Next
<1>2. CASE UNCHANGED vars
  <2>1. Types' /\ Open'
    BY <1>2 DEF vars, Inv, Types, Open
  <2>2. Owned' /\ Missed' /\ Through' /\ Orderly'
    BY <1>2, TargetStays DEF vars, Inv, Owned, Missed, Through, Orderly, Alive
  <2>3. QED
    BY <2>1, <2>2 DEF Inv
<1>3. QED
  BY <1>1, <1>2

\* The conjunctions above hold in every state of TcpServer, so of the accept
\* loops and the closings of tcp_server.cc.
THEOREM Invariance ==
    ASSUME MaxLoops \in Nat
    PROVE  Spec => []Inv
<1>1. Init => Inv
  BY InitInv
<1>2. Inv /\ [Next]_vars => Inv'
  BY NextInv
<1>3. QED
  BY <1>1, <1>2, PTL DEF Spec

\* TypeOK holds in every state of TcpServer.
THEOREM TypeCorrect ==
    ASSUME MaxLoops \in Nat
    PROVE  Spec => []TypeOK
<1>1. Inv => TypeOK
  BY DEF Inv, Types, AcceptLoop, Nothing, TypeOK
<1>2. QED
  BY <1>1, Invariance, PTL

\* TcpServer::stop(), tcp_server.cc:134, reaches every accept loop: when what
\* it has scheduled is through, none waits but for those StopReachesEveryLoop
\* excepts, and unless the server was restarted too early no two loops meet at
\* one socket and none spins on a closed one.
THEOREM StopReaches ==
    ASSUME MaxLoops \in Nat
    PROVE  Spec => []StopReachesEveryLoop
<1>1. ASSUME Inv
      PROVE  StopReachesEveryLoop
  <2> USE DEF Inv
  <2>1. ASSUME m_isStop, queued = 0, at = "idle", NEW k \in Loops, loop[k].at = "parked"
        PROVE  loop[k].sock \in dropped \/ k \in slipped
    <3>1. Alive(k)
      BY <2>1 DEF Alive
    <3>2. lstate[loop[k].sock] = "closed" \/ loop[k].sock \in dropped
      BY <1>1, <2>1, <3>1 DEF Through, Owned
    <3>3. QED
      BY <1>1, <2>1, <3>2 DEF Missed
  <2>2. aborted => restarted
    BY <1>1 DEF Orderly
  <2>3. ASSUME NEW k \in Loops, ~m_isStop, Alive(k), lstate[loop[k].sock] = "closed"
        PROVE  restarted
    BY <1>1, <2>3 DEF Orderly
  <2>4. QED
    BY <2>1, <2>2, <2>3 DEF StopReachesEveryLoop
<1>2. QED
  BY <1>1, Invariance, PTL

-----------------------------------------------------------------------------
(* HookIo: the hooked calls and the table of descriptors.                  *)

CONSTANTS Fibers, NoFiber, Fds, MaxSockets, MaxCalls, MaxRounds, MaxLate

VARIABLES sock, made, conn, nonblock, table_size, contexts, unhooked,
          waiter, woken, armed, fired, cancels, expired, cancelled, pc,
          call, calls, closed, result

Hook == INSTANCE HookIo WITH m_datas <- contexts, size <- table_size

CallType ==
    [kind : {"none", "socket", "close", "direct", "io", "connect"},
     fd : Fds \cup {0}, sock : {Hook!Closed} \cup Hook!Sockets, event : Hook!Event \cup {"NONE"},
     timed : BOOLEAN, round : Nat, cause : {"no", "event", "cancel", "error"},
     early : BOOLEAN]

TimerType ==
    [fiber : Fibers, call : 1..MaxCalls, round : Nat, fd : Fds, event : Hook!Event]

CtxType == [sock : {Hook!Closed} \cup Hook!Sockets, userNonblock : BOOLEAN, timeout : BOOLEAN]

Places == {"idle", "lookup", "create", "del", "close", "try", "arm", "add",
           "parked", "sockopt", "aborted"}

\* The places of a call that makes or closes its descriptor.
Making == {"lookup", "create", "del", "close"}

SockTypes ==
    /\ sock \in [Fds -> {Hook!Closed} \cup Hook!Sockets]
    /\ \A fd \in Fds : sock[fd] \in 0..made
    /\ made \in 0..MaxSockets
    /\ conn \in [Hook!Sockets -> {"new", "progress", "ok", "refused"}]
    /\ nonblock \subseteq Hook!Sockets

WaitTypes ==
    /\ waiter \in [Fds -> [Hook!Event -> [fiber : Fibers \cup {NoFiber},
                                     sock : {Hook!Closed} \cup Hook!Sockets]]]
    /\ woken \in [Fibers -> {"no", "event", "cancel"}]

TimerTypes ==
    /\ armed \subseteq TimerType /\ fired \subseteq TimerType
    /\ cancels \subseteq TimerType
    /\ expired \subseteq Fibers

FiberTypes ==
    /\ pc \in [Fibers -> Places]
    /\ call \in [Fibers -> CallType]
    /\ calls \in [Fibers -> 0..MaxCalls]
    /\ closed \subseteq Fibers
    /\ result \in [Fibers -> {"none", "ok", "EBADF", "ENOENT", "EAGAIN", "ETIMEDOUT",
                             "refused"}]
    /\ cancelled \in [Fibers -> BOOLEAN]

\* Which call a fiber is in, by where it is.
InCall ==
    \A f \in Fibers :
      /\ pc[f] # "idle" => call[f].fd \in Fds /\ calls[f] > 0 /\ result[f] = "none"
      /\ pc[f] \in {"lookup", "create"} => call[f].kind = "socket"
      /\ pc[f] \in {"del", "close"} => call[f].kind = "close"
      /\ pc[f] = "try" => call[f].kind \in {"direct", "io"}
      /\ pc[f] \in {"arm", "add", "parked"} => call[f].kind \in {"io", "connect"}
      /\ pc[f] = "sockopt" => call[f].kind = "connect"
      /\ call[f].kind \in {"none", "socket", "close"} <=> call[f].event = "NONE"

\* One call at a time makes or closes a descriptor.
OneCaller ==
    \A f, g \in Fibers :
      f # g /\ pc[f] \in Making /\ pc[g] \in Making => call[f].fd # call[g].fd

\* A call works on the socket it began with until somebody calls close(); one
\* that makes the descriptor began without any.
SameSocket ==
    \A f \in Fibers :
      /\ pc[f] \in Making =>
           /\ sock[call[f].fd] # Hook!Closed
           /\ call[f].sock \in {sock[call[f].fd], Hook!Closed}
      /\ pc[f] \in Places \ (Making \cup {"idle"}) /\ f \notin closed
           => sock[call[f].fd] = call[f].sock /\ call[f].sock # Hook!Closed

\* The table: entries beyond its size are empty, and so is one that is
\* about to lose its socket; the others are of the socket behind the number,
\* but for the numbers that were closed without hooks.
Table ==
    /\ table_size \in Nat /\ table_size >= 64
    /\ contexts \in [Fds -> CtxType]
    /\ unhooked \subseteq Fds
    /\ \A fd \in Fds : contexts[fd] # Hook!NoCtx => fd < table_size
    /\ \A fd \in Fds \ unhooked : contexts[fd] # Hook!NoCtx =>
         contexts[fd].sock = sock[fd] /\ sock[fd] # Hook!Closed
    /\ \A f \in Fibers : pc[f] = "close" => contexts[call[f].fd] = Hook!NoCtx

\* Registered fibers are parked; a parked fiber that nothing has scheduled is
\* registered, and watched unless its descriptor was closed.
HookWaiting ==
    /\ \A fd \in Fds : \A e \in Hook!Event : waiter[fd][e] # Hook!Nobody =>
         LET f == waiter[fd][e].fiber IN
           /\ f \in Fibers /\ pc[f] = "parked" /\ woken[f] = "no"
           /\ call[f].fd = fd /\ call[f].event = e
    /\ \A f \in Fibers : woken[f] # "no" => pc[f] = "parked"
    /\ \A f \in Fibers : pc[f] = "parked" /\ woken[f] = "no" /\ f \notin closed =>
         waiter[call[f].fd][call[f].event] = [fiber |-> f, sock |-> sock[call[f].fd]]

\* Timers name the call that made them; one of the present call that has
\* expired is in the history.
Timers ==
    /\ \A x \in armed \cup fired \cup cancels :
         /\ x.call <= calls[x.fiber]
         /\ x.call = calls[x.fiber] /\ pc[x.fiber] # "idle" =>
              x.fd = call[x.fiber].fd /\ x.event = call[x.fiber].event
    /\ \A x \in fired \cup cancels : x.call = calls[x.fiber] => x.fiber \in expired
    /\ \A f \in Fibers : cancelled[f] => f \in expired
    /\ \A f \in Fibers : result[f] = "ETIMEDOUT" => f \in expired

\* connect(): the connection is under way, and has ended when the event loop
\* has reported it.
Connecting ==
    \A f \in Fibers : call[f].kind = "connect" =>
      /\ call[f].sock \in 1..made
      /\ conn[call[f].sock] # "new"
      /\ pc[f] = "parked" /\ woken[f] = "event" /\ f \notin closed
           => conn[call[f].sock] # "progress"
      /\ pc[f] = "sockopt" /\ f \notin closed /\ call[f].cause \notin {"cancel", "error"}
           => conn[call[f].sock] # "progress"
      /\ result[f] = "ok" =>
           conn[call[f].sock] = "ok" \/ f \in closed \/ call[f].cause \in {"cancel", "error"}

HookInv ==
    /\ SockTypes /\ WaitTypes /\ TimerTypes /\ FiberTypes
    /\ InCall /\ OneCaller /\ SameSocket /\ Table /\ HookWaiting /\ Timers
    /\ Hook!OnlyEarlyTimersStrand /\ Connecting

-----------------------------------------------------------------------------
(* The steps of a fiber, pointwise.                                        *)

\* Nothing of another fiber's call changes.
Rest(f) ==
    \A g \in Fibers : g # f =>
      /\ pc'[g] = pc[g] /\ call'[g] = call[g] /\ calls'[g] = calls[g]
      /\ result'[g] = result[g] /\ cancelled'[g] = cancelled[g]

\* The fibers that are parked stay so.
ParkedStay ==
    \A g \in Fibers :
      /\ pc'[g] = "parked" <=> pc[g] = "parked"
      /\ pc[g] = "parked" =>
           /\ call'[g] = call[g] /\ calls'[g] = calls[g]
           /\ cancelled'[g] = cancelled[g]
           /\ g \in closed => g \in closed'

LEMMA NoCallType == Hook!NoCall \in CallType /\ Hook!NoCtx \in CtxType
BY DEF Hook!NoCall, Hook!NoCtx, CallType, CtxType, Hook!Closed

LEMMA EnterFacts ==
    ASSUME FiberTypes, SockTypes, MaxCalls \in Nat, NEW f \in Fibers,
           NEW k \in {"none", "socket", "close", "direct", "io", "connect"},
           NEW fd \in Fds, NEW e \in Hook!Event \cup {"NONE"}, NEW timed \in BOOLEAN,
           NEW l \in Places, Hook!Enter(f, k, fd, e, timed, l), closed' \subseteq Fibers
    PROVE  /\ FiberTypes' /\ Rest(f)
           /\ pc[f] = "idle" /\ pc'[f] = l
           /\ call'[f].kind = k /\ call'[f].fd = fd /\ call'[f].sock = sock[fd]
           /\ call'[f].event = e
           /\ calls'[f] = calls[f] + 1 /\ calls[f] \in Nat
           /\ ~cancelled'[f] /\ result'[f] = "none"
           /\ expired' = expired \ {f}
<1> DEFINE c == [Hook!NoCall EXCEPT !.kind = k, !.fd = fd, !.sock = sock[fd],
                               !.event = e, !.timed = timed]
<1>1. /\ pc[f] = "idle" /\ calls[f] < MaxCalls
      /\ call' = [call EXCEPT ![f] = c]
      /\ calls' = [calls EXCEPT ![f] = calls[f] + 1]
      /\ cancelled' = [cancelled EXCEPT ![f] = FALSE]
      /\ result' = [result EXCEPT ![f] = "none"]
      /\ expired' = expired \ {f}
      /\ pc' = [pc EXCEPT ![f] = l]
  BY DEF Hook!Enter, Hook!Goto
<1>2. sock[fd] \in {Hook!Closed} \cup Hook!Sockets
  BY DEF SockTypes
<1>3. /\ c \in CallType /\ c.kind = k /\ c.fd = fd /\ c.sock = sock[fd] /\ c.event = e
  BY <1>2 DEF Hook!NoCall, CallType
<1> HIDE DEF c
<1>4. calls[f] \in Nat /\ calls[f] + 1 \in 0..MaxCalls
  BY <1>1 DEF FiberTypes
<1>5. FiberTypes'
  BY <1>1, <1>3, <1>4 DEF FiberTypes
<1>6. QED
  BY <1>1, <1>3, <1>4, <1>5 DEF FiberTypes, Rest

LEMMA ReturnFacts ==
    ASSUME FiberTypes, NEW f \in Fibers,
           NEW r \in {"none", "ok", "EBADF", "ENOENT", "EAGAIN", "ETIMEDOUT", "refused"},
           Hook!Return(f, r)
    PROVE  /\ FiberTypes' /\ Rest(f)
           /\ pc'[f] = "idle" /\ result'[f] = r /\ ~cancelled'[f]
           /\ calls' = calls
           /\ call[f].kind = "connect" /\ r = "ok"
                => call'[f] = call[f] /\ closed' = closed
           /\ ~(call[f].kind = "connect" /\ r = "ok")
                => call'[f] = Hook!NoCall /\ closed' = closed \ {f}
<1>1. /\ result' = [result EXCEPT ![f] = r]
      /\ cancelled' = [cancelled EXCEPT ![f] = FALSE]
      /\ pc' = [pc EXCEPT ![f] = "idle"]
      /\ calls' = calls
  BY DEF Hook!Return, Hook!Goto
<1>2. CASE call[f].kind = "connect" /\ r = "ok"
  <2>1. call' = call /\ closed' = closed
    BY <1>2 DEF Hook!Return
  <2>2. QED
    BY <1>1, <1>2, <2>1 DEF FiberTypes, Rest, Places
<1>3. CASE ~(call[f].kind = "connect" /\ r = "ok")
  <2>1. call' = [call EXCEPT ![f] = Hook!NoCall] /\ closed' = closed \ {f}
    BY <1>3 DEF Hook!Return
  <2>2. QED
    BY <1>1, <1>3, <2>1, NoCallType DEF FiberTypes, Rest, Places
<1>4. QED
  BY <1>2, <1>3

LEMMA StepFacts ==
    ASSUME FiberTypes, NEW f \in Fibers, NEW l \in Places, Hook!Step(f, l)
    PROVE  /\ FiberTypes' /\ Rest(f) /\ pc'[f] = l
           /\ UNCHANGED <<call, calls, closed, result, cancelled>>
BY DEF FiberTypes, Hook!Step, Hook!Goto, Rest

\* Timers and events of the fibers that are parked are left alone by a step
\* of another fiber.
LEMMA StayWaiting ==
    ASSUME HookWaiting, FiberTypes, SameSocket, WaitTypes, ParkedStay, UNCHANGED Hook!waitVars,
           \A g \in Fibers : pc[g] = "parked" /\ g \notin closed' =>
               sock'[call[g].fd] = sock[call[g].fd]
    PROVE  HookWaiting' /\ WaitTypes'
BY DEF HookWaiting, ParkedStay, Hook!waitVars, WaitTypes

LEMMA StayEarly ==
    ASSUME Hook!OnlyEarlyTimersStrand, ParkedStay, UNCHANGED cancels,
           \A g \in Fibers : woken'[g] = "no" => woken[g] = "no"
    PROVE  Hook!OnlyEarlyTimersStrand'
BY DEF Hook!OnlyEarlyTimersStrand, ParkedStay, Hook!Overdue, Hook!Cancelling

\* Waking takes fibers out of the registrations they were parked in.
LEMMA WakeFacts ==
    ASSUME HookWaiting, WaitTypes, NoFiber \notin Fibers, NEW fd \in Fds,
           NEW es \in SUBSET Hook!Watched(fd), NEW cause \in {"event", "cancel"},
           Hook!Wake(fd, es, cause)
    PROVE  /\ WaitTypes'
           /\ \A d \in Fds : \A e \in Hook!Event :
                waiter'[d][e] = IF d = fd /\ e \in es THEN Hook!Nobody ELSE waiter[d][e]
           /\ \A g \in Fibers : woken'[g] \in {woken[g], cause}
           /\ \A g \in Fibers : woken'[g] # woken[g] =>
                pc[g] = "parked" /\ woken[g] = "no" /\ call[g].fd = fd /\ call[g].event \in es
           /\ \A g \in Fibers : \A e \in es : waiter[fd][e].fiber = g => woken'[g] = cause
<1>1. es \subseteq Hook!Event
  BY DEF Hook!Watched
<1>2. waiter' = [waiter EXCEPT ![fd] =
                   [e \in Hook!Event |-> IF e \in es THEN Hook!Nobody ELSE waiter[fd][e]]]
  BY DEF Hook!Wake
<1>3. woken' = [g \in Fibers |-> IF g \in {waiter[fd][e].fiber : e \in es}
                                   THEN cause ELSE woken[g]]
  BY DEF Hook!Wake
<1>4. \A d \in Fds : \A e \in Hook!Event :
        waiter'[d][e] = IF d = fd /\ e \in es THEN Hook!Nobody ELSE waiter[d][e]
  BY <1>2 DEF WaitTypes
<1>5. Hook!Nobody \in [fiber : Fibers \cup {NoFiber}, sock : {Hook!Closed} \cup Hook!Sockets]
  BY DEF Hook!Nobody
<1>6. [e \in Hook!Event |-> IF e \in es THEN Hook!Nobody ELSE waiter[fd][e]]
        \in [Hook!Event -> [fiber : Fibers \cup {NoFiber}, sock : {Hook!Closed} \cup Hook!Sockets]]
  BY <1>5 DEF WaitTypes
<1>7. WaitTypes'
  BY <1>2, <1>3, <1>6 DEF WaitTypes
<1>8. \A g \in Fibers : \A e \in es : waiter[fd][e].fiber = g => woken'[g] = cause
  BY <1>3
<1>9. \A g \in Fibers : woken'[g] # woken[g] =>
        pc[g] = "parked" /\ woken[g] = "no" /\ call[g].fd = fd /\ call[g].event \in es
  <2> SUFFICES ASSUME NEW g \in Fibers, woken'[g] # woken[g]
               PROVE  pc[g] = "parked" /\ woken[g] = "no" /\ call[g].fd = fd
                        /\ call[g].event \in es
    OBVIOUS
  <2>1. PICK e \in es : waiter[fd][e].fiber = g
    BY <1>3
  <2>2. e \in Hook!Event /\ waiter[fd][e] # Hook!Nobody
    BY <1>1, <2>1 DEF Hook!Watched
  <2>3. QED
    BY <2>1, <2>2 DEF HookWaiting
<1>10. QED
  BY <1>3, <1>4, <1>7, <1>8, <1>9

LEMMA WakeWaiting ==
    ASSUME HookWaiting, WaitTypes, FiberTypes, InCall, OneCaller, NoFiber \notin Fibers,
           NEW fd \in Fds, NEW es \in SUBSET Hook!Watched(fd), NEW cause \in {"event", "cancel"},
           Hook!Wake(fd, es, cause), ParkedStay, UNCHANGED sock
    PROVE  HookWaiting'
<1>1. /\ WaitTypes'
      /\ \A d \in Fds : \A e \in Hook!Event :
           waiter'[d][e] = IF d = fd /\ e \in es THEN Hook!Nobody ELSE waiter[d][e]
      /\ \A g \in Fibers : woken'[g] \in {woken[g], cause}
      /\ \A g \in Fibers : woken'[g] # woken[g] =>
           pc[g] = "parked" /\ woken[g] = "no" /\ call[g].fd = fd /\ call[g].event \in es
      /\ \A g \in Fibers : \A e \in es : waiter[fd][e].fiber = g => woken'[g] = cause
  BY WakeFacts
<1>2. es \subseteq Hook!Event
  BY DEF Hook!Watched
<1>3. ASSUME NEW d \in Fds, NEW e \in Hook!Event, waiter'[d][e] # Hook!Nobody
      PROVE  LET g == waiter'[d][e].fiber IN
               /\ g \in Fibers /\ pc'[g] = "parked" /\ woken'[g] = "no"
               /\ call'[g].fd = d /\ call'[g].event = e
  <2>1. waiter'[d][e] = waiter[d][e] /\ ~(d = fd /\ e \in es)
    BY <1>1, <1>3
  <2>2. PICK g \in Fibers : g = waiter[d][e].fiber /\ pc[g] = "parked" /\ woken[g] = "no"
                              /\ call[g].fd = d /\ call[g].event = e
    BY <1>3, <2>1 DEF HookWaiting
  <2>3. woken'[g] = "no"
    BY <1>1, <2>1, <2>2
  <2>4. QED
    BY <2>1, <2>2, <2>3 DEF ParkedStay
<1>4. \A g \in Fibers : woken'[g] # "no" => pc'[g] = "parked"
  BY <1>1 DEF ParkedStay, HookWaiting
<1>5. ASSUME NEW g \in Fibers, pc'[g] = "parked", woken'[g] = "no", g \notin closed'
      PROVE  waiter'[call'[g].fd][call'[g].event] = [fiber |-> g, sock |-> sock'[call'[g].fd]]
  <2>1. pc[g] = "parked" /\ call'[g] = call[g] /\ g \notin closed
    BY <1>5 DEF ParkedStay
  <2>2. woken[g] = "no"
    BY <1>1, <1>5
  <2>3. waiter[call[g].fd][call[g].event] = [fiber |-> g, sock |-> sock[call[g].fd]]
    BY <2>1, <2>2 DEF HookWaiting
  <2>4. call[g].fd \in Fds /\ call[g].event \in Hook!Event
    BY <2>1 DEF InCall, FiberTypes, CallType
  <2>5. ~(call[g].fd = fd /\ call[g].event \in es)
    BY <1>1, <1>5, <2>3
  <2>6. QED
    BY <1>1, <2>1, <2>3, <2>4, <2>5
<1>6. QED
  BY <1>3, <1>4, <1>5 DEF HookWaiting

LEMMA WakeEarly ==
    ASSUME Hook!OnlyEarlyTimersStrand, WaitTypes, HookWaiting, NoFiber \notin Fibers, ParkedStay,
           UNCHANGED cancels,
           NEW fd \in Fds, NEW es \in SUBSET Hook!Watched(fd), NEW cause \in {"event", "cancel"},
           Hook!Wake(fd, es, cause)
    PROVE  Hook!OnlyEarlyTimersStrand'
<1>1. \A g \in Fibers : woken'[g] = "no" => woken[g] = "no"
  BY WakeFacts
<1>2. QED
  BY <1>1, StayEarly

-----------------------------------------------------------------------------
(* A call begins.                                                          *)

\* Nobody makes or closes the descriptor.
Free(fd) == \A g \in Fibers : pc[g] \in Making => call[g].fd # fd

LEMMA ExclusiveFree ==
    ASSUME InCall, SameSocket, NEW fd \in Fds, Hook!Exclusive(fd, "NONE")
    PROVE  Free(fd)
<1> SUFFICES ASSUME NEW g \in Fibers, pc[g] \in Making, call[g].fd = fd
             PROVE  FALSE
  BY DEF Free
<1>1. g \in Hook!Using(fd) /\ call[g].sock \in {sock[fd], Hook!Closed}
  BY DEF Hook!Using, Making, SameSocket
<1>2. call[g].event = "NONE"
  BY DEF InCall, Making
<1>3. QED
  BY <1>1, <1>2 DEF Hook!Exclusive

\* What every call that begins keeps: all but the facts about sockets, the
\* table and the waits.
LEMMA EnterKeeps ==
    ASSUME HookInv, MaxCalls \in Nat, NEW f \in Fibers,
           NEW k \in {"socket", "close", "direct", "io", "connect"},
           NEW fd \in Fds, NEW e \in Hook!Event \cup {"NONE"}, NEW timed \in BOOLEAN,
           NEW l \in {"lookup", "del", "try", "arm"}, Hook!Enter(f, k, fd, e, timed, l),
           closed \ {f} \subseteq closed', closed' \subseteq Fibers,
           UNCHANGED <<armed, fired, cancels>>,
           l \in {"lookup", "del"} => Free(fd),
           l = "lookup" => k = "socket",
           l = "del" => k = "close",
           l = "try" => k \in {"direct", "io"},
           l = "arm" => k = "connect",
           k \in {"socket", "close"} <=> e = "NONE"
    PROVE  /\ FiberTypes' /\ Rest(f) /\ ParkedStay
           /\ TimerTypes' /\ InCall' /\ OneCaller' /\ Timers'
           /\ pc[f] = "idle" /\ pc'[f] = l /\ result'[f] = "none"
           /\ call'[f].kind = k /\ call'[f].fd = fd /\ call'[f].sock = sock[fd]
<1> USE DEF HookInv
<1>1. /\ FiberTypes' /\ Rest(f)
      /\ pc[f] = "idle" /\ pc'[f] = l
      /\ call'[f].kind = k /\ call'[f].fd = fd /\ call'[f].sock = sock[fd]
      /\ call'[f].event = e
      /\ calls'[f] = calls[f] + 1 /\ calls[f] \in Nat
      /\ ~cancelled'[f] /\ result'[f] = "none"
      /\ expired' = expired \ {f}
  BY EnterFacts DEF Places
<1>2. ParkedStay
  BY <1>1 DEF ParkedStay, Rest
<1>3. TimerTypes'
  BY <1>1 DEF TimerTypes
<1>4. InCall'
  BY <1>1 DEF InCall, Rest, Hook!Event
<1>5. OneCaller'
  BY <1>1 DEF OneCaller, Rest, Free, Making
<1>6. \A x \in armed \cup fired \cup cancels :
        x.fiber \in Fibers /\ x.call <= calls[x.fiber] /\ x.call \in Nat
  BY DEF Timers, TimerTypes, TimerType
<1>7. \A x \in armed \cup fired \cup cancels :
        x.call <= calls'[x.fiber] /\ (x.fiber = f => x.call # calls'[f])
  BY <1>1, <1>6 DEF Rest
<1>8. \A x \in armed \cup fired \cup cancels :
        x.call = calls'[x.fiber] /\ pc'[x.fiber] # "idle" =>
          x.fd = call'[x.fiber].fd /\ x.event = call'[x.fiber].event
  BY <1>1, <1>6, <1>7 DEF Timers, Rest
<1>9. \A x \in fired \cup cancels : x.call = calls'[x.fiber] => x.fiber \in expired'
  BY <1>1, <1>6, <1>7 DEF Timers, Rest
<1>10. \A g \in Fibers : (cancelled'[g] \/ result'[g] = "ETIMEDOUT") => g \in expired'
  BY <1>1 DEF Timers, Rest
<1>11. Timers'
  BY <1>7, <1>8, <1>9, <1>10 DEF Timers
<1>12. QED
  BY <1>1, <1>2, <1>3, <1>4, <1>5, <1>11

LEMMA SocketKeeps ==
    ASSUME HookInv, MaxCalls \in Nat, MaxSockets \in Nat, NEW f \in Fibers, Hook!Socket(f)
    PROVE  HookInv'
<1> USE DEF HookInv
<1>1. PICK fd \in Fds :
        /\ sock[fd] = Hook!Closed
        /\ sock' = [sock EXCEPT ![fd] = made + 1]
        /\ Hook!Enter(f, "socket", fd, "NONE", FALSE, "lookup")
  BY DEF Hook!Socket
<1>2. PICK c \in {"new", "ok"} : conn' = [conn EXCEPT ![made + 1] = c]
  BY DEF Hook!Socket
<1>3. /\ made < MaxSockets /\ made' = made + 1 /\ closed' = closed \ {f}
      /\ UNCHANGED <<nonblock, Hook!tableVars, Hook!waitVars, armed, fired, cancels>>
  BY DEF Hook!Socket
<1>4. made + 1 \in Hook!Sockets /\ made + 1 # Hook!Closed /\ made \in Nat
  BY <1>3 DEF SockTypes, Hook!Sockets, Hook!Closed
<1>5. Free(fd)
  BY <1>1 DEF Free, SameSocket
<1>6. /\ FiberTypes' /\ Rest(f) /\ ParkedStay
      /\ TimerTypes' /\ InCall' /\ OneCaller' /\ Timers'
      /\ pc[f] = "idle" /\ pc'[f] = "lookup" /\ call'[f].fd = fd /\ call'[f].kind = "socket"
      /\ call'[f].sock = sock[fd]
  <2>1. closed \ {f} \subseteq closed' /\ closed' \subseteq Fibers
    BY <1>3 DEF FiberTypes
  <2>2. QED
    BY <1>1, <1>3, <1>5, <2>1, EnterKeeps
<1>8. SockTypes'
  BY <1>1, <1>2, <1>3, <1>4 DEF SockTypes
<1>9. sock'[fd] = made + 1 /\ \A d \in Fds : d # fd => sock'[d] = sock[d]
  BY <1>1 DEF SockTypes
<1>10. \A g \in Fibers : pc[g] # "idle" /\ call[g].fd = fd =>
         g \in closed /\ pc[g] \notin Making
  BY <1>1 DEF SameSocket, FiberTypes
<1>11. SameSocket'
  <2> SUFFICES ASSUME NEW g \in Fibers
               PROVE  /\ pc'[g] \in Making =>
                           /\ sock'[call'[g].fd] # Hook!Closed
                           /\ call'[g].sock \in {sock'[call'[g].fd], Hook!Closed}
                      /\ pc'[g] \in Places \ (Making \cup {"idle"}) /\ g \notin closed'
                           => sock'[call'[g].fd] = call'[g].sock /\ call'[g].sock # Hook!Closed
    BY DEF SameSocket
  <2>1. CASE g = f
    BY <1>1, <1>4, <1>6, <1>9, <2>1 DEF Making
  <2>2. CASE g # f
    <3>1. pc'[g] = pc[g] /\ call'[g] = call[g] /\ (g \in closed' <=> g \in closed)
      BY <1>3, <1>6, <2>2 DEF Rest
    <3>2. pc[g] # "idle" => call[g].fd \in Fds
      BY DEF InCall
    <3>3. QED
      BY <1>4, <1>9, <1>10, <3>1, <3>2 DEF SameSocket, Making
  <2>3. QED
    BY <2>1, <2>2
<1>12. Table'
  <2>1. UNCHANGED <<table_size, contexts, unhooked>>
    BY <1>3 DEF Hook!tableVars
  <2>2. fd \in unhooked \/ contexts[fd] = Hook!NoCtx
    BY <1>1 DEF Table
  <2>3. \A g \in Fibers : pc'[g] = "close" => pc[g] = "close" /\ call'[g] = call[g]
    BY <1>6 DEF Rest
  <2>4. QED
    BY <1>9, <2>1, <2>2, <2>3 DEF Table
<1>13. HookWaiting' /\ WaitTypes'
  <2>1. \A g \in Fibers : pc[g] = "parked" /\ g \notin closed' =>
               sock'[call[g].fd] = sock[call[g].fd]
    BY <1>3, <1>6, <1>9, <1>10 DEF InCall
  <2>2. QED
    BY <1>3, <1>6, <2>1, StayWaiting
<1>14. Hook!OnlyEarlyTimersStrand'
  BY <1>3, <1>6, StayEarly DEF Hook!waitVars
<1>15. Connecting'
  <2>1. \A s \in 1..made : conn'[s] = conn[s] /\ s \in 1..made'
    BY <1>2, <1>3, <1>4 DEF SockTypes, Hook!Sockets
  <2>2. UNCHANGED woken
    BY <1>3 DEF Hook!waitVars
  <2>3. \A g \in Fibers : g # f => (g \in closed' <=> g \in closed)
    BY <1>3
  <2>4. QED
    BY <1>6, <2>1, <2>2, <2>3 DEF Connecting, Rest
<1>16. QED
  BY <1>6, <1>8, <1>11, <1>12, <1>13, <1>14, <1>15

LEMMA CloseKeeps ==
    ASSUME HookInv, MaxCalls \in Nat, NoFiber \notin Fibers, NEW f \in Fibers, Hook!Close(f)
    PROVE  HookInv'
<1> USE DEF HookInv
<1>1. PICK fd \in Fds :
        /\ sock[fd] # Hook!Closed
        /\ Hook!Exclusive(fd, "NONE")
        /\ Hook!Enter(f, "close", fd, "NONE", FALSE, "del")
        /\ Hook!Wake(fd, Hook!Watched(fd), "cancel")
        /\ closed' = (closed \ {f}) \cup Hook!Using(fd)
  BY DEF Hook!Close
<1>2. UNCHANGED <<Hook!sockVars, Hook!tableVars, armed, fired, cancels>>
  BY DEF Hook!Close
<1>3. UNCHANGED <<sock, made, conn, nonblock, table_size, contexts, unhooked>>
  BY <1>2 DEF Hook!sockVars, Hook!tableVars
<1>4. Free(fd)
  BY <1>1, ExclusiveFree
<1>5. closed \ {f} \subseteq closed' /\ closed' \subseteq Fibers
  BY <1>1 DEF FiberTypes, Hook!Using
<1>6. /\ FiberTypes' /\ Rest(f) /\ ParkedStay
      /\ TimerTypes' /\ InCall' /\ OneCaller' /\ Timers'
      /\ pc[f] = "idle" /\ pc'[f] = "del" /\ call'[f].fd = fd /\ call'[f].kind = "close"
      /\ call'[f].sock = sock[fd]
  BY <1>1, <1>2, <1>4, <1>5, EnterKeeps
<1>8. sock[fd] # Hook!Closed
  BY <1>1
<1>9. \A g \in Fibers : g # f /\ g \notin closed' => g \notin closed
  BY <1>5
<1>10. SameSocket'
  BY <1>3, <1>6, <1>8, <1>9 DEF SameSocket, Rest, Making
<1>11. Table'
  <2>1. \A g \in Fibers : pc'[g] = "close" => pc[g] = "close" /\ call'[g] = call[g]
    BY <1>6 DEF Rest
  <2>2. QED
    BY <1>3, <2>1 DEF Table
<1>12. HookWaiting' /\ WaitTypes'
  BY <1>1, <1>3, <1>6, WakeFacts, WakeWaiting
<1>13. Hook!OnlyEarlyTimersStrand'
  BY <1>1, <1>2, <1>6, WakeEarly
<1>14. Connecting'
  <2>1. \A g \in Fibers : woken'[g] \in {woken[g], "cancel"}
    BY <1>1, WakeFacts
  <2>2. QED
    BY <1>3, <1>6, <1>9, <2>1 DEF Connecting, Rest
<1>15. SockTypes'
  BY <1>3 DEF SockTypes
<1>16. QED
  BY <1>6, <1>10, <1>11, <1>12, <1>13, <1>14, <1>15

LEMMA DoIoKeeps ==
    ASSUME HookInv, MaxCalls \in Nat, NEW f \in Fibers, Hook!DoIo(f)
    PROVE  HookInv'
<1> USE DEF HookInv
<1>1. PICK fd \in Fds, e \in Hook!Event :
        /\ sock[fd] # Hook!Closed
        /\ LET ctx == Hook!Get(fd) IN
             IF ctx = Hook!NoCtx \/ ctx.userNonblock
               THEN Hook!Enter(f, "direct", fd, e, FALSE, "try")
               ELSE Hook!Enter(f, "io", fd, e, ctx.timeout, "try")
  BY DEF Hook!DoIo
<1>2. PICK k \in {"direct", "io"}, timed \in BOOLEAN : Hook!Enter(f, k, fd, e, timed, "try")
  <2>1. Hook!Get(fd).timeout \in BOOLEAN
    BY NoCallType DEF Hook!Get, Table, CtxType
  <2>2. QED
    BY <1>1, <2>1
<1>3. closed' = closed \ {f} /\ UNCHANGED <<Hook!sockVars, Hook!tableVars, Hook!waitVars, armed, fired, cancels>>
  BY DEF Hook!DoIo
<1>4. UNCHANGED <<sock, made, conn, nonblock, table_size, contexts, unhooked, waiter, woken>>
  BY <1>3 DEF Hook!sockVars, Hook!tableVars, Hook!waitVars
<1>6. closed \ {f} \subseteq closed' /\ closed' \subseteq Fibers
  BY <1>3 DEF FiberTypes
<1>7. e # "NONE" /\ e \in Hook!Event \cup {"NONE"}
  BY DEF Hook!Event
<1>8. /\ FiberTypes' /\ Rest(f) /\ ParkedStay
      /\ TimerTypes' /\ InCall' /\ OneCaller' /\ Timers'
      /\ pc[f] = "idle" /\ pc'[f] = "try" /\ call'[f].fd = fd /\ call'[f].kind = k
      /\ call'[f].sock = sock[fd] /\ result'[f] = "none"
  BY <1>2, <1>3, <1>6, <1>7, EnterKeeps
<1>10. SameSocket'
  BY <1>1, <1>3, <1>4, <1>8 DEF SameSocket, Rest, Making
<1>11. Table'
  <2>1. \A g \in Fibers : pc'[g] = "close" => pc[g] = "close" /\ call'[g] = call[g]
    BY <1>8 DEF Rest
  <2>2. QED
    BY <1>4, <2>1 DEF Table
<1>12. HookWaiting' /\ WaitTypes'
  BY <1>3, <1>4, <1>8, StayWaiting
<1>13. Hook!OnlyEarlyTimersStrand'
  BY <1>3, <1>4, <1>8, StayEarly
<1>14. Connecting'
  BY <1>3, <1>4, <1>8 DEF Connecting, Rest
<1>15. SockTypes'
  BY <1>4 DEF SockTypes
<1>16. QED
  BY <1>8, <1>10, <1>11, <1>12, <1>13, <1>14, <1>15

LEMMA HookConnectKeeps ==
    ASSUME HookInv, MaxCalls \in Nat, MaxSockets \in Nat, NEW f \in Fibers, Hook!Connect(f)
    PROVE  HookInv'
<1> USE DEF HookInv
<1>1. PICK fd \in Fds, timed \in BOOLEAN :
        /\ sock[fd] \in nonblock /\ conn[sock[fd]] = "new"
        /\ conn' = [conn EXCEPT ![sock[fd]] = "progress"]
        /\ Hook!Enter(f, "connect", fd, "WRITE", timed, "arm")
  BY DEF Hook!Connect
<1>2. closed' = closed \ {f}
      /\ UNCHANGED <<sock, made, nonblock, Hook!tableVars, Hook!waitVars, armed, fired, cancels>>
  BY DEF Hook!Connect
<1>3. UNCHANGED <<sock, made, nonblock, table_size, contexts, unhooked, waiter, woken>>
  BY <1>2 DEF Hook!tableVars, Hook!waitVars
<1>5. closed \ {f} \subseteq closed' /\ closed' \subseteq Fibers
  BY <1>2 DEF FiberTypes
<1>6. /\ FiberTypes' /\ Rest(f) /\ ParkedStay
      /\ TimerTypes' /\ InCall' /\ OneCaller' /\ Timers'
      /\ pc[f] = "idle" /\ pc'[f] = "arm" /\ call'[f].fd = fd /\ call'[f].kind = "connect"
      /\ call'[f].sock = sock[fd] /\ result'[f] = "none"
  BY <1>1, <1>2, <1>5, EnterKeeps DEF Hook!Event
<1>8. sock[fd] \in Hook!Sockets /\ sock[fd] # Hook!Closed
  BY <1>1 DEF SockTypes, Hook!Sockets, Hook!Closed
<1>9. SameSocket'
  BY <1>2, <1>3, <1>6, <1>8 DEF SameSocket, Rest, Making
<1>10. Table'
  <2>1. \A g \in Fibers : pc'[g] = "close" => pc[g] = "close" /\ call'[g] = call[g]
    BY <1>6 DEF Rest
  <2>2. QED
    BY <1>3, <2>1 DEF Table
<1>11. HookWaiting' /\ WaitTypes'
  BY <1>2, <1>3, <1>6, StayWaiting
<1>12. Hook!OnlyEarlyTimersStrand'
  BY <1>2, <1>3, <1>6, StayEarly
<1>13. Connecting'
  <2>1. sock[fd] \in 1..made
    BY <1>8 DEF SockTypes, Hook!Closed
  <2>2. conn'[sock[fd]] = "progress" /\ \A s \in Hook!Sockets : s # sock[fd] => conn'[s] = conn[s]
    BY <1>1, <1>8 DEF SockTypes
  <2>3. 1..made \subseteq Hook!Sockets
    BY DEF SockTypes, Hook!Sockets
  <2>4. ASSUME NEW g \in Fibers, g # f, call[g].kind = "connect"
        PROVE  call[g].sock # sock[fd] /\ conn'[call[g].sock] = conn[call[g].sock]
    BY <1>1, <2>2, <2>3, <2>4 DEF Connecting
  <2>5. QED
    BY <1>2, <1>3, <1>6, <2>1, <2>2, <2>4 DEF Connecting, Rest
<1>14. SockTypes'
  BY <1>1, <1>3 DEF SockTypes
<1>15. QED
  BY <1>6, <1>9, <1>10, <1>11, <1>12, <1>13, <1>14

-----------------------------------------------------------------------------
(* A call returns, or goes on to its next step.                            *)

LEMMA ReturnKeeps ==
    ASSUME HookInv, NEW f \in Fibers,
           NEW r \in {"none", "ok", "EBADF", "ENOENT", "EAGAIN", "ETIMEDOUT", "refused"},
           pc[f] # "idle", Hook!Return(f, r),
           UNCHANGED <<sock, made, conn, fired, cancels, expired, waiter>>,
           armed' \subseteq armed,
           woken' \in [Fibers -> {"no", "event", "cancel"}],
           \A g \in Fibers : woken'[g] = IF g = f THEN "no" ELSE woken[g],
           pc[f] = "parked" => woken[f] # "no",
           r = "ETIMEDOUT" => cancelled[f],
           call[f].kind = "connect" /\ r = "ok" =>
             conn[call[f].sock] = "ok" \/ f \in closed \/ call[f].cause \in {"cancel", "error"}
    PROVE  /\ FiberTypes' /\ WaitTypes' /\ TimerTypes'
           /\ InCall' /\ OneCaller' /\ SameSocket' /\ HookWaiting' /\ Timers'
           /\ Hook!OnlyEarlyTimersStrand' /\ Connecting'
           /\ Rest(f) /\ pc'[f] = "idle"
<1> USE DEF HookInv
<1>1. /\ FiberTypes' /\ Rest(f)
      /\ pc'[f] = "idle" /\ result'[f] = r /\ ~cancelled'[f]
      /\ calls' = calls
      /\ call[f].kind = "connect" /\ r = "ok"
           => call'[f] = call[f] /\ closed' = closed
      /\ ~(call[f].kind = "connect" /\ r = "ok")
           => call'[f] = Hook!NoCall /\ closed' = closed \ {f}
  BY ReturnFacts
<1>2. \A g \in Fibers : g # f => (g \in closed' <=> g \in closed)
  BY <1>1
<1>3. WaitTypes' /\ TimerTypes'
  BY DEF WaitTypes, TimerTypes
<1>4. call'[f] = call[f] \/ call'[f] = Hook!NoCall
  BY <1>1
<1>5. InCall'
  BY <1>1, <1>4 DEF InCall, Rest, Hook!NoCall
<1>6. OneCaller'
  BY <1>1 DEF OneCaller, Rest, Making
<1>7. SameSocket'
  BY <1>1, <1>2 DEF SameSocket, Rest, Making
<1>8. \A d \in Fds : \A e \in Hook!Event : waiter[d][e] # Hook!Nobody => waiter[d][e].fiber # f
  BY DEF HookWaiting
<1>9. HookWaiting'
  <2>1. \A d \in Fds : \A e \in Hook!Event : waiter'[d][e] # Hook!Nobody =>
         LET g == waiter'[d][e].fiber IN
           /\ g \in Fibers /\ pc'[g] = "parked" /\ woken'[g] = "no"
           /\ call'[g].fd = d /\ call'[g].event = e
    BY <1>1, <1>8 DEF HookWaiting, Rest
  <2>2. \A g \in Fibers : woken'[g] # "no" => pc'[g] = "parked"
    BY <1>1 DEF HookWaiting, Rest
  <2>3. \A g \in Fibers : pc'[g] = "parked" /\ woken'[g] = "no" /\ g \notin closed' =>
         waiter'[call'[g].fd][call'[g].event] = [fiber |-> g, sock |-> sock'[call'[g].fd]]
    BY <1>1, <1>2 DEF HookWaiting, Rest
  <2>4. QED
    BY <2>1, <2>2, <2>3 DEF HookWaiting
<1>10. Timers'
  <2>1. \A x \in armed' \cup fired' \cup cancels' :
          /\ x \in armed \cup fired \cup cancels
          /\ x.fiber \in Fibers
    BY DEF TimerTypes, TimerType
  <2>2. \A x \in armed' \cup fired' \cup cancels' :
         /\ x.call <= calls'[x.fiber]
         /\ x.call = calls'[x.fiber] /\ pc'[x.fiber] # "idle" =>
              x.fd = call'[x.fiber].fd /\ x.event = call'[x.fiber].event
    BY <1>1, <2>1 DEF Timers, Rest
  <2>3. \A x \in fired' \cup cancels' : x.call = calls'[x.fiber] => x.fiber \in expired'
    BY <1>1 DEF Timers
  <2>4. \A g \in Fibers : (cancelled'[g] \/ result'[g] = "ETIMEDOUT") => g \in expired'
    BY <1>1 DEF Timers, Rest
  <2>5. QED
    BY <2>2, <2>3, <2>4 DEF Timers
<1>11. Hook!OnlyEarlyTimersStrand'
  BY <1>1, <1>2 DEF Hook!OnlyEarlyTimersStrand, Hook!Overdue, Hook!Cancelling, Rest
<1>12. Connecting'
  <2>1. ASSUME NEW g \in Fibers, g # f, call'[g].kind = "connect"
        PROVE  /\ call'[g].sock \in 1..made'
               /\ conn'[call'[g].sock] # "new"
               /\ pc'[g] = "parked" /\ woken'[g] = "event" /\ g \notin closed'
                    => conn'[call'[g].sock] # "progress"
               /\ pc'[g] = "sockopt" /\ g \notin closed' /\ call'[g].cause \notin {"cancel", "error"}
                    => conn'[call'[g].sock] # "progress"
               /\ result'[g] = "ok" => conn'[call'[g].sock] = "ok" \/ g \in closed'
                                         \/ call'[g].cause \in {"cancel", "error"}
    BY <1>1, <1>2, <2>1 DEF Connecting, Rest
  <2>2. ASSUME call'[f].kind = "connect"
        PROVE  r = "ok" /\ call[f].kind = "connect" /\ call'[f] = call[f] /\ closed' = closed
    BY <1>1, <2>2 DEF Hook!NoCall
  <2>3. QED
    BY <1>1, <2>1, <2>2 DEF Connecting
<1>13. QED
  BY <1>1, <1>3, <1>5, <1>6, <1>7, <1>9, <1>10, <1>11, <1>12

LEMMA HookStepKeeps ==
    ASSUME HookInv, NEW f \in Fibers, NEW l \in {"create", "close", "arm", "add", "aborted"},
           pc[f] \notin {"idle", "parked"}, Hook!Step(f, l),
           UNCHANGED <<Hook!sockVars, Hook!waitVars, fired, cancels, expired>>,
           \/ armed' \subseteq armed
           \/ l = "add" /\ armed' \subseteq armed \cup {Hook!TimerOf(f)},
           l = "create" => pc[f] = "lookup",
           l = "close" => pc[f] = "del",
           l \in {"arm", "add", "aborted"} =>
             pc[f] \in {"try", "arm", "add"} /\ call[f].kind \in {"io", "connect"}
    PROVE  /\ FiberTypes' /\ SockTypes' /\ WaitTypes' /\ TimerTypes'
           /\ InCall' /\ OneCaller' /\ SameSocket' /\ HookWaiting' /\ Timers'
           /\ Hook!OnlyEarlyTimersStrand' /\ Connecting'
           /\ Rest(f) /\ pc'[f] = l /\ call' = call
<1> USE DEF HookInv
<1>1. /\ FiberTypes' /\ Rest(f) /\ pc'[f] = l
      /\ UNCHANGED <<call, calls, closed, result, cancelled>>
  BY StepFacts DEF Places
<1>2. UNCHANGED <<sock, made, conn, nonblock, waiter, woken>>
  BY DEF Hook!sockVars, Hook!waitVars
<1>3. SockTypes'
  BY <1>2 DEF SockTypes
<1>4. InCall'
  BY <1>1 DEF InCall, Rest
<1>5. OneCaller'
  BY <1>1 DEF OneCaller, Rest, Making
<1>6. SameSocket'
  BY <1>1, <1>2 DEF SameSocket, Rest, Places, Making
<1>7. ParkedStay
  BY <1>1 DEF ParkedStay, Rest
<1>8. HookWaiting' /\ WaitTypes'
  BY <1>2, <1>7, StayWaiting
<1>9. Hook!OnlyEarlyTimersStrand'
  BY <1>2, <1>7, StayEarly
<1>10. ASSUME armed' \subseteq armed
       PROVE  TimerTypes' /\ Timers'
  <2>1. TimerTypes'
    BY <1>10 DEF TimerTypes
  <2>2. \A x \in armed' \cup fired' \cup cancels' :
          /\ x \in armed \cup fired \cup cancels
          /\ x.fiber \in Fibers
    BY <1>10 DEF TimerTypes, TimerType
  <2>3. Timers'
    BY <1>1, <2>2 DEF Timers, Rest
  <2>4. QED
    BY <2>1, <2>3
<1>11. ASSUME l = "add", armed' \subseteq armed \cup {Hook!TimerOf(f)}
       PROVE  TimerTypes' /\ Timers'
  <2> DEFINE x == Hook!TimerOf(f)
  <2>1. armed' \subseteq armed \cup {x}
    BY <1>11
  <2>2. call[f].kind \in {"io", "connect"}
    BY <1>11
  <2>3. /\ x.fiber = f /\ x.call = calls[f] /\ x.fd = call[f].fd /\ x.event = call[f].event
        /\ x \in TimerType
    BY <2>2 DEF Hook!TimerOf, TimerType, FiberTypes, CallType, InCall
  <2> HIDE DEF x
  <2>4. TimerTypes'
    BY <2>1, <2>3 DEF TimerTypes
  <2>5. \A y \in armed' \cup fired' \cup cancels' :
          y = x \/ (y \in armed \cup fired \cup cancels /\ y.fiber \in Fibers)
    BY <2>1 DEF TimerTypes, TimerType
  <2>6. calls[f] <= calls[f]
    BY DEF FiberTypes
  <2>7. Timers'
    BY <1>1, <2>3, <2>5, <2>6 DEF Timers, Rest
  <2>8. QED
    BY <2>4, <2>7
<1>12. Connecting'
  BY <1>1, <1>2 DEF Connecting, Rest
<1>13. QED
  BY <1>1, <1>3, <1>4, <1>5, <1>6, <1>8, <1>9, <1>10, <1>11, <1>12

\* A fiber that was not parked returns without touching the table or the waits.
LEMMA QuietReturn ==
    ASSUME HookInv, NEW f \in Fibers,
           NEW r \in {"none", "ok", "EBADF", "ENOENT", "EAGAIN", "refused"},
           pc[f] \notin {"idle", "parked"}, Hook!Return(f, r),
           UNCHANGED <<Hook!sockVars, Hook!tableVars, Hook!waitVars, fired, cancels, expired>>,
           armed' \subseteq armed,
           call[f].kind = "connect" /\ r = "ok" =>
             conn[call[f].sock] = "ok" \/ f \in closed \/ call[f].cause \in {"cancel", "error"}
    PROVE  HookInv'
<1>1. UNCHANGED <<sock, made, conn, nonblock, table_size, contexts, unhooked, waiter, woken>>
  BY DEF Hook!sockVars, Hook!tableVars, Hook!waitVars
<1>2. woken[f] = "no" /\ woken \in [Fibers -> {"no", "event", "cancel"}]
  BY DEF HookInv, HookWaiting, WaitTypes
<1>3. /\ FiberTypes' /\ WaitTypes' /\ TimerTypes'
      /\ InCall' /\ OneCaller' /\ SameSocket' /\ HookWaiting' /\ Timers'
      /\ Hook!OnlyEarlyTimersStrand' /\ Connecting'
      /\ Rest(f) /\ pc'[f] = "idle"
  BY <1>1, <1>2, ReturnKeeps
<1>4. SockTypes'
  BY <1>1 DEF HookInv, SockTypes
<1>5. Table'
  <2>1. \A g \in Fibers : pc'[g] = "close" => pc[g] = "close" /\ call'[g] = call[g]
    BY <1>3 DEF Rest
  <2>2. QED
    BY <1>1, <2>1 DEF HookInv, Table
<1>6. QED
  BY <1>3, <1>4, <1>5 DEF HookInv

\* A step that is not the one of close() before its system call.
LEMMA QuietStep ==
    ASSUME HookInv, NEW f \in Fibers, NEW l \in {"create", "arm", "add", "aborted"},
           pc[f] \notin {"idle", "parked"}, Hook!Step(f, l),
           UNCHANGED <<Hook!sockVars, Hook!tableVars, Hook!waitVars, fired, cancels, expired>>,
           \/ armed' \subseteq armed
           \/ l = "add" /\ armed' \subseteq armed \cup {Hook!TimerOf(f)},
           l = "create" => pc[f] = "lookup",
           l \in {"arm", "add", "aborted"} =>
             pc[f] \in {"try", "arm", "add"} /\ call[f].kind \in {"io", "connect"}
    PROVE  HookInv'
<1>1. /\ FiberTypes' /\ SockTypes' /\ WaitTypes' /\ TimerTypes'
      /\ InCall' /\ OneCaller' /\ SameSocket' /\ HookWaiting' /\ Timers'
      /\ Hook!OnlyEarlyTimersStrand' /\ Connecting'
      /\ Rest(f) /\ pc'[f] = l /\ call' = call
  BY HookStepKeeps
<1>2. UNCHANGED <<sock, table_size, contexts, unhooked>>
  BY DEF Hook!sockVars, Hook!tableVars
<1>3. \A g \in Fibers : pc'[g] = "close" => pc[g] = "close"
  BY <1>1 DEF Rest
<1>4. Table'
  BY <1>1, <1>2, <1>3 DEF HookInv, Table
<1>5. QED
  BY <1>1, <1>4 DEF HookInv

LEMMA LookUpKeeps ==
    ASSUME HookInv, NEW f \in Fibers, Hook!LookUp(f)
    PROVE  HookInv'
<1>1. /\ pc[f] = "lookup" /\ (Hook!Step(f, "create") \/ Hook!Return(f, "ok"))
      /\ UNCHANGED <<Hook!sockVars, Hook!tableVars, Hook!waitVars, Hook!timerVars>>
  BY DEF Hook!LookUp
<1>2. UNCHANGED <<armed, fired, cancels, expired>>
  BY <1>1 DEF Hook!timerVars
<1>3. call[f].kind = "socket"
  BY <1>1 DEF HookInv, InCall
<1>4. CASE Hook!Step(f, "create")
  BY <1>1, <1>2, <1>4, QuietStep
<1>5. CASE Hook!Return(f, "ok")
  BY <1>1, <1>2, <1>3, <1>5, QuietReturn
<1>6. QED
  BY <1>1, <1>4, <1>5

LEMMA CreateKeeps ==
    ASSUME HookInv, Fds \subseteq Nat, NEW f \in Fibers, Hook!Create(f)
    PROVE  HookInv'
<1> DEFINE fd == call[f].fd
           ctx == [Hook!NoCtx EXCEPT !.sock = sock[fd]]
<1>1. /\ pc[f] = "create"
      /\ table_size' = IF fd >= table_size THEN (fd * 3) \div 2 ELSE table_size
      /\ contexts' = [contexts EXCEPT ![fd] = ctx]
      /\ unhooked' = unhooked \ {fd}
      /\ nonblock' = nonblock \cup {sock[fd]}
      /\ Hook!Return(f, "ok")
      /\ UNCHANGED <<sock, made, conn, Hook!waitVars, Hook!timerVars>>
  BY DEF Hook!Create
<1>2. UNCHANGED <<waiter, woken, armed, fired, cancels, expired>>
  BY <1>1 DEF Hook!waitVars, Hook!timerVars
<1>3. call[f].kind = "socket" /\ fd \in Fds /\ fd \in Nat
  BY <1>1 DEF HookInv, InCall
<1>4. sock[fd] # Hook!Closed /\ sock[fd] \in Hook!Sockets
  BY <1>1, <1>3 DEF HookInv, SameSocket, SockTypes, Making
<1>5. woken[f] = "no" /\ woken \in [Fibers -> {"no", "event", "cancel"}]
  BY <1>1 DEF HookInv, HookWaiting, WaitTypes
<1>6. /\ FiberTypes' /\ WaitTypes' /\ TimerTypes'
      /\ InCall' /\ OneCaller' /\ SameSocket' /\ HookWaiting' /\ Timers'
      /\ Hook!OnlyEarlyTimersStrand' /\ Connecting'
      /\ Rest(f) /\ pc'[f] = "idle"
  <2>1. pc[f] # "idle" /\ pc[f] # "parked" /\ call[f].kind # "connect"
    BY <1>1, <1>3
  <2>2. \A g \in Fibers : woken'[g] = IF g = f THEN "no" ELSE woken[g]
    BY <1>2, <1>5
  <2>3. woken' \in [Fibers -> {"no", "event", "cancel"}] /\ armed' \subseteq armed
    BY <1>2, <1>5
  <2>4. QED
    BY <1>1, <1>2, <2>1, <2>2, <2>3, ReturnKeeps
<1>7. SockTypes'
  BY <1>1, <1>4 DEF HookInv, SockTypes
<1>8. Table'
  <2>1. table_size \in Nat /\ table_size >= 64
    BY DEF HookInv, Table
  <2>2. table_size' \in Nat /\ table_size' >= table_size /\ fd < table_size'
    BY <1>1, <1>3, <2>1
  <2>3. ctx \in CtxType /\ ctx.sock = sock[fd]
    BY <1>4 DEF Hook!NoCtx, CtxType
  <2> HIDE DEF ctx, fd
  <2>4. /\ contexts' \in [Fds -> CtxType]
        /\ contexts'[fd] = ctx
        /\ \A d \in Fds : d # fd => contexts'[d] = contexts[d]
    BY <1>1, <1>3, <2>3 DEF HookInv, Table
  <2>5. ASSUME NEW d \in Fds, contexts'[d] # Hook!NoCtx
        PROVE  /\ d < table_size'
               /\ d \notin unhooked' => contexts'[d].sock = sock'[d] /\ sock'[d] # Hook!Closed
    <3>1. CASE d = fd
      BY <1>1, <1>4, <2>2, <2>3, <2>4, <3>1
    <3>2. CASE d # fd
      <4>1. /\ d < table_size /\ d \in Nat
            /\ d \notin unhooked => contexts[d].sock = sock[d] /\ sock[d] # Hook!Closed
        BY <2>4, <2>5, <3>2 DEF HookInv, Table
      <4>2. d < table_size'
        BY <2>1, <2>2, <4>1
      <4>3. QED
        BY <1>1, <2>4, <3>2, <4>1, <4>2
    <3>3. QED
      BY <3>1, <3>2
  <2>6. ASSUME NEW g \in Fibers, pc'[g] = "close"
        PROVE  contexts'[call'[g].fd] = Hook!NoCtx
    <3>1. g # f /\ pc[g] = "close" /\ call'[g] = call[g]
      BY <1>6, <2>6 DEF Rest
    <3>2. call[g].fd \in Fds
      BY <3>1 DEF HookInv, InCall
    <3>3. call[g].fd # fd
      BY <1>1, <3>1 DEF HookInv, OneCaller, Making, fd
    <3>4. QED
      BY <2>4, <3>1, <3>2, <3>3 DEF HookInv, Table
  <2>7. unhooked' \subseteq Fds
    BY <1>1 DEF HookInv, Table
  <2>8. \A d \in Fds : contexts'[d] # Hook!NoCtx => d < table_size'
    BY <2>5
  <2>9. \A d \in Fds \ unhooked' : contexts'[d] # Hook!NoCtx =>
          contexts'[d].sock = sock'[d] /\ sock'[d] # Hook!Closed
    BY <2>5
  <2>10. table_size' >= 64
    BY <2>1, <2>2
  <2>11. QED
    BY <2>2, <2>4, <2>6, <2>7, <2>8, <2>9, <2>10 DEF Table
<1>9. QED
  BY <1>6, <1>7, <1>8 DEF HookInv

LEMMA DelKeeps ==
    ASSUME HookInv, NEW f \in Fibers, Hook!Del(f)
    PROVE  HookInv'
<1> DEFINE fd == call[f].fd
<1>1. /\ pc[f] = "del"
      /\ contexts' = [contexts EXCEPT ![fd] = Hook!NoCtx]
      /\ unhooked' = unhooked \ {fd}
      /\ Hook!Step(f, "close")
      /\ UNCHANGED <<Hook!sockVars, table_size, Hook!waitVars, Hook!timerVars>>
  BY DEF Hook!Del
<1>2. UNCHANGED <<sock, armed, fired, cancels, expired>>
  BY <1>1 DEF Hook!sockVars, Hook!timerVars
<1>3. /\ FiberTypes' /\ SockTypes' /\ WaitTypes' /\ TimerTypes'
      /\ InCall' /\ OneCaller' /\ SameSocket' /\ HookWaiting' /\ Timers'
      /\ Hook!OnlyEarlyTimersStrand' /\ Connecting'
      /\ Rest(f) /\ pc'[f] = "close" /\ call' = call
  BY <1>1, <1>2, HookStepKeeps
<1>4. fd \in Fds
  BY <1>1 DEF HookInv, InCall
<1> HIDE DEF fd
<1>5. /\ contexts' \in [Fds -> CtxType]
      /\ contexts'[fd] = Hook!NoCtx
      /\ \A d \in Fds : d # fd => contexts'[d] = contexts[d]
  BY <1>1, <1>4, NoCallType DEF HookInv, Table
<1>6. \A d \in Fds : contexts'[d] # Hook!NoCtx =>
        /\ d < table_size'
        /\ d \notin unhooked' => contexts'[d].sock = sock'[d] /\ sock'[d] # Hook!Closed
  BY <1>1, <1>2, <1>5 DEF HookInv, Table
<1>7. \A g \in Fibers : pc'[g] = "close" => contexts'[call'[g].fd] = Hook!NoCtx
  <2> SUFFICES ASSUME NEW g \in Fibers, pc'[g] = "close"
               PROVE  contexts'[call[g].fd] = Hook!NoCtx
    BY <1>3
  <2>1. CASE g = f
    BY <1>5, <2>1 DEF fd
  <2>2. CASE g # f
    <3>1. pc[g] = "close" /\ call[g].fd \in Fds
      BY <1>3, <2>2 DEF Rest, HookInv, InCall
    <3>2. QED
      BY <1>5, <3>1 DEF HookInv, Table
  <2>3. QED
    BY <2>1, <2>2
<1>8. Table'
  BY <1>1, <1>5, <1>6, <1>7 DEF HookInv, Table
<1>9. QED
  BY <1>3, <1>8 DEF HookInv

LEMMA CloseSocketKeeps ==
    ASSUME HookInv, NEW f \in Fibers, Hook!CloseSocket(f)
    PROVE  HookInv'
<1> DEFINE fd == call[f].fd
<1> USE DEF HookInv
<1>1. /\ pc[f] = "close"
      /\ sock' = [sock EXCEPT ![fd] = Hook!Closed]
      /\ closed' = closed \cup (Hook!Using(fd) \ {f})
      /\ call' = [call EXCEPT ![f] = Hook!NoCall]
      /\ result' = [result EXCEPT ![f] = "ok"]
      /\ pc' = [pc EXCEPT ![f] = "idle"]
      /\ UNCHANGED <<calls, cancelled>>
      /\ UNCHANGED <<made, conn, nonblock, Hook!tableVars, Hook!waitVars, Hook!timerVars>>
  BY DEF Hook!CloseSocket, Hook!Goto
<1>2. UNCHANGED <<table_size, contexts, unhooked, waiter, woken, armed, fired, cancels, expired>>
  BY <1>1 DEF Hook!tableVars, Hook!waitVars, Hook!timerVars
<1>3. fd \in Fds
  BY <1>1 DEF InCall
<1>4. /\ Rest(f) /\ pc'[f] = "idle" /\ call'[f] = Hook!NoCall /\ result'[f] = "ok"
      /\ FiberTypes'
  BY <1>1, NoCallType DEF FiberTypes, Rest, Places, Hook!Using
<1>5. \A g \in Fibers : g # f /\ pc[g] # "idle" /\ call[g].fd = fd =>
        g \in closed' /\ pc[g] \notin Making
  <2> SUFFICES ASSUME NEW g \in Fibers, g # f, pc[g] # "idle", call[g].fd = fd
               PROVE  g \in closed' /\ pc[g] \notin Making
    OBVIOUS
  <2>1. g \in closed'
    BY <1>1 DEF Hook!Using
  <2>2. QED
    BY <1>1, <2>1 DEF OneCaller, Making
<1>6. sock'[fd] = Hook!Closed /\ \A d \in Fds : d # fd => sock'[d] = sock[d]
  BY <1>1, <1>3 DEF SockTypes
<1> HIDE DEF fd
<1>7. closed \subseteq closed'
  BY <1>1
<1>8. ParkedStay
  BY <1>1, <1>4, <1>7 DEF ParkedStay, Rest
<1>9. SockTypes'
  BY <1>1, <1>3 DEF SockTypes, Hook!Closed
<1>10. InCall'
  BY <1>1, <1>4 DEF InCall, Rest, Hook!NoCall
<1>11. OneCaller'
  BY <1>4 DEF OneCaller, Rest, Making
<1>12. SameSocket'
  <2> SUFFICES ASSUME NEW g \in Fibers, g # f, pc[g] # "idle"
               PROVE  /\ pc[g] \in Making =>
                           /\ sock'[call[g].fd] # Hook!Closed
                           /\ call[g].sock \in {sock'[call[g].fd], Hook!Closed}
                      /\ pc[g] \in Places \ (Making \cup {"idle"}) /\ g \notin closed'
                           => sock'[call[g].fd] = call[g].sock /\ call[g].sock # Hook!Closed
    BY <1>4 DEF SameSocket, Rest, Making
  <2>1. call[g].fd \in Fds
    BY DEF InCall
  <2>2. QED
    BY <1>5, <1>6, <1>7, <2>1 DEF SameSocket
<1>13. Table'
  <2>1. contexts[fd] = Hook!NoCtx
    BY <1>1 DEF Table, fd
  <2>2. \A g \in Fibers : pc'[g] = "close" => pc[g] = "close" /\ call'[g] = call[g]
    BY <1>4 DEF Rest
  <2>3. QED
    BY <1>2, <1>6, <2>1, <2>2 DEF Table
<1>14. HookWaiting' /\ WaitTypes'
  <2>1. \A g \in Fibers : pc[g] = "parked" /\ g \notin closed' =>
               sock'[call[g].fd] = sock[call[g].fd]
    BY <1>1, <1>5, <1>6 DEF InCall
  <2>2. QED
    BY <1>1, <1>8, <2>1, StayWaiting
<1>15. Timers' /\ TimerTypes'
  <2>1. \A x \in armed' \cup fired' \cup cancels' :
          /\ x \in armed \cup fired \cup cancels
          /\ x.fiber \in Fibers
    BY <1>2 DEF TimerTypes, TimerType
  <2>2. QED
    BY <1>1, <1>2, <1>4, <2>1 DEF Timers, TimerTypes, Rest
<1>16. Hook!OnlyEarlyTimersStrand'
  BY <1>2, <1>8, StayEarly
<1>17. Connecting'
  BY <1>1, <1>2, <1>4, <1>7 DEF Connecting, Rest, Hook!NoCall
<1>18. QED
  BY <1>4, <1>9, <1>10, <1>11, <1>12, <1>13, <1>14, <1>15, <1>16, <1>17

-----------------------------------------------------------------------------
(* Options.                                                                *)

LEMMA OptionsKeep ==
    ASSUME HookInv, MaxCalls \in Nat, NEW f \in Fibers, NEW fd \in Fds, Hook!Options(f, fd)
    PROVE  /\ FiberTypes' /\ WaitTypes' /\ TimerTypes'
           /\ InCall' /\ OneCaller' /\ SameSocket' /\ HookWaiting' /\ Timers'
           /\ Hook!OnlyEarlyTimersStrand' /\ Connecting'
           /\ UNCHANGED <<sock, made, conn, table_size, unhooked, pc, call>>
           /\ sock[fd] \in Hook!Sockets
<1> USE DEF HookInv
<1>1. /\ pc[f] = "idle" /\ calls[f] < MaxCalls /\ sock[fd] # Hook!Closed
      /\ calls' = [calls EXCEPT ![f] = calls[f] + 1]
      /\ result' = [result EXCEPT ![f] = "none"]
      /\ UNCHANGED <<sock, made, conn, table_size, unhooked, Hook!waitVars, Hook!timerVars, pc, call,
                     closed, cancelled>>
  BY DEF Hook!Options
<1>2. UNCHANGED <<waiter, woken, armed, fired, cancels, expired>>
  BY <1>1 DEF Hook!waitVars, Hook!timerVars
<1>3. calls[f] \in Nat /\ calls[f] + 1 \in 0..MaxCalls /\ calls'[f] = calls[f] + 1
  BY <1>1 DEF FiberTypes
<1>4. \A g \in Fibers : g # f => calls'[g] = calls[g] /\ result'[g] = result[g]
  BY <1>1 DEF FiberTypes
<1>5. FiberTypes' /\ result'[f] = "none"
  BY <1>1, <1>3 DEF FiberTypes
<1>6. ParkedStay
  BY <1>1, <1>4 DEF ParkedStay
<1>7. InCall'
  BY <1>1, <1>4 DEF InCall
<1>8. OneCaller' /\ SameSocket' /\ TimerTypes'
  BY <1>1, <1>2 DEF OneCaller, SameSocket, TimerTypes
<1>9. HookWaiting' /\ WaitTypes'
  BY <1>1, <1>6, StayWaiting
<1>10. Hook!OnlyEarlyTimersStrand'
  BY <1>2, <1>6, StayEarly
<1>11. Timers'
  <2>1. \A x \in armed \cup fired \cup cancels :
          x.fiber \in Fibers /\ x.call <= calls[x.fiber] /\ x.call \in Nat
    BY DEF Timers, TimerTypes, TimerType
  <2>2. \A x \in armed \cup fired \cup cancels :
          x.call <= calls'[x.fiber] /\ (x.fiber = f => x.call # calls'[f])
    BY <1>3, <1>4, <2>1
  <2>3. \A x \in armed \cup fired \cup cancels :
          x.call = calls'[x.fiber] /\ pc'[x.fiber] # "idle" =>
            x.fd = call'[x.fiber].fd /\ x.event = call'[x.fiber].event
    BY <1>1, <1>4, <2>1, <2>2 DEF Timers
  <2>4. \A x \in fired \cup cancels : x.call = calls'[x.fiber] => x.fiber \in expired
    BY <1>4, <2>1, <2>2 DEF Timers
  <2>5. \A g \in Fibers : (cancelled'[g] \/ result'[g] = "ETIMEDOUT") => g \in expired
    BY <1>1, <1>4, <1>5 DEF Timers
  <2>6. QED
    BY <1>2, <2>2, <2>3, <2>4, <2>5 DEF Timers
<1>12. Connecting'
  BY <1>1, <1>2, <1>4, <1>5 DEF Connecting
<1>13. sock[fd] \in Hook!Sockets
  BY <1>1 DEF SockTypes
<1>14. QED
  BY <1>1, <1>5, <1>7, <1>8, <1>9, <1>10, <1>11, <1>12, <1>13

\* An option changes what a context says, not whose it is.
LEMMA TableOptions ==
    ASSUME HookInv, NEW fd \in Fds, NEW c \in CtxType, c.sock = contexts[fd].sock,
           contexts' = IF Hook!Get(fd) # Hook!NoCtx THEN [contexts EXCEPT ![fd] = c] ELSE contexts,
           UNCHANGED <<sock, table_size, unhooked, pc, call>>
    PROVE  Table'
<1> USE DEF HookInv
<1>1. CASE Hook!Get(fd) = Hook!NoCtx
  BY <1>1 DEF Table
<1>2. CASE Hook!Get(fd) # Hook!NoCtx
  <2>1. /\ contexts[fd] # Hook!NoCtx
        /\ contexts' \in [Fds -> CtxType] /\ contexts'[fd] = c
        /\ \A d \in Fds : d # fd => contexts'[d] = contexts[d]
    BY <1>2 DEF Hook!Get, Table
  <2>2. \A d \in Fds : contexts'[d] # Hook!NoCtx =>
          /\ d < table_size
          /\ d \notin unhooked => contexts'[d].sock = sock[d] /\ sock[d] # Hook!Closed
    BY <2>1 DEF Table
  <2>3. \A g \in Fibers : pc[g] = "close" =>
          call[g].fd \in Fds /\ call[g].fd # fd /\ contexts[call[g].fd] = Hook!NoCtx
    BY <2>1 DEF Table, InCall
  <2>4. QED
    BY <2>1, <2>2, <2>3 DEF Table
<1>3. QED
  BY <1>1, <1>2

LEMMA FcntlKeeps ==
    ASSUME HookInv, MaxCalls \in Nat, NEW f \in Fibers, Hook!Fcntl(f)
    PROVE  HookInv'
<1>1. PICK fd \in Fds, on \in BOOLEAN :
        /\ Hook!Options(f, fd)
        /\ IF Hook!Get(fd) # Hook!NoCtx
             THEN /\ contexts' = [contexts EXCEPT ![fd].userNonblock = on]
                  /\ nonblock' = nonblock \cup {sock[fd]}
             ELSE /\ nonblock' = IF on THEN nonblock \cup {sock[fd]} ELSE nonblock \ {sock[fd]}
                  /\ UNCHANGED contexts
  BY DEF Hook!Fcntl
<1>2. /\ FiberTypes' /\ WaitTypes' /\ TimerTypes'
      /\ InCall' /\ OneCaller' /\ SameSocket' /\ HookWaiting' /\ Timers'
      /\ Hook!OnlyEarlyTimersStrand' /\ Connecting'
      /\ UNCHANGED <<sock, made, conn, table_size, unhooked, pc, call>>
      /\ sock[fd] \in Hook!Sockets
  BY <1>1, OptionsKeep
<1>3. SockTypes'
  BY <1>1, <1>2 DEF HookInv, SockTypes
<1> DEFINE c == [contexts[fd] EXCEPT !.userNonblock = on]
<1>4. c \in CtxType /\ c.sock = contexts[fd].sock
  BY DEF HookInv, Table, CtxType
<1>5. contexts' = IF Hook!Get(fd) # Hook!NoCtx THEN [contexts EXCEPT ![fd] = c] ELSE contexts
  BY <1>1
<1> HIDE DEF c
<1>6. Table'
  BY <1>2, <1>4, <1>5, TableOptions
<1>7. QED
  BY <1>2, <1>3, <1>6 DEF HookInv

LEMMA IoctlKeeps ==
    ASSUME HookInv, MaxCalls \in Nat, NEW f \in Fibers, Hook!Ioctl(f)
    PROVE  HookInv'
<1>1. PICK fd \in Fds, on \in BOOLEAN :
        /\ Hook!Options(f, fd)
        /\ contexts' = IF Hook!Get(fd) # Hook!NoCtx THEN [contexts EXCEPT ![fd].userNonblock = on]
                                         ELSE contexts
        /\ nonblock' = IF on THEN nonblock \cup {sock[fd]} ELSE nonblock \ {sock[fd]}
  BY DEF Hook!Ioctl
<1>2. /\ FiberTypes' /\ WaitTypes' /\ TimerTypes'
      /\ InCall' /\ OneCaller' /\ SameSocket' /\ HookWaiting' /\ Timers'
      /\ Hook!OnlyEarlyTimersStrand' /\ Connecting'
      /\ UNCHANGED <<sock, made, conn, table_size, unhooked, pc, call>>
      /\ sock[fd] \in Hook!Sockets
  BY <1>1, OptionsKeep
<1>3. SockTypes'
  BY <1>1, <1>2 DEF HookInv, SockTypes
<1> DEFINE c == [contexts[fd] EXCEPT !.userNonblock = on]
<1>4. c \in CtxType /\ c.sock = contexts[fd].sock
  BY DEF HookInv, Table, CtxType
<1>5. contexts' = IF Hook!Get(fd) # Hook!NoCtx THEN [contexts EXCEPT ![fd] = c] ELSE contexts
  BY <1>1
<1> HIDE DEF c
<1>6. Table'
  BY <1>2, <1>4, <1>5, TableOptions
<1>7. QED
  BY <1>2, <1>3, <1>6 DEF HookInv

LEMMA SetTimeoutKeeps ==
    ASSUME HookInv, MaxCalls \in Nat, NEW f \in Fibers, Hook!SetTimeout(f)
    PROVE  HookInv'
<1>1. PICK fd \in Fds :
        /\ Hook!Options(f, fd)
        /\ contexts' = IF Hook!Get(fd) # Hook!NoCtx THEN [contexts EXCEPT ![fd].timeout = TRUE]
                                         ELSE contexts
        /\ UNCHANGED <<nonblock>>
  BY DEF Hook!SetTimeout
<1>2. /\ FiberTypes' /\ WaitTypes' /\ TimerTypes'
      /\ InCall' /\ OneCaller' /\ SameSocket' /\ HookWaiting' /\ Timers'
      /\ Hook!OnlyEarlyTimersStrand' /\ Connecting'
      /\ UNCHANGED <<sock, made, conn, table_size, unhooked, pc, call>>
  BY <1>1, OptionsKeep
<1>3. SockTypes'
  BY <1>1, <1>2 DEF HookInv, SockTypes
<1> DEFINE c == [contexts[fd] EXCEPT !.timeout = TRUE]
<1>4. c \in CtxType /\ c.sock = contexts[fd].sock
  BY DEF HookInv, Table, CtxType
<1>5. contexts' = IF Hook!Get(fd) # Hook!NoCtx THEN [contexts EXCEPT ![fd] = c] ELSE contexts
  BY <1>1
<1> HIDE DEF c
<1>6. Table'
  BY <1>2, <1>4, <1>5, TableOptions
<1>7. QED
  BY <1>2, <1>3, <1>6 DEF HookInv

-----------------------------------------------------------------------------
(* do_io() and connect_with_timeout().                                     *)

LEMMA TryKeeps ==
    ASSUME HookInv, NEW f \in Fibers, Hook!Try(f)
    PROVE  HookInv'
<1>1. /\ pc[f] = "try"
      /\ \/ \E r \in {"EBADF", "ok", "EAGAIN"} : Hook!Return(f, r)
         \/ call[f].kind = "io" /\ Hook!Step(f, "arm")
      /\ UNCHANGED <<Hook!sockVars, Hook!tableVars, Hook!waitVars, Hook!timerVars>>
  BY DEF Hook!Try
<1>2. UNCHANGED <<armed, fired, cancels, expired>>
  BY <1>1 DEF Hook!timerVars
<1>3. call[f].kind # "connect"
  BY <1>1 DEF HookInv, InCall
<1>4. CASE call[f].kind = "io" /\ Hook!Step(f, "arm")
  BY <1>1, <1>2, <1>4, QuietStep
<1>5. ASSUME NEW r \in {"EBADF", "ok", "EAGAIN"}, Hook!Return(f, r)
      PROVE  HookInv'
  BY <1>1, <1>2, <1>3, <1>5, QuietReturn
<1>6. QED
  BY <1>1, <1>4, <1>5

LEMMA ArmKeeps ==
    ASSUME HookInv, NEW f \in Fibers, Hook!Arm(f)
    PROVE  HookInv'
<1>1. /\ pc[f] = "arm" /\ Hook!Step(f, "add")
      /\ armed' \subseteq armed \cup {Hook!TimerOf(f)}
      /\ UNCHANGED <<Hook!sockVars, Hook!tableVars, Hook!waitVars, fired, cancels, expired>>
  BY DEF Hook!Arm
<1>2. call[f].kind \in {"io", "connect"}
  BY <1>1 DEF HookInv, InCall
<1>3. QED
  BY <1>1, <1>2, QuietStep

LEMMA SockOptKeeps ==
    ASSUME HookInv, NEW f \in Fibers, Hook!SockOpt(f)
    PROVE  HookInv'
<1> DEFINE s == sock[call[f].fd]
           r == IF s = Hook!Closed THEN "EBADF"
                ELSE IF conn[s] = "refused" THEN "refused" ELSE "ok"
<1>1. /\ pc[f] = "sockopt" /\ Hook!Return(f, r)
      /\ UNCHANGED <<Hook!sockVars, Hook!tableVars, Hook!waitVars, Hook!timerVars>>
  BY DEF Hook!SockOpt
<1>2. UNCHANGED <<armed, fired, cancels, expired>>
  BY <1>1 DEF Hook!timerVars
<1>3. r = "ok" => conn[call[f].sock] = "ok" \/ f \in closed \/ call[f].cause \in {"cancel", "error"}
  <2> SUFFICES ASSUME r = "ok", f \notin closed, call[f].cause \notin {"cancel", "error"}
               PROVE  conn[call[f].sock] = "ok"
    OBVIOUS
  <2>1. s = call[f].sock /\ s # Hook!Closed
    BY <1>1 DEF HookInv, SameSocket, Places, Making
  <2>2. conn[s] # "refused"
    BY <2>1
  <2>3. call[f].kind = "connect"
    BY <1>1 DEF HookInv, InCall
  <2>4. conn[s] \notin {"new", "progress"}
    BY <1>1, <2>1, <2>3 DEF HookInv, Connecting
  <2>5. s \in Hook!Sockets
    BY <1>1, <2>1 DEF HookInv, InCall, SockTypes
  <2>6. QED
    BY <2>1, <2>2, <2>4, <2>5 DEF HookInv, SockTypes
<1>4. r \in {"ok", "EBADF", "refused"}
  OBVIOUS
<1> HIDE DEF r
<1>5. QED
  BY <1>1, <1>2, <1>3, <1>4, QuietReturn

LEMMA HookAddEventKeeps ==
    ASSUME HookInv, NoFiber \notin Fibers, NEW f \in Fibers, Hook!AddEvent(f)
    PROVE  HookInv'
<1> DEFINE fd == call[f].fd
           e == call[f].event
           w == [fiber |-> f, sock |-> sock[fd]]
<1> USE DEF HookInv
<1>1. /\ pc[f] = "add" /\ waiter[fd][e] = Hook!Nobody
      /\ waiter' = [waiter EXCEPT ![fd][e] = w]
      /\ woken' = [woken EXCEPT ![f] = "no"]
      /\ call' = [call EXCEPT ![f].early = cancelled[f] /\ Hook!Cancelling(f) = {}]
      /\ pc' = [pc EXCEPT ![f] = "parked"]
      /\ UNCHANGED <<calls, closed, result, cancelled>>
      /\ UNCHANGED <<Hook!sockVars, Hook!tableVars, Hook!timerVars>>
  BY DEF Hook!AddEvent, Hook!Goto
<1>2. UNCHANGED <<sock, made, conn, nonblock, table_size, contexts, unhooked, armed, fired, cancels, expired>>
  BY <1>1 DEF Hook!sockVars, Hook!tableVars, Hook!timerVars
<1>3. fd \in Fds /\ call[f].kind \in {"io", "connect"} /\ e \in Hook!Event
  BY <1>1 DEF InCall, FiberTypes, CallType
<1>4. w \in [fiber : Fibers \cup {NoFiber}, sock : {Hook!Closed} \cup Hook!Sockets]
  BY <1>3 DEF SockTypes
<1>5. /\ Rest(f) /\ pc'[f] = "parked" /\ FiberTypes'
      /\ call'[f].kind = call[f].kind /\ call'[f].fd = fd /\ call'[f].event = e
      /\ call'[f].sock = call[f].sock /\ call'[f].cause = call[f].cause
      /\ cancelled[f] /\ Hook!Cancelling(f) = {} => call'[f].early
  <2>1. PICK b \in BOOLEAN : b = (cancelled[f] /\ Hook!Cancelling(f) = {})
    OBVIOUS
  <2> DEFINE c == [call[f] EXCEPT !.early = b]
  <2>2. call' = [call EXCEPT ![f] = c]
    BY <1>1, <2>1
  <2>3. /\ c \in CallType /\ c.kind = call[f].kind /\ c.fd = fd /\ c.event = e
        /\ c.sock = call[f].sock /\ c.cause = call[f].cause /\ c.early = b
    BY DEF FiberTypes, CallType
  <2> HIDE DEF c
  <2>4. Rest(f) /\ pc'[f] = "parked" /\ FiberTypes' /\ call'[f] = c
    BY <1>1, <2>2, <2>3 DEF FiberTypes, Rest, Places
  <2>5. QED
    BY <2>1, <2>3, <2>4
<1>6. woken'[f] = "no" /\ \A g \in Fibers : g # f => woken'[g] = woken[g]
  BY <1>1 DEF WaitTypes
<1> HIDE DEF w, fd, e
<1>7. /\ waiter'[fd][e] = w
      /\ \A d \in Fds : \A ev \in Hook!Event : ~(d = fd /\ ev = e) => waiter'[d][ev] = waiter[d][ev]
  BY <1>1, <1>3 DEF WaitTypes
<1>8. WaitTypes'
  BY <1>1, <1>3, <1>4 DEF WaitTypes
<1>9. SockTypes' /\ TimerTypes'
  BY <1>2 DEF SockTypes, TimerTypes
<1>10. InCall'
  BY <1>1, <1>3, <1>5 DEF InCall, Rest, fd, e
<1>11. OneCaller'
  BY <1>1, <1>5 DEF OneCaller, Rest, Making
<1>12. SameSocket'
  BY <1>1, <1>2, <1>5 DEF SameSocket, Rest, Places, Making, fd
<1>13. Table'
  <2>1. \A g \in Fibers : pc'[g] = "close" => pc[g] = "close" /\ call'[g] = call[g]
    BY <1>5 DEF Rest
  <2>2. QED
    BY <1>2, <2>1 DEF Table
<1>14. HookWaiting'
  <2>1. ASSUME NEW d \in Fds, NEW ev \in Hook!Event, waiter'[d][ev] # Hook!Nobody
        PROVE  LET g == waiter'[d][ev].fiber IN
                 /\ g \in Fibers /\ pc'[g] = "parked" /\ woken'[g] = "no"
                 /\ call'[g].fd = d /\ call'[g].event = ev
    <3>1. CASE d = fd /\ ev = e
      BY <1>5, <1>6, <1>7, <3>1 DEF w
    <3>2. CASE ~(d = fd /\ ev = e)
      <4>1. PICK g \in Fibers : g = waiter[d][ev].fiber /\ pc[g] = "parked" /\ woken[g] = "no"
                                  /\ call[g].fd = d /\ call[g].event = ev
        BY <1>7, <2>1, <3>2 DEF HookWaiting
      <4>2. g # f
        BY <1>1, <4>1
      <4>3. QED
        BY <1>5, <1>6, <1>7, <3>2, <4>1, <4>2 DEF Rest
    <3>3. QED
      BY <3>1, <3>2
  <2>2. \A g \in Fibers : woken'[g] # "no" => pc'[g] = "parked"
    BY <1>5, <1>6 DEF HookWaiting, Rest
  <2>3. ASSUME NEW g \in Fibers, pc'[g] = "parked", woken'[g] = "no", g \notin closed'
        PROVE  waiter'[call'[g].fd][call'[g].event] = [fiber |-> g, sock |-> sock'[call'[g].fd]]
    <3>1. CASE g = f
      BY <1>2, <1>5, <1>7, <3>1 DEF w
    <3>2. CASE g # f
      <4>1. /\ call'[g] = call[g] /\ pc[g] = "parked"
            /\ waiter[call[g].fd][call[g].event] = [fiber |-> g, sock |-> sock[call[g].fd]]
        BY <1>1, <1>5, <1>6, <2>3, <3>2 DEF HookWaiting, Rest
      <4>2. call[g].fd \in Fds /\ call[g].event \in Hook!Event
        BY <4>1 DEF InCall, FiberTypes, CallType
      <4>3. ~(call[g].fd = fd /\ call[g].event = e)
        BY <1>1, <4>1 DEF Hook!Nobody
      <4>4. QED
        BY <1>2, <1>7, <4>1, <4>2, <4>3
    <3>3. QED
      BY <3>1, <3>2
  <2>4. QED
    BY <2>1, <2>2, <2>3 DEF HookWaiting
<1>15. Timers'
  <2>1. \A x \in armed' \cup fired' \cup cancels' :
          /\ x \in armed \cup fired \cup cancels
          /\ x.fiber \in Fibers
    BY <1>2 DEF TimerTypes, TimerType
  <2>2. QED
    BY <1>1, <1>2, <1>5, <2>1 DEF Timers, Rest, fd, e
<1>16. Hook!OnlyEarlyTimersStrand'
  <2> SUFFICES ASSUME NEW g \in Fibers, Hook!Overdue(g)'
               PROVE  call'[g].early \/ g \in closed'
    BY DEF Hook!OnlyEarlyTimersStrand
  <2>1. CASE g = f
    BY <1>1, <1>2, <1>5, <2>1 DEF Hook!Overdue, Hook!Cancelling
  <2>2. CASE g # f
    BY <1>1, <1>2, <1>5, <1>6, <2>2 DEF Hook!Overdue, Hook!Cancelling, Hook!OnlyEarlyTimersStrand, Rest
  <2>3. QED
    BY <2>1, <2>2
<1>17. Connecting'
  BY <1>1, <1>2, <1>5, <1>6 DEF Connecting, Rest
<1>18. QED
  BY <1>5, <1>8, <1>9, <1>10, <1>11, <1>12, <1>13, <1>14, <1>15, <1>16, <1>17

\* A fiber goes on, after its wait or because it cannot wait.
LEMMA GoOnKeeps ==
    ASSUME HookInv, NEW f \in Fibers, NEW l \in {"try", "sockopt"},
           NEW c \in {"event", "cancel", "error"}, NEW n \in Nat,
           pc[f] \in {"add", "parked"}, pc[f] = "parked" => woken[f] # "no",
           l = "try" <=> call[f].kind = "io",
           pc' = [pc EXCEPT ![f] = l],
           call' = [call EXCEPT ![f] = [call[f] EXCEPT !.round = n, !.cause = c]],
           UNCHANGED <<calls, closed, result, cancelled>>,
           UNCHANGED <<Hook!sockVars, Hook!tableVars, waiter, fired, cancels, expired>>,
           armed' \subseteq armed,
           woken' = [woken EXCEPT ![f] = "no"],
           c = "event" => pc[f] = "parked" /\ woken[f] = "event"
    PROVE  HookInv'
<1> USE DEF HookInv
<1>1. UNCHANGED <<sock, made, conn, nonblock, table_size, contexts, unhooked>>
  BY DEF Hook!sockVars, Hook!tableVars
<1>2. /\ woken' \in [Fibers -> {"no", "event", "cancel"}]
      /\ \A g \in Fibers : woken'[g] = IF g = f THEN "no" ELSE woken[g]
  BY DEF WaitTypes
<1>3. SockTypes'
  BY <1>1 DEF SockTypes
<1>4. /\ call[f].kind \in {"io", "connect"} /\ call[f].fd \in Fds /\ call[f].event \in Hook!Event
  BY DEF InCall, FiberTypes, CallType
<1> DEFINE d == [call[f] EXCEPT !.round = n, !.cause = c]
<1>5. /\ call' = [call EXCEPT ![f] = d] /\ d \in CallType
      /\ d.kind = call[f].kind /\ d.fd = call[f].fd /\ d.event = call[f].event
      /\ d.sock = call[f].sock /\ d.cause = c
  <2>1. call[f] \in CallType
    BY DEF FiberTypes
  <2>2. QED
    BY <2>1 DEF CallType
<1> HIDE DEF d
<1>6. /\ Rest(f) /\ pc'[f] = l /\ FiberTypes' /\ call'[f] = d
  BY <1>5 DEF FiberTypes, Rest, Places
<1>7. WaitTypes' /\ TimerTypes'
  BY <1>2 DEF WaitTypes, TimerTypes
<1>8. InCall'
  BY <1>4, <1>5, <1>6 DEF InCall, Rest
<1>9. OneCaller'
  BY <1>6 DEF OneCaller, Rest, Making
<1>10. SameSocket'
  BY <1>1, <1>5, <1>6 DEF SameSocket, Rest, Places, Making
<1>11. Table'
  <2>1. \A g \in Fibers : pc'[g] = "close" => pc[g] = "close" /\ call'[g] = call[g]
    BY <1>6 DEF Rest
  <2>2. QED
    BY <1>1, <2>1 DEF Table
<1>12. HookWaiting'
  <2>1. \A b \in Fds : \A e \in Hook!Event : waiter[b][e] # Hook!Nobody => waiter[b][e].fiber # f
    BY DEF HookWaiting
  <2>2. \A b \in Fds : \A e \in Hook!Event : waiter'[b][e] # Hook!Nobody =>
         LET g == waiter'[b][e].fiber IN
           /\ g \in Fibers /\ pc'[g] = "parked" /\ woken'[g] = "no"
           /\ call'[g].fd = b /\ call'[g].event = e
    BY <1>2, <1>6, <2>1 DEF HookWaiting, Rest
  <2>3. \A g \in Fibers : woken'[g] # "no" => pc'[g] = "parked"
    BY <1>2, <1>6 DEF HookWaiting, Rest
  <2>4. \A g \in Fibers : pc'[g] = "parked" /\ woken'[g] = "no" /\ g \notin closed' =>
         waiter'[call'[g].fd][call'[g].event] = [fiber |-> g, sock |-> sock'[call'[g].fd]]
    BY <1>1, <1>2, <1>6 DEF HookWaiting, Rest
  <2>5. QED
    BY <2>2, <2>3, <2>4 DEF HookWaiting
<1>13. Timers'
  <2>1. \A x \in armed' \cup fired' \cup cancels' :
          /\ x \in armed \cup fired \cup cancels
          /\ x.fiber \in Fibers
    BY DEF TimerTypes, TimerType
  <2>2. QED
    BY <1>5, <1>6, <2>1 DEF Timers, Rest
<1>14. Hook!OnlyEarlyTimersStrand'
  BY <1>2, <1>6 DEF Hook!OnlyEarlyTimersStrand, Hook!Overdue, Hook!Cancelling, Rest
<1>15. Connecting'
  <2>1. ASSUME NEW g \in Fibers, g # f, call'[g].kind = "connect"
        PROVE  /\ call'[g].sock \in 1..made'
               /\ conn'[call'[g].sock] # "new"
               /\ pc'[g] = "parked" /\ woken'[g] = "event" /\ g \notin closed'
                    => conn'[call'[g].sock] # "progress"
               /\ pc'[g] = "sockopt" /\ g \notin closed' /\ call'[g].cause \notin {"cancel", "error"}
                    => conn'[call'[g].sock] # "progress"
               /\ result'[g] = "ok" => conn'[call'[g].sock] = "ok" \/ g \in closed'
                                         \/ call'[g].cause \in {"cancel", "error"}
    BY <1>1, <1>2, <1>6, <2>1 DEF Connecting, Rest
  <2>2. ASSUME call[f].kind = "connect"
        PROVE  /\ call[f].sock \in 1..made
               /\ conn[call[f].sock] # "new"
               /\ f \notin closed /\ c = "event" => conn[call[f].sock] # "progress"
               /\ result[f] = "none"
    BY <2>2 DEF Connecting, InCall
  <2>3. QED
    BY <1>1, <1>2, <1>5, <1>6, <2>1, <2>2 DEF Connecting
<1>16. QED
  BY <1>3, <1>6, <1>7, <1>8, <1>9, <1>10, <1>11, <1>12, <1>13, <1>14, <1>15

LEMMA AddEventFailsKeeps ==
    ASSUME HookInv, NEW f \in Fibers, Hook!AddEventFails(f)
    PROVE  HookInv'
<1>1. /\ pc[f] = "add" /\ armed' \subseteq armed
      /\ UNCHANGED <<Hook!sockVars, Hook!tableVars, Hook!waitVars, fired, cancels, expired>>
  BY DEF Hook!AddEventFails
<1>2. call[f].kind \in {"io", "connect"}
  BY <1>1 DEF HookInv, InCall
<1>3. CASE call[f].kind = "io"
  <2>1. PICK r \in {"EBADF", "ENOENT"} : Hook!Return(f, r)
    BY <1>3 DEF Hook!AddEventFails
  <2>2. QED
    BY <1>1, <1>3, <2>1, QuietReturn
<1>4. CASE call[f].kind = "connect"
  <2>1. /\ pc' = [pc EXCEPT ![f] = "sockopt"]
        /\ call' = [call EXCEPT ![f].cause = "error"]
        /\ UNCHANGED <<calls, closed, result, cancelled>>
    BY <1>4 DEF Hook!AddEventFails, Hook!Goto
  <2>2. UNCHANGED waiter /\ woken' = [woken EXCEPT ![f] = "no"]
    BY <1>1 DEF Hook!waitVars, HookInv, WaitTypes, HookWaiting
  <2>3. call[f] \in CallType /\ call[f].round \in Nat
    BY DEF HookInv, FiberTypes, CallType
  <2>4. call' = [call EXCEPT ![f] = [call[f] EXCEPT !.round = call[f].round, !.cause = "error"]]
    <3>1. [call[f] EXCEPT !.round = call[f].round, !.cause = "error"] = [call[f] EXCEPT !.cause = "error"]
      BY <2>3 DEF CallType
    <3>2. QED
      BY <2>1, <3>1
  <2>5. QED
    BY <1>1, <1>4, <2>1, <2>2, <2>3, <2>4, GoOnKeeps
<1>5. QED
  BY <1>2, <1>3, <1>4

LEMMA AddEventAbortsKeeps ==
    ASSUME HookInv, NEW f \in Fibers, Hook!AddEventAborts(f)
    PROVE  HookInv'
<1>1. /\ pc[f] = "add" /\ Hook!Step(f, "aborted")
      /\ UNCHANGED <<Hook!sockVars, Hook!tableVars, Hook!waitVars, armed, fired, cancels, expired>>
  BY DEF Hook!AddEventAborts, Hook!timerVars
<1>2. call[f].kind \in {"io", "connect"}
  BY <1>1 DEF HookInv, InCall
<1>3. QED
  BY <1>1, <1>2, QuietStep

LEMMA ResumeKeeps ==
    ASSUME HookInv, NEW f \in Fibers, Hook!Resume(f)
    PROVE  HookInv'
<1> USE DEF HookInv
<1>1. /\ pc[f] = "parked" /\ woken[f] # "no"
      /\ armed' = armed \ {Hook!TimerOf(f)}
      /\ woken' = [woken EXCEPT ![f] = "no"]
      /\ UNCHANGED <<Hook!sockVars, Hook!tableVars, waiter, fired, cancels, expired>>
  BY DEF Hook!Resume
<1>2. UNCHANGED <<sock, made, conn, nonblock, table_size, contexts, unhooked>>
  BY <1>1 DEF Hook!sockVars, Hook!tableVars
<1>3. /\ woken' \in [Fibers -> {"no", "event", "cancel"}]
      /\ \A g \in Fibers : woken'[g] = IF g = f THEN "no" ELSE woken[g]
  BY <1>1 DEF WaitTypes
<1>4. CASE cancelled[f]
  <2>1. Hook!Return(f, "ETIMEDOUT")
    BY <1>4 DEF Hook!Resume
  <2>2. pc[f] # "idle" /\ armed' \subseteq armed
    BY <1>1
  <2>3. /\ FiberTypes' /\ WaitTypes' /\ TimerTypes'
        /\ InCall' /\ OneCaller' /\ SameSocket' /\ HookWaiting' /\ Timers'
        /\ Hook!OnlyEarlyTimersStrand' /\ Connecting'
        /\ Rest(f) /\ pc'[f] = "idle"
    BY <1>1, <1>2, <1>3, <1>4, <2>1, <2>2, ReturnKeeps
  <2>4. Table'
    <3>1. \A g \in Fibers : pc'[g] = "close" => pc[g] = "close" /\ call'[g] = call[g]
      BY <2>3 DEF Rest
    <3>2. QED
      BY <1>2, <3>1 DEF Table
  <2>5. SockTypes'
    BY <1>2 DEF SockTypes
  <2>6. QED
    BY <2>3, <2>4, <2>5
<1>5. CASE ~cancelled[f]
  <2>1. PICK l \in {"try", "sockopt"} :
          /\ l = "try" <=> call[f].kind = "io"
          /\ pc' = [pc EXCEPT ![f] = l]
          /\ UNCHANGED <<calls, closed, result, cancelled>>
    BY <1>5 DEF Hook!Resume, Hook!Goto
  <2>2. call' = [call EXCEPT ![f] = [call[f] EXCEPT !.round = call[f].round + 1, !.cause = woken[f]]]
    BY <1>5 DEF Hook!Resume
  <2>3. woken[f] \in {"event", "cancel"} /\ call[f].round + 1 \in Nat
    BY <1>1 DEF FiberTypes, CallType, WaitTypes
  <2>4. armed' \subseteq armed
    BY <1>1
  <2>5. QED
    BY <1>1, <2>1, <2>2, <2>3, <2>4, GoOnKeeps
<1>6. QED
  BY <1>4, <1>5

-----------------------------------------------------------------------------
(* Timers, peers and the event loop.                                       *)

LEMMA TimerExpiresKeeps ==
    ASSUME HookInv, NEW x \in armed, Hook!TimerExpires(x)
    PROVE  HookInv'
<1> USE DEF HookInv
<1>1. /\ armed' = armed \ {x} /\ fired' = fired \cup {x}
      /\ expired' = expired \cup {x.fiber}
      /\ UNCHANGED <<Hook!sockVars, Hook!tableVars, Hook!waitVars, Hook!fiberVars, cancels>>
  BY DEF Hook!TimerExpires
<1>2. UNCHANGED <<sock, made, conn, nonblock, table_size, contexts, unhooked, waiter, woken, pc, call,
                  calls, closed, result, cancelled>>
  BY <1>1 DEF Hook!sockVars, Hook!tableVars, Hook!waitVars, Hook!fiberVars
<1>3. x \in TimerType /\ x.fiber \in Fibers
  BY DEF TimerTypes, TimerType
<1>4. TimerTypes'
  BY <1>1, <1>3 DEF TimerTypes
<1>5. Timers'
  BY <1>1, <1>2 DEF Timers
<1>6. /\ SockTypes' /\ WaitTypes' /\ FiberTypes' /\ InCall' /\ OneCaller' /\ SameSocket'
      /\ Table' /\ HookWaiting'
  BY <1>2 DEF SockTypes, WaitTypes, FiberTypes, InCall, OneCaller, SameSocket, Table, HookWaiting
<1>7. Hook!OnlyEarlyTimersStrand' /\ Connecting'
  BY <1>1, <1>2 DEF Hook!OnlyEarlyTimersStrand, Hook!Overdue, Hook!Cancelling, Connecting
<1>8. QED
  BY <1>4, <1>5, <1>6, <1>7

LEMMA CallbackKeeps ==
    ASSUME HookInv, NEW x \in fired, Hook!Callback(x)
    PROVE  HookInv'
<1> USE DEF HookInv
<1>1. /\ fired' = fired \ {x}
      /\ UNCHANGED <<Hook!sockVars, Hook!tableVars, Hook!waitVars, armed, expired, pc, call, calls,
                     closed, result>>
  BY DEF Hook!Callback
<1>2. UNCHANGED <<sock, made, conn, nonblock, table_size, contexts, unhooked, waiter, woken>>
  BY <1>1 DEF Hook!sockVars, Hook!tableVars, Hook!waitVars
<1>3. x \in TimerType /\ x.fiber \in Fibers
  BY DEF TimerTypes, TimerType
<1>4. \/ UNCHANGED <<cancelled, cancels>>
      \/ /\ x.call = calls[x.fiber]
         /\ cancelled' = [cancelled EXCEPT ![x.fiber] = TRUE]
         /\ cancels' = cancels \cup {x}
  BY DEF Hook!Callback, Hook!TinfoLives
<1>5. FiberTypes'
  BY <1>1, <1>4 DEF FiberTypes
<1>6. TimerTypes'
  BY <1>1, <1>3, <1>4 DEF TimerTypes
<1>7. /\ SockTypes' /\ WaitTypes' /\ InCall' /\ OneCaller' /\ SameSocket'
      /\ Table' /\ HookWaiting' /\ Connecting'
  BY <1>1, <1>2 DEF SockTypes, WaitTypes, InCall, OneCaller, SameSocket, Table, HookWaiting, Connecting
<1>8. \A g \in Fibers : cancelled'[g] =>
        cancelled[g] \/ (g = x.fiber /\ x \in cancels' /\ x.call = calls[g])
  BY <1>3, <1>4 DEF FiberTypes
<1>9. cancels' \subseteq cancels \cup {x} /\ cancels \subseteq cancels'
  BY <1>4
<1>10. Timers'
  <2>1. \A y \in armed' \cup fired' \cup cancels' : y \in armed \cup fired \cup cancels
    BY <1>1, <1>9
  <2>2. \A y \in fired' \cup cancels' : y \in fired \cup cancels
    BY <1>1, <1>9
  <2>3. \A g \in Fibers : cancelled'[g] => g \in expired
    BY <1>8 DEF Timers
  <2>4. QED
    BY <1>1, <2>1, <2>2, <2>3 DEF Timers
<1>11. Hook!OnlyEarlyTimersStrand'
  <2> SUFFICES ASSUME NEW g \in Fibers, Hook!Overdue(g)'
               PROVE  call'[g].early \/ g \in closed'
    BY DEF Hook!OnlyEarlyTimersStrand
  <2>1. cancelled'[g] /\ Hook!Cancelling(g)' = {} /\ pc[g] = "parked" /\ woken[g] = "no"
    BY <1>1, <1>2 DEF Hook!Overdue
  <2>2. ~(g = x.fiber /\ x \in cancels' /\ x.call = calls[g])
    BY <1>1, <2>1 DEF Hook!Cancelling
  <2>3. cancelled[g] /\ Hook!Cancelling(g) = {}
    BY <1>1, <1>8, <1>9, <2>1, <2>2 DEF Hook!Cancelling
  <2>4. QED
    BY <1>1, <2>1, <2>3 DEF Hook!OnlyEarlyTimersStrand, Hook!Overdue
<1>12. QED
  BY <1>5, <1>6, <1>7, <1>10, <1>11

LEMMA CancelEventKeeps ==
    ASSUME HookInv, NoFiber \notin Fibers, NEW x \in cancels, Hook!CancelEvent(x)
    PROVE  HookInv'
<1> USE DEF HookInv
<1>1. /\ cancels' = cancels \ {x}
      /\ UNCHANGED <<Hook!sockVars, Hook!tableVars, Hook!fiberVars, armed, fired, expired>>
      /\ IF x.event \in Hook!Watched(x.fd) THEN Hook!Wake(x.fd, {x.event}, "cancel")
                                      ELSE UNCHANGED Hook!waitVars
  BY DEF Hook!CancelEvent
<1>2. UNCHANGED <<sock, made, conn, nonblock, table_size, contexts, unhooked, pc, call,
                  calls, closed, result, cancelled>>
  BY <1>1 DEF Hook!sockVars, Hook!tableVars, Hook!fiberVars
<1>3. x \in TimerType /\ x.fiber \in Fibers /\ x.fd \in Fds /\ x.event \in Hook!Event
  BY DEF TimerTypes, TimerType
<1>4. ParkedStay
  BY <1>2 DEF ParkedStay
<1>5. /\ SockTypes' /\ FiberTypes' /\ InCall' /\ OneCaller' /\ SameSocket' /\ Table'
  BY <1>2 DEF SockTypes, FiberTypes, InCall, OneCaller, SameSocket, Table
<1>6. TimerTypes' /\ Timers'
  BY <1>1, <1>2 DEF TimerTypes, Timers
<1>7. /\ WaitTypes' /\ HookWaiting'
      /\ \A g \in Fibers : woken'[g] \in {woken[g], "cancel"}
      /\ x.event \in Hook!Watched(x.fd) =>
           woken'[waiter[x.fd][x.event].fiber] = "cancel"
  <2>1. CASE x.event \in Hook!Watched(x.fd)
    <3>1. {x.event} \in SUBSET Hook!Watched(x.fd) /\ Hook!Wake(x.fd, {x.event}, "cancel")
      BY <1>1, <2>1
    <3>2. /\ WaitTypes'
          /\ \A g \in Fibers : woken'[g] \in {woken[g], "cancel"}
          /\ \A g \in Fibers : \A e \in {x.event} : waiter[x.fd][e].fiber = g => woken'[g] = "cancel"
      BY <1>3, <3>1, WakeFacts
    <3>3. HookWaiting'
      BY <1>2, <1>3, <1>4, <3>1, WakeWaiting
    <3>4. waiter[x.fd][x.event].fiber \in Fibers
      BY <1>3, <2>1 DEF Hook!Watched, HookWaiting
    <3>5. QED
      BY <3>2, <3>3, <3>4
  <2>2. CASE x.event \notin Hook!Watched(x.fd)
    <3>1. UNCHANGED <<Hook!waitVars, waiter, woken>>
      BY <1>1, <2>2 DEF Hook!waitVars
    <3>2. QED
      BY <1>2, <1>4, <2>2, <3>1, StayWaiting
  <2>3. QED
    BY <2>1, <2>2
<1>8. Hook!OnlyEarlyTimersStrand'
  <2> SUFFICES ASSUME NEW g \in Fibers, Hook!Overdue(g)', g \notin closed
               PROVE  call[g].early
    BY <1>2 DEF Hook!OnlyEarlyTimersStrand
  <2>1. /\ cancelled[g] /\ Hook!Cancelling(g)' = {} /\ pc[g] = "parked" /\ woken[g] = "no"
        /\ woken'[g] = "no"
    BY <1>2, <1>7 DEF Hook!Overdue
  <2>2. CASE x \in Hook!Cancelling(g)
    <3>1. x.fiber = g /\ x.fd = call[g].fd /\ x.event = call[g].event
      BY <2>1, <2>2 DEF Hook!Cancelling, Timers
    <3>2. waiter[x.fd][x.event] = [fiber |-> g, sock |-> sock[x.fd]]
      BY <2>1, <3>1 DEF HookWaiting
    <3>3. x.event \in Hook!Watched(x.fd)
      BY <1>3, <3>2 DEF Hook!Watched, Hook!Nobody
    <3>4. woken'[g] = "cancel"
      BY <1>7, <3>2, <3>3
    <3>5. QED
      BY <2>1, <3>4
  <2>3. CASE x \notin Hook!Cancelling(g)
    <3>1. Hook!Cancelling(g) = {}
      BY <1>1, <1>2, <2>1, <2>3 DEF Hook!Cancelling
    <3>2. QED
      BY <2>1, <3>1 DEF Hook!OnlyEarlyTimersStrand, Hook!Overdue
  <2>4. QED
    BY <2>2, <2>3
<1>9. Connecting'
  BY <1>2, <1>7 DEF Connecting
<1>10. QED
  BY <1>5, <1>6, <1>7, <1>8, <1>9

LEMMA CloseUnhookedKeeps ==
    ASSUME HookInv, NEW fd \in Fds, Hook!CloseUnhooked(fd)
    PROVE  HookInv'
<1> USE DEF HookInv
<1>1. /\ sock' = [sock EXCEPT ![fd] = Hook!Closed]
      /\ unhooked' = unhooked \cup {fd}
      /\ closed' = closed \cup Hook!Using(fd)
      /\ UNCHANGED <<made, conn, nonblock, table_size, contexts, Hook!waitVars, Hook!timerVars,
                     pc, call, calls, cancelled, result>>
  BY DEF Hook!CloseUnhooked
<1>2. UNCHANGED <<waiter, woken, armed, fired, cancels, expired>>
  BY <1>1 DEF Hook!waitVars, Hook!timerVars
<1>3. Free(fd)
  BY ExclusiveFree DEF Hook!CloseUnhooked
<1>4. sock'[fd] = Hook!Closed /\ \A d \in Fds : d # fd => sock'[d] = sock[d]
  BY <1>1 DEF SockTypes
<1>5. \A g \in Fibers : pc[g] # "idle" /\ call[g].fd = fd => g \in closed'
  BY <1>1 DEF Hook!Using
<1>6. closed \subseteq closed' /\ closed' \subseteq Fibers
  BY <1>1 DEF FiberTypes, Hook!Using
<1>7. SockTypes' /\ FiberTypes'
  BY <1>1, <1>6 DEF SockTypes, FiberTypes, Hook!Closed
<1>8. ParkedStay
  BY <1>1, <1>6 DEF ParkedStay
<1>9. /\ TimerTypes' /\ InCall' /\ OneCaller' /\ Timers'
  BY <1>1, <1>2 DEF TimerTypes, InCall, OneCaller, Timers
<1>10. SameSocket'
  <2> SUFFICES ASSUME NEW g \in Fibers, pc[g] # "idle"
               PROVE  /\ pc[g] \in Making =>
                           /\ sock'[call[g].fd] # Hook!Closed
                           /\ call[g].sock \in {sock'[call[g].fd], Hook!Closed}
                      /\ pc[g] \in Places \ (Making \cup {"idle"}) /\ g \notin closed'
                           => sock'[call[g].fd] = call[g].sock /\ call[g].sock # Hook!Closed
    BY <1>1 DEF SameSocket, Making
  <2>1. call[g].fd \in Fds
    BY DEF InCall
  <2>2. CASE call[g].fd = fd
    BY <1>3, <1>5, <2>2 DEF Free
  <2>3. CASE call[g].fd # fd
    BY <1>4, <1>6, <2>1, <2>3 DEF SameSocket
  <2>4. QED
    BY <2>2, <2>3
<1>11. Table'
  BY <1>1, <1>4 DEF Table
<1>12. HookWaiting' /\ WaitTypes'
  <2>1. \A g \in Fibers : pc[g] = "parked" /\ g \notin closed' =>
               sock'[call[g].fd] = sock[call[g].fd]
    BY <1>4, <1>5 DEF InCall
  <2>2. QED
    BY <1>1, <1>8, <2>1, StayWaiting
<1>13. Hook!OnlyEarlyTimersStrand'
  BY <1>2, <1>8, StayEarly
<1>14. Connecting'
  BY <1>1, <1>2, <1>6 DEF Connecting
<1>15. QED
  BY <1>7, <1>9, <1>10, <1>11, <1>12, <1>13, <1>14

LEMMA ConnectEndsKeeps ==
    ASSUME HookInv, MaxSockets \in Nat, NEW fd \in Fds, Hook!ConnectEnds(fd)
    PROVE  HookInv'
<1> USE DEF HookInv
<1>1. PICK c \in {"ok", "refused"} :
        /\ conn' = [conn EXCEPT ![sock[fd]] = c]
        /\ sock[fd] # Hook!Closed /\ conn[sock[fd]] = "progress"
        /\ UNCHANGED <<sock, made, nonblock, Hook!tableVars, Hook!waitVars, Hook!timerVars, Hook!fiberVars>>
  BY DEF Hook!ConnectEnds
<1>2. UNCHANGED <<sock, made, nonblock, table_size, contexts, unhooked, waiter, woken, armed, fired,
                  cancels, expired, pc, call, calls, closed, result, cancelled>>
  BY <1>1 DEF Hook!tableVars, Hook!waitVars, Hook!timerVars, Hook!fiberVars
<1>3. sock[fd] \in Hook!Sockets
  BY <1>1 DEF SockTypes
<1>4. SockTypes'
  BY <1>1, <1>3 DEF SockTypes
<1>5. conn'[sock[fd]] = c /\ \A s \in Hook!Sockets : s # sock[fd] => conn'[s] = conn[s]
  BY <1>1, <1>3 DEF SockTypes
<1>6. /\ WaitTypes' /\ FiberTypes' /\ TimerTypes' /\ InCall' /\ OneCaller' /\ SameSocket'
      /\ Table' /\ HookWaiting' /\ Timers'
  BY <1>2 DEF WaitTypes, FiberTypes, TimerTypes, InCall, OneCaller, SameSocket, Table, HookWaiting, Timers
<1>7. Hook!OnlyEarlyTimersStrand'
  BY <1>2 DEF Hook!OnlyEarlyTimersStrand, Hook!Overdue, Hook!Cancelling
<1>8. Connecting'
  <2>1. 1..made \subseteq Hook!Sockets
    BY DEF SockTypes, Hook!Sockets
  <2>2. \A s \in 1..made : conn'[s] = conn[s] \/ (conn[s] = "progress" /\ conn'[s] \in {"ok", "refused"})
    BY <1>1, <1>5, <2>1
  <2>3. QED
    BY <1>2, <2>2 DEF Connecting
<1>9. QED
  BY <1>4, <1>6, <1>7, <1>8

LEMMA HookReportKeeps ==
    ASSUME HookInv, NoFiber \notin Fibers, NEW fd \in Fds, NEW e \in Hook!Event, Hook!Report(fd, e)
    PROVE  HookInv'
<1> USE DEF HookInv
<1>1. /\ e \in Hook!Watched(fd) /\ conn[sock[fd]] # "progress"
      /\ Hook!Wake(fd, {e}, "event")
      /\ UNCHANGED <<Hook!sockVars, Hook!tableVars, Hook!timerVars, Hook!fiberVars>>
  BY DEF Hook!Report
<1>2. UNCHANGED <<sock, made, conn, nonblock, table_size, contexts, unhooked, armed, fired, cancels,
                  expired, pc, call, calls, closed, result, cancelled>>
  BY <1>1 DEF Hook!sockVars, Hook!tableVars, Hook!timerVars, Hook!fiberVars
<1>3. ParkedStay
  BY <1>2 DEF ParkedStay
<1>4. /\ SockTypes' /\ FiberTypes' /\ InCall' /\ OneCaller' /\ SameSocket' /\ Table'
      /\ TimerTypes' /\ Timers'
  BY <1>2 DEF SockTypes, FiberTypes, InCall, OneCaller, SameSocket, Table, TimerTypes, Timers
<1>5. {e} \in SUBSET Hook!Watched(fd)
  BY <1>1
<1>6. /\ WaitTypes'
      /\ \A g \in Fibers : woken'[g] \in {woken[g], "event"}
      /\ \A g \in Fibers : woken'[g] # woken[g] =>
           pc[g] = "parked" /\ woken[g] = "no" /\ call[g].fd = fd /\ call[g].event \in {e}
  BY <1>1, <1>5, WakeFacts
<1>7. HookWaiting' /\ Hook!OnlyEarlyTimersStrand'
  BY <1>1, <1>2, <1>3, <1>5, WakeWaiting, WakeEarly
<1>8. Connecting'
  <2>1. ASSUME NEW g \in Fibers, call[g].kind = "connect", pc[g] = "parked",
               woken'[g] = "event", g \notin closed
        PROVE  conn[call[g].sock] # "progress"
    <3>1. CASE woken[g] = "event"
      BY <2>1, <3>1 DEF Connecting
    <3>2. CASE woken[g] # "event"
      <4>1. call[g].fd = fd
        BY <1>6, <2>1, <3>2
      <4>2. sock[fd] = call[g].sock
        BY <2>1, <4>1 DEF SameSocket, Places, Making
      <4>3. QED
        BY <1>1, <4>2
    <3>3. QED
      BY <3>1, <3>2
  <2>2. QED
    BY <1>2, <2>1 DEF Connecting
<1>9. QED
  BY <1>4, <1>6, <1>7, <1>8

-----------------------------------------------------------------------------
(* The invariant and what it says.                                         *)

\* What the constants are: descriptors are numbers and nobody is a fiber.
Params ==
    /\ NoFiber \notin Fibers /\ Fds \subseteq Nat
    /\ MaxSockets \in Nat /\ MaxCalls \in Nat

LEMMA HookInitInv ==
    ASSUME Params, Hook!Init
    PROVE  HookInv
<1>1. SockTypes
  BY DEF Params, Hook!Init, SockTypes, Hook!Closed, Hook!Sockets
<1>2. WaitTypes
  BY DEF Hook!Init, WaitTypes, Hook!Nobody
<1>3. TimerTypes
  BY DEF Hook!Init, TimerTypes
<1>4. FiberTypes
  BY NoCallType DEF Params, Hook!Init, FiberTypes, Places
<1>5. \A f \in Fibers : pc[f] = "idle" /\ call[f] = Hook!NoCall /\ ~cancelled[f] /\ result[f] = "none"
  BY DEF Hook!Init
<1>6. InCall /\ OneCaller /\ SameSocket
  BY <1>5 DEF InCall, OneCaller, SameSocket, Hook!NoCall, Making
<1>7. Table
  BY <1>5, NoCallType DEF Hook!Init, Table
<1>8. HookWaiting /\ Timers
  BY <1>5 DEF Hook!Init, HookWaiting, Timers
<1>9. Hook!OnlyEarlyTimersStrand /\ Connecting
  BY <1>5 DEF Hook!OnlyEarlyTimersStrand, Hook!Overdue, Connecting, Hook!NoCall
<1>10. QED
  BY <1>1, <1>2, <1>3, <1>4, <1>6, <1>7, <1>8, <1>9 DEF HookInv

LEMMA HookNextInv ==
    ASSUME Params, HookInv, [Hook!Next]_(Hook!vars)
    PROVE  HookInv'
<1> USE DEF Params
<1>1. ASSUME NEW f \in Fibers, Hook!Call(f)
      PROVE  HookInv'
  <2>1. CASE Hook!Socket(f) \/ Hook!LookUp(f) \/ Hook!Create(f)
    BY <2>1, SocketKeeps, LookUpKeeps, CreateKeeps
  <2>2. CASE Hook!Close(f) \/ Hook!Del(f) \/ Hook!CloseSocket(f)
    BY <2>2, CloseKeeps, DelKeeps, CloseSocketKeeps
  <2>3. CASE Hook!Fcntl(f) \/ Hook!Ioctl(f) \/ Hook!SetTimeout(f)
    BY <2>3, FcntlKeeps, IoctlKeeps, SetTimeoutKeeps
  <2>4. CASE Hook!DoIo(f) \/ Hook!Try(f) \/ Hook!Arm(f) \/ Hook!AddEvent(f)
    BY <2>4, DoIoKeeps, TryKeeps, ArmKeeps, HookAddEventKeeps
  <2>5. CASE Hook!AddEventFails(f) \/ Hook!AddEventAborts(f) \/ Hook!Resume(f) \/ Hook!Connect(f) \/ Hook!SockOpt(f)
    BY <2>5, AddEventFailsKeeps, AddEventAbortsKeeps, ResumeKeeps, HookConnectKeeps, SockOptKeeps
  <2>6. QED
    BY <1>1, <2>1, <2>2, <2>3, <2>4, <2>5 DEF Hook!Call
<1>2. CASE UNCHANGED Hook!vars
  <2>1. UNCHANGED <<sock, made, conn, nonblock, table_size, contexts, unhooked, waiter, woken, armed, fired,
                    cancels, expired, pc, call, calls, closed, result, cancelled>>
    BY <1>2 DEF Hook!vars, Hook!sockVars, Hook!tableVars, Hook!waitVars, Hook!timerVars, Hook!fiberVars
  <2>2. /\ SockTypes' /\ WaitTypes' /\ FiberTypes' /\ TimerTypes' /\ InCall' /\ OneCaller'
        /\ SameSocket'
    BY <2>1 DEF HookInv, SockTypes, WaitTypes, FiberTypes, TimerTypes, InCall, OneCaller, SameSocket
  <2>3. /\ Table' /\ HookWaiting' /\ Timers' /\ Connecting' /\ Hook!OnlyEarlyTimersStrand'
    BY <2>1 DEF HookInv, Table, HookWaiting, Timers, Connecting, Hook!OnlyEarlyTimersStrand, Hook!Overdue, Hook!Cancelling
  <2>4. QED
    BY <2>2, <2>3 DEF HookInv
<1>3. ASSUME NEW x \in armed, Hook!TimerExpires(x) PROVE HookInv'
  BY <1>3, TimerExpiresKeeps
<1>4. ASSUME NEW x \in fired, Hook!Callback(x) PROVE HookInv'
  BY <1>4, CallbackKeeps
<1>5. ASSUME NEW x \in cancels, Hook!CancelEvent(x) PROVE HookInv'
  BY <1>5, CancelEventKeeps
<1>6. ASSUME NEW fd \in Fds, NEW e \in Hook!Event, Hook!Report(fd, e) PROVE HookInv'
  BY <1>6, HookReportKeeps
<1>7. ASSUME NEW fd \in Fds, Hook!ConnectEnds(fd) \/ Hook!CloseUnhooked(fd) PROVE HookInv'
  BY <1>7, ConnectEndsKeeps, CloseUnhookedKeeps
<1>8. QED
  BY <1>1, <1>2, <1>3, <1>4, <1>5, <1>6, <1>7 DEF Hook!Next

\* The invariant the theorems below are read off.
THEOREM HookInvariance ==
    ASSUME Params
    PROVE  Hook!Spec => []HookInv
<1>1. Hook!Init => HookInv
  BY HookInitInv
<1>2. HookInv /\ [Hook!Next]_(Hook!vars) => HookInv'
  BY HookNextInv
<1>3. QED
  BY <1>1, <1>2, PTL DEF Hook!Spec

\* TypeOK: the variables keep their types, and only a parked fiber is
\* registered with the IOManager or scheduled by it.
THEOREM HookTypeCorrect ==
    ASSUME Params
    PROVE  Hook!Spec => []Hook!TypeOK
<1>1. HookInv => Hook!TypeOK
  <2> SUFFICES ASSUME HookInv PROVE Hook!TypeOK
    OBVIOUS
  <2> USE DEF HookInv
  <2>1. \A fd \in Fds, e \in Hook!Event :
          LET f == waiter[fd][e].fiber IN
            f # NoFiber => pc[f] = "parked" /\ call[f].fd = fd /\ call[f].event = e
    BY DEF HookWaiting, Hook!Nobody
  <2>2. \A x \in armed \cup fired \cup cancels : x.call \in 1..MaxCalls
    BY DEF TimerTypes, TimerType
  <2>3. QED
    BY <2>1, <2>2 DEF Hook!TypeOK, SockTypes, WaitTypes, FiberTypes, Table, CtxType, HookWaiting
<1>2. QED
  BY <1>1, HookInvariance, PTL

\* TimeoutIsOwn: do_io() and connect_with_timeout() return ETIMEDOUT only when
\* a timer of the very call has expired, however late the callbacks of earlier
\* calls run and whatever other fibers do with the descriptor.
THEOREM TimeoutsAreOwn ==
    ASSUME Params
    PROVE  Hook!Spec => []Hook!TimeoutIsOwn
<1>1. HookInv => Hook!TimeoutIsOwn
  BY DEF HookInv, Timers, Hook!TimeoutIsOwn
<1>2. QED
  BY <1>1, HookInvariance, PTL

\* OnlyEarlyTimersStrand: a fiber whose timeout has passed stays parked only
\* if the callback was through before its event was registered, or close() was
\* called for its descriptor.
THEOREM TimeoutsResume ==
    ASSUME Params
    PROVE  Hook!Spec => []Hook!OnlyEarlyTimersStrand
<1>1. HookInv => Hook!OnlyEarlyTimersStrand
  BY DEF HookInv
<1>2. QED
  BY <1>1, HookInvariance, PTL

\* ConnectReportsTheTruth: connect() returns success for a connection that is
\* not established only after close(), a cancelled wait or an addEvent() that
\* failed, as it does on a number whose last socket left its events behind.
THEOREM ConnectIsTrue ==
    ASSUME Params
    PROVE  Hook!Spec => []Hook!ConnectReportsTheTruth
<1>1. HookInv => Hook!ConnectReportsTheTruth
  BY DEF HookInv, Connecting, Hook!ConnectReportsTheTruth
<1>2. QED
  BY <1>1, HookInvariance, PTL

\* ContextIsOfSocket: FdManager never hands out the context of a socket that
\* had the descriptor before, however numbers are reused and however the table
\* grows, unless the number was closed on a thread without hooks.
THEOREM TableIsCurrent ==
    ASSUME Params
    PROVE  Hook!Spec => []Hook!ContextIsOfSocket
<1>1. HookInv => Hook!ContextIsOfSocket
  BY DEF HookInv, Table, Hook!ContextIsOfSocket, Hook!Get
<1>2. QED
  BY <1>1, HookInvariance, PTL

-----------------------------------------------------------------------------
(* HttpServer.  A client's fiber is somewhere else than a closing.         *)

CONSTANTS Servlets, Keepalive, MaxRequests, MaxEdits

VARIABLES fiber, sent, inbox, request, slt, answers, gone, piped, m_datas, m_globs, edits

Http == INSTANCE HttpServer WITH at <- fiber

HttpRequests == [id : Nat, keep : BOOLEAN]

SessionTypes ==
    /\ fiber \in [Clients -> {"none", "recv", "handle", "send", "done"}]
    /\ sent \in [Clients -> Nat]
    /\ inbox \in [Clients -> Seq(HttpRequests)]
    /\ request \in [Clients -> HttpRequests]
    /\ \E S : answers \in [Clients -> Seq(S)]

\* What stands in the buffer are the last requests the client sent, in order;
\* the one in hand is older, and younger than those answered.
InOrder(c) ==
    /\ Len(inbox[c]) <= sent[c]
    /\ \A i \in 1..Len(inbox[c]) : inbox[c][i].id = sent[c] - Len(inbox[c]) + i
    /\ request[c].id <= sent[c] - Len(inbox[c])
    /\ \A i \in 1..Len(answers[c]) : answers[c][i].id \in 1..request[c].id
    /\ \A i, j \in 1..Len(answers[c]) : i < j => answers[c][i].id < answers[c][j].id
    /\ fiber[c] \in {"handle", "send"} =>
         request[c].id > 0 /\ \A i \in 1..Len(answers[c]) : answers[c][i].id < request[c].id

\* A client that waits has one request under way at most, the one after those
\* that were answered.
OneAtATime(c) ==
    c \notin piped =>
        /\ sent[c] <= Len(answers[c]) + 1
        /\ \A i \in 1..Len(answers[c]) : answers[c][i].id = i

SessionInv == SessionTypes /\ \A c \in Clients : InOrder(c) /\ OneAtATime(c)

\* A step concerns one client.
Others(c) ==
    \A d \in Clients \ {c} :
        /\ fiber'[d] = fiber[d] /\ sent'[d] = sent[d] /\ inbox'[d] = inbox[d]
        /\ request'[d] = request[d] /\ answers'[d] = answers[d]
        /\ d \in piped' <=> d \in piped

LEMMA OthersStay ==
    ASSUME SessionInv, SessionTypes', NEW c \in Clients, Others(c),
           InOrder(c)', OneAtATime(c)'
    PROVE  SessionInv'
<1>1. \A d \in Clients \ {c} : InOrder(d)' /\ OneAtATime(d)'
  BY DEF SessionInv, Others, InOrder, OneAtATime
<1>2. QED
  BY <1>1 DEF SessionInv

\* The fiber goes on and nothing else changes; it has a request in hand after
\* the step only if it had one before.
LEMMA MoveKeeps ==
    ASSUME SessionInv, NEW c \in Clients,
           NEW l \in {"none", "recv", "handle", "send", "done"}, Http!Session(c, l),
           l \in {"handle", "send"} => fiber[c] \in {"handle", "send"},
           UNCHANGED <<sent, inbox, request, answers, piped>>
    PROVE  SessionInv'
<1>1. /\ fiber'[c] = l
      /\ \A d \in Clients \ {c} : fiber'[d] = fiber[d]
      /\ fiber' \in [Clients -> {"none", "recv", "handle", "send", "done"}]
  BY DEF SessionInv, SessionTypes, Http!Session
<1>2. SessionTypes'
  BY <1>1 DEF SessionInv, SessionTypes
<1>3. Others(c)
  BY <1>1 DEF Others
<1>4. InOrder(c)' /\ OneAtATime(c)'
  BY <1>1 DEF SessionInv, InOrder, OneAtATime
<1>5. QED
  BY <1>2, <1>3, <1>4, OthersStay

LEMMA RecvKeepsOrder ==
    ASSUME SessionInv, NEW c \in Clients, Http!Recv(c)
    PROVE  SessionInv'
<1>1. PICK n \in 1..Len(inbox[c]) :
        /\ inbox' = [inbox EXCEPT ![c] = SubSeq(@, n + 1, Len(@))]
        /\ IF \A i \in 1..n - 1 : inbox[c][i].keep
             THEN request' = [request EXCEPT ![c] = inbox[c][n]] /\ Http!Session(c, "handle")
             ELSE UNCHANGED request /\ Http!Session(c, "done")
  BY DEF Http!Recv
<1> DEFINE s == inbox[c]
           t == inbox'[c]
<1>2. s \in Seq(HttpRequests) /\ Len(s) \in Nat /\ n \in Nat /\ n >= 1 /\ n <= Len(s)
  BY DEF SessionInv, SessionTypes
<1>3. s[n] \in HttpRequests
  BY <1>2
<1>4. t = SubSeq(s, n + 1, Len(s))
  BY <1>1 DEF SessionInv, SessionTypes
<1>5. \A i \in n + 1..Len(s) : s[i] \in HttpRequests
  BY <1>2
<1>6. /\ t \in Seq(HttpRequests)
      /\ Len(t) = Len(s) - n
      /\ \A i \in 1..Len(t) : t[i] = s[n + i]
  <2>1. n + 1 \in Int /\ Len(s) \in Int
    BY <1>2
  <2>2. /\ SubSeq(s, n + 1, Len(s)) \in Seq(HttpRequests)
        /\ Len(SubSeq(s, n + 1, Len(s))) = IF n + 1 <= Len(s) THEN Len(s) - (n + 1) + 1 ELSE 0
        /\ \A i \in 1..Len(SubSeq(s, n + 1, Len(s))) :
              SubSeq(s, n + 1, Len(s))[i] = s[n + 1 + i - 1]
    BY <1>2, <1>5, <2>1, SubSeqProperties
  <2>3. QED
    BY <1>2, <1>4, <2>2
<1>7. /\ \A d \in Clients \ {c} : inbox'[d] = inbox[d]
      /\ inbox' \in [Clients -> Seq(HttpRequests)]
      /\ UNCHANGED <<sent, answers, piped>>
  BY <1>1, <1>6 DEF SessionInv, SessionTypes, Http!Recv
<1>8. /\ fiber' \in [Clients -> {"none", "recv", "handle", "send", "done"}]
      /\ \A d \in Clients \ {c} : fiber'[d] = fiber[d]
      /\ request' \in [Clients -> HttpRequests]
      /\ \A d \in Clients \ {c} : request'[d] = request[d]
      /\ \/ request'[c] = s[n] /\ fiber'[c] = "handle"
         \/ request'[c] = request[c] /\ fiber'[c] = "done"
  BY <1>1, <1>3 DEF SessionInv, SessionTypes, Http!Session
<1>9. SessionTypes'
  BY <1>7, <1>8 DEF SessionInv, SessionTypes
<1>10. Others(c)
  BY <1>7, <1>8 DEF Others
<1>11. sent[c] \in Nat /\ request[c].id \in Nat /\ Len(answers[c]) \in Nat
  BY DEF SessionInv, SessionTypes, HttpRequests
<1>12. s[n].id = sent[c] - Len(s) + n /\ s[n].id > request[c].id
  BY <1>2, <1>11 DEF SessionInv, InOrder
<1>13. \A i \in 1..Len(answers[c]) : answers[c][i].id \in 1..request[c].id
  BY DEF SessionInv, InOrder
<1>14. InOrder(c)'
  <2>1. Len(t) <= sent[c] /\ \A i \in 1..Len(t) : t[i].id = sent[c] - Len(t) + i
    <3>1. /\ Len(s) <= sent[c]
          /\ \A i \in 1..Len(s) : s[i].id = sent[c] - Len(s) + i
      BY DEF SessionInv, InOrder
    <3>2. Len(t) <= sent[c]
      BY <1>2, <1>6, <1>11, <3>1
    <3>3. ASSUME NEW i \in 1..Len(t)
          PROVE  t[i].id = sent[c] - Len(t) + i
      <4>1. n + i \in 1..Len(s)
        BY <1>2, <1>6
      <4>2. t[i].id = sent[c] - Len(s) + (n + i)
        BY <1>6, <3>1, <4>1
      <4>3. Len(t) = Len(s) - n /\ i \in Int
        BY <1>2, <1>6
      <4>4. QED
        BY <1>2, <1>11, <4>2, <4>3
    <3>4. QED
      BY <3>2, <3>3
  <2>2. request'[c].id <= sent[c] - Len(t)
    BY <1>2, <1>6, <1>8, <1>11, <1>12 DEF SessionInv, InOrder
  <2>3. s[n].id \in Nat
    BY <1>3 DEF HttpRequests
  <2>4. \A i \in 1..Len(answers[c]) : answers[c][i].id \in 1..request'[c].id
    BY <1>8, <1>11, <1>12, <1>13, <2>3
  <2>5. fiber'[c] = "handle" =>
           request'[c].id > 0 /\ \A i \in 1..Len(answers[c]) : answers[c][i].id < request'[c].id
    BY <1>8, <1>11, <1>12, <1>13, <2>3
  <2>6. QED
    BY <1>7, <1>8, <2>1, <2>2, <2>4, <2>5 DEF SessionInv, InOrder
<1>15. OneAtATime(c)'
  BY <1>7 DEF SessionInv, OneAtATime
<1>16. QED
  BY <1>9, <1>10, <1>14, <1>15, OthersStay

LEMMA SendKeepsOrder ==
    ASSUME SessionInv, NEW c \in Clients, Http!SendResponse(c)
    PROVE  SessionInv'
<1>1. /\ fiber[c] = "send"
      /\ Http!Session(c, "recv") \/ Http!Session(c, "done")
      /\ UNCHANGED <<sent, inbox, request, piped>>
  BY DEF Http!SendResponse
<1>2. CASE c \in gone
  <2>1. answers' = answers
    BY <1>2 DEF Http!SendResponse
  <2>2. QED
    BY <1>1, <2>1, MoveKeeps
<1>3. CASE c \notin gone
  <2> DEFINE a == [id |-> request[c].id, by |-> slt[c]]
             s == answers[c]
             t == answers'[c]
  <2>1. answers' = [answers EXCEPT ![c] = Append(@, a)]
    BY <1>3 DEF Http!SendResponse
  <2>2. PICK S : answers \in [Clients -> Seq(S)]
    BY DEF SessionInv, SessionTypes
  <2>3. S \subseteq S \cup {a} /\ a \in S \cup {a}
    OBVIOUS
  <2>4. \A d \in Clients : answers[d] \in Seq(S \cup {a})
    BY <2>2, <2>3, SeqMonotonic
  <2>5. t = Append(s, a)
    BY <2>1, <2>2
  <2>6. /\ t \in Seq(S \cup {a})
        /\ Len(s) \in Nat /\ Len(t) = Len(s) + 1
        /\ \A i \in 1..Len(s) : t[i] = s[i]
        /\ t[Len(s) + 1] = a
    BY <2>4, <2>5, AppendProperties
  <2>7. \A d \in Clients \ {c} : answers'[d] = answers[d]
    BY <2>1, <2>2
  <2>8. answers' \in [Clients -> Seq(S \cup {a})]
    <3>1. answers' = [d \in Clients |-> answers'[d]]
      BY <2>1, <2>2
    <3>2. \A d \in Clients : answers'[d] \in Seq(S \cup {a})
      BY <2>4, <2>6, <2>7
    <3>3. QED
      BY <3>1, <3>2
  <2>9. /\ fiber' \in [Clients -> {"none", "recv", "handle", "send", "done"}]
        /\ \A d \in Clients \ {c} : fiber'[d] = fiber[d]
        /\ fiber'[c] \in {"recv", "done"}
    BY <1>1 DEF SessionInv, SessionTypes, Http!Session
  <2>10. SessionTypes'
    BY <1>1, <2>8, <2>9 DEF SessionInv, SessionTypes
  <2>11. Others(c)
    BY <1>1, <2>7, <2>9 DEF Others
  <2>12. /\ sent[c] \in Nat /\ request[c].id \in Nat /\ a.id = request[c].id
         /\ Len(inbox[c]) \in Nat
    BY DEF SessionInv, SessionTypes, HttpRequests
  <2>13. /\ request[c].id > 0 /\ request[c].id <= sent[c]
         /\ \A i \in 1..Len(s) : s[i].id \in 1..request[c].id /\ s[i].id < request[c].id
    BY <1>1, <2>12 DEF SessionInv, InOrder
  <2>14. \A i \in 1..Len(t) : IF i = Len(s) + 1 THEN t[i].id = request[c].id
                                              ELSE i \in 1..Len(s) /\ t[i].id = s[i].id
    BY <2>6, <2>12
  <2>15. InOrder(c)'
    <3>1. \A i \in 1..Len(t) : t[i].id \in 1..request[c].id
      BY <2>12, <2>13, <2>14
    <3>2. \A i, j \in 1..Len(t) : i < j => t[i].id < t[j].id
      <4>1. \A i, j \in 1..Len(s) : i < j => s[i].id < s[j].id
        BY DEF SessionInv, InOrder
      <4>2. QED
        BY <2>6, <2>12, <2>13, <2>14, <4>1
    <3>3. QED
      BY <1>1, <2>9, <3>1, <3>2 DEF SessionInv, InOrder
  <2>16. OneAtATime(c)'
    <3>1. SUFFICES ASSUME c \notin piped
                   PROVE  sent[c] <= Len(t) + 1 /\ \A i \in 1..Len(t) : t[i].id = i
      BY <1>1 DEF OneAtATime
    <3>2. sent[c] <= Len(s) + 1 /\ \A i \in 1..Len(s) : s[i].id = i
      BY <3>1 DEF SessionInv, OneAtATime
    <3>3. request[c].id > Len(s)
      <4>1. CASE Len(s) = 0
        BY <2>13, <4>1
      <4>2. CASE Len(s) # 0
        <5>1. Len(s) \in 1..Len(s)
          BY <2>6, <4>2
        <5>2. s[Len(s)].id = Len(s) /\ s[Len(s)].id < request[c].id
          BY <2>13, <3>2, <5>1
        <5>3. QED
          BY <5>2
      <4>3. QED
        BY <4>1, <4>2
    <3>4. request[c].id = Len(s) + 1
      BY <2>6, <2>12, <2>13, <3>2, <3>3
    <3>5. ASSUME NEW i \in 1..Len(t)
          PROVE  t[i].id = i
      <4>1. CASE i = Len(s) + 1
        BY <2>14, <3>4, <4>1
      <4>2. CASE i # Len(s) + 1
        BY <2>14, <3>2, <4>2
      <4>3. QED
        BY <4>1, <4>2
    <3>6. sent[c] <= Len(t) + 1
      BY <2>6, <2>12, <3>2
    <3>7. QED
      BY <3>5, <3>6
  <2>17. QED
    BY <2>10, <2>11, <2>15, <2>16, OthersStay
<1>4. QED
  BY <1>2, <1>3

LEMMA ClientSendsKeepsOrder ==
    ASSUME SessionInv, NEW c \in Clients, Http!ClientSends(c)
    PROVE  SessionInv'
<1>1. PICK k \in BOOLEAN :
        inbox' = [inbox EXCEPT ![c] = Append(@, [id |-> sent[c] + 1, keep |-> k])]
  BY DEF Http!ClientSends
<1> DEFINE r == [id |-> sent[c] + 1, keep |-> k]
           s == inbox[c]
           t == inbox'[c]
<1>2. /\ sent' = [sent EXCEPT ![c] = @ + 1]
      /\ piped' = IF Len(answers[c]) < sent[c] THEN piped \cup {c} ELSE piped
      /\ UNCHANGED <<fiber, request, answers>>
  BY DEF Http!ClientSends
<1>3. sent[c] \in Nat /\ request[c].id \in Nat /\ s \in Seq(HttpRequests) /\ Len(s) \in Nat
  BY DEF SessionInv, SessionTypes, HttpRequests
<1>4. r \in HttpRequests
  BY <1>3 DEF HttpRequests
<1>5. t = Append(s, r)
  BY <1>1 DEF SessionInv, SessionTypes
<1>6. /\ t \in Seq(HttpRequests)
      /\ Len(t) = Len(s) + 1
      /\ \A i \in 1..Len(s) : t[i] = s[i]
      /\ t[Len(s) + 1] = r
  BY <1>3, <1>4, <1>5, AppendProperties
<1>7. sent'[c] = sent[c] + 1 /\ \A d \in Clients \ {c} : sent'[d] = sent[d] /\ inbox'[d] = inbox[d]
  BY <1>1, <1>2 DEF SessionInv, SessionTypes
<1>8. SessionTypes'
  <2>1. sent' \in [Clients -> Nat]
    BY <1>2, <1>3 DEF SessionInv, SessionTypes
  <2>2. inbox' \in [Clients -> Seq(HttpRequests)]
    BY <1>1, <1>5, <1>6 DEF SessionInv, SessionTypes
  <2>3. QED
    BY <1>2, <2>1, <2>2 DEF SessionInv, SessionTypes
<1>9. Others(c)
  BY <1>2, <1>7 DEF Others
<1>10. InOrder(c)'
  <2>1. Len(t) <= sent'[c]
    BY <1>3, <1>6, <1>7 DEF SessionInv, InOrder
  <2>2. \A i \in 1..Len(t) : t[i].id = sent'[c] - Len(t) + i
    <3>1. \A i \in 1..Len(s) : s[i].id = sent[c] - Len(s) + i
      BY DEF SessionInv, InOrder
    <3>2. r.id = sent[c] + 1
      OBVIOUS
    <3>3. Len(t) = Len(s) + 1 /\ sent'[c] = sent[c] + 1
      BY <1>6, <1>7
    <3>4. ASSUME NEW i \in 1..Len(t)
          PROVE  t[i].id = sent'[c] - Len(t) + i
      <4>1. CASE i = Len(s) + 1
        <5>1. t[i].id = sent[c] + 1
          BY <1>6, <3>2, <4>1
        <5>2. QED
          BY <1>3, <3>3, <4>1, <5>1
      <4>2. CASE i # Len(s) + 1
        <5>1. i \in 1..Len(s)
          BY <1>3, <3>3, <4>2
        <5>2. t[i].id = sent[c] - Len(s) + i
          BY <1>6, <3>1, <5>1
        <5>3. QED
          BY <1>3, <3>3, <5>1, <5>2
      <4>3. QED
        BY <4>1, <4>2
    <3>5. QED
      BY <3>4
  <2>3. request[c].id <= sent'[c] - Len(t)
    BY <1>3, <1>6, <1>7 DEF SessionInv, InOrder
  <2>4. QED
    BY <1>2, <2>1, <2>2, <2>3 DEF SessionInv, InOrder
<1>11. OneAtATime(c)'
  <2>1. Len(answers[c]) \in Nat
    BY DEF SessionInv, SessionTypes
  <2>2. QED
    BY <1>2, <1>3, <1>7, <2>1 DEF SessionInv, OneAtATime
<1>12. QED
  BY <1>8, <1>9, <1>10, <1>11, OthersStay

LEMMA SessionNext ==
    ASSUME SessionInv, [Http!Next]_(Http!vars)
    PROVE  SessionInv'
<1>1. ASSUME UNCHANGED Http!sessionVars
      PROVE  SessionInv'
  BY <1>1 DEF Http!sessionVars, SessionInv, SessionTypes, InOrder, OneAtATime
<1>2. ASSUME Http!AddServlet \/ Http!DelServlet \/ Http!AddGlobServlet \/ Http!DelGlobServlet
      PROVE  SessionInv'
  BY <1>1, <1>2 DEF Http!AddServlet, Http!DelServlet, Http!AddGlobServlet,
     Http!DelGlobServlet, Http!Edit
<1>3. ASSUME NEW c \in Clients, Http!HandleClient(c) \/ Http!RecvFails(c) \/ Http!Dispatch(c)
      PROVE  SessionInv'
  BY <1>3, MoveKeeps DEF Http!HandleClient, Http!RecvFails, Http!Dispatch
<1>4. ASSUME NEW c \in Clients, Http!ClientCloses(c)
      PROVE  SessionInv'
  BY <1>4 DEF Http!ClientCloses, SessionInv, SessionTypes, InOrder, OneAtATime
<1>5. QED
  BY <1>1, <1>2, <1>3, <1>4, RecvKeepsOrder, SendKeepsOrder, ClientSendsKeepsOrder
     DEF Http!Next, Http!vars

LEMMA SessionInit ==
    ASSUME Http!Init
    PROVE  SessionInv
<1>1. SessionTypes
  BY DEF Http!Init, SessionTypes, Http!NoRequest, HttpRequests
<1>2. \A c \in Clients : /\ Len(inbox[c]) = 0 /\ Len(answers[c]) = 0
                         /\ sent[c] = 0 /\ request[c].id = 0 /\ fiber[c] = "none"
  BY DEF Http!Init, Http!NoRequest
<1>3. QED
  BY <1>1, <1>2 DEF SessionInv, InOrder, OneAtATime

\* AnswersMatchRequests of HttpServer::handleClient(), http_server.cc:31: a
\* client's answers are to different requests in the order they were sent, and
\* one that waits for each answer gets that of every request in turn.
THEOREM AnswersMatch == Http!Spec => []Http!AnswersMatchRequests
<1>1. Http!Init => SessionInv
  BY SessionInit
<1>2. SessionInv => Http!AnswersMatchRequests
  BY DEF SessionInv, InOrder, OneAtATime, Http!AnswersMatchRequests
<1>3. QED
  BY <1>1, <1>2, SessionNext, PTL DEF Http!Spec

\* The table of servlets.
Entries == [pattern : Http!Patterns, servlet : Servlets]

Unique(s) == \A i, j \in 1..Len(s) : s[i].pattern = s[j].pattern => i = j

TableInv ==
    /\ m_datas \in Servlets \cup {Http!None}
    /\ m_globs \in Seq(Entries) /\ Unique(m_globs)
    /\ slt \in [Clients -> Servlets \cup {Http!None, Http!Default}]
    /\ \A c \in Clients : sent[c] <= MaxRequests

LEMMA EraseFacts ==
    ASSUME NEW S, NEW s \in Seq(S), NEW i \in 1..Len(s)
    PROVE  /\ Http!RemoveAt(s, i) \in Seq(S)
           /\ Len(Http!RemoveAt(s, i)) = Len(s) - 1
           /\ \A k \in 1..(Len(s) - 1) :
                Http!RemoveAt(s, i)[k] = IF k < i THEN s[k] ELSE s[k + 1]
<1> DEFINE before == SubSeq(s, 1, i - 1)
           after  == SubSeq(s, i + 1, Len(s))
<1>1. Len(s) \in Nat /\ \A k \in 1..Len(s) : s[k] \in S
  BY LenProperties, ElementOfSeq
<1>2. /\ before \in Seq(S)
      /\ Len(before) = i - 1
      /\ \A k \in 1..(i - 1) : before[k] = s[k]
  <2>1. \A k \in 1..(i - 1) : s[k] \in S
    BY <1>1
  <2>2. /\ before \in Seq(S)
        /\ Len(before) = IF 1 <= i - 1 THEN (i - 1) - 1 + 1 ELSE 0
        /\ \A k \in 1..((i - 1) - 1 + 1) : before[k] = s[1 + k - 1]
    BY <2>1, SubSeqProperties
  <2>3. QED
    BY <1>1, <2>2
<1>3. /\ after \in Seq(S)
      /\ Len(after) = Len(s) - i
      /\ \A k \in 1..(Len(s) - i) : after[k] = s[i + k]
  <2>1. \A k \in (i + 1)..Len(s) : s[k] \in S
    BY <1>1
  <2>2. /\ after \in Seq(S)
        /\ Len(after) = IF i + 1 <= Len(s) THEN Len(s) - (i + 1) + 1 ELSE 0
        /\ \A k \in 1..(Len(s) - (i + 1) + 1) : after[k] = s[(i + 1) + k - 1]
    BY <1>1, <2>1, SubSeqProperties
  <2>3. QED
    BY <1>1, <2>2
<1>4. /\ before \o after \in Seq(S)
      /\ Len(before \o after) = Len(before) + Len(after)
      /\ \A k \in 1..(Len(before) + Len(after)) : (before \o after)[k] =
            IF k <= Len(before) THEN before[k] ELSE after[k - Len(before)]
  BY <1>2, <1>3, ConcatProperties
<1>5. Http!RemoveAt(s, i) = before \o after
  BY DEF Http!RemoveAt
<1> HIDE DEF before, after
<1>6. Len(before) + Len(after) = Len(s) - 1
  BY <1>1, <1>2, <1>3
<1>7. ASSUME NEW k \in 1..(Len(s) - 1)
      PROVE  (before \o after)[k] = IF k < i THEN s[k] ELSE s[k + 1]
  <2>1. CASE k < i
    <3>1. k \in 1..(i - 1) /\ k <= Len(before)
      BY <1>1, <1>2, <2>1
    <3>2. QED
      BY <1>2, <1>4, <1>6, <2>1, <3>1
  <2>2. CASE ~(k < i)
    <3>1. ~(k <= Len(before)) /\ k - Len(before) = k - (i - 1)
      BY <1>1, <1>2, <2>2
    <3>2. k - (i - 1) \in 1..(Len(s) - i) /\ i + (k - (i - 1)) = k + 1
      BY <1>1, <2>2
    <3>3. after[k - (i - 1)] = s[k + 1]
      BY <1>3, <3>2
    <3>4. QED
      BY <1>4, <1>6, <2>2, <3>1, <3>3
  <2>3. QED
    BY <2>1, <2>2
<1>8. QED
  BY <1>4, <1>5, <1>6, <1>7

\* The first entry is the only one, so none of the pattern is left.
LEMMA WithoutFacts ==
    ASSUME TableInv, NEW p
    PROVE  /\ Http!Without(p) \in Seq(Entries) /\ Unique(Http!Without(p))
           /\ \A i \in 1..Len(Http!Without(p)) : Http!Without(p)[i].pattern # p
<1> DEFINE s == m_globs
<1>1. s \in Seq(Entries) /\ Len(s) \in Nat /\ Unique(s)
  BY DEF TableInv
<1>2. CASE Http!First(p) = {}
  <2>1. Http!Without(p) = s
    BY <1>2 DEF Http!Without
  <2>2. ASSUME NEW i \in 1..Len(s), s[i].pattern = p
        PROVE  FALSE
    <3>1. \A j \in 1..(i - 1) : s[j].pattern # p
      BY <1>1, <2>2 DEF Unique
    <3>2. QED
      BY <1>2, <2>2, <3>1 DEF Http!First
  <2>3. QED
    BY <1>1, <2>1, <2>2
<1>3. CASE Http!First(p) # {}
  <2> DEFINE i == CHOOSE i \in Http!First(p) : TRUE
             t == Http!RemoveAt(s, i)
  <2>1. i \in Http!First(p)
    BY <1>3
  <2>2. i \in 1..Len(s) /\ s[i].pattern = p
    BY <2>1 DEF Http!First
  <2>3. Http!Without(p) = t
    BY <1>3 DEF Http!Without
  <2> HIDE DEF i
  <2>4. /\ t \in Seq(Entries) /\ Len(t) = Len(s) - 1
        /\ \A k \in 1..(Len(s) - 1) : t[k] = IF k < i THEN s[k] ELSE s[k + 1]
    BY <1>1, <2>2, EraseFacts
  <2> HIDE DEF t
  <2>5. Unique(t)
    <3>1. SUFFICES ASSUME NEW j \in 1..Len(t), NEW k \in 1..Len(t), t[j].pattern = t[k].pattern
                   PROVE  j = k
      BY DEF Unique
    <3>2. /\ t[j] = IF j < i THEN s[j] ELSE s[j + 1]
          /\ t[k] = IF k < i THEN s[k] ELSE s[k + 1]
      BY <2>4
    <3>3. \A m, n \in 1..Len(s) : s[m].pattern = s[n].pattern => m = n
      BY <1>1 DEF Unique
    <3>4. QED
      BY <1>1, <2>2, <2>4, <3>1, <3>2, <3>3
  <2>6. ASSUME NEW k \in 1..Len(t)  PROVE t[k].pattern # p
    <3>1. t[k] = IF k < i THEN s[k] ELSE s[k + 1]
      BY <2>4
    <3>2. QED
      BY <1>1, <2>2, <2>4, <3>1 DEF Unique
  <2>7. QED
    BY <2>3, <2>4, <2>5, <2>6
<1>4. QED
  BY <1>2, <1>3

\* A pattern that is added comes to the end, once.
LEMMA AddedFacts ==
    ASSUME TableInv, NEW p \in Http!Patterns, NEW v \in Servlets,
           NEW t, t = Append(Http!Without(p), [pattern |-> p, servlet |-> v])
    PROVE  t \in Seq(Entries) /\ Unique(t)
<1> DEFINE w == Http!Without(p)
           e == [pattern |-> p, servlet |-> v]
<1>1. /\ w \in Seq(Entries) /\ Unique(w) /\ Len(w) \in Nat
      /\ \A i \in 1..Len(w) : w[i].pattern # p
  BY WithoutFacts
<1>2. e \in Entries /\ e.pattern = p
  BY DEF Entries
<1> HIDE DEF w, e
<1>3. t = Append(w, e)
  BY DEF w, e
<1>4. /\ t \in Seq(Entries) /\ Len(t) = Len(w) + 1
      /\ \A i \in 1..Len(w) : t[i] = w[i]
      /\ t[Len(w) + 1] = e
  <2>1. w \in Seq(Entries) /\ e \in Entries
    BY <1>1, <1>2
  <2>2. /\ Append(w, e) \in Seq(Entries) /\ Len(Append(w, e)) = Len(w) + 1
        /\ \A i \in 1..Len(w) : Append(w, e)[i] = w[i]
        /\ Append(w, e)[Len(w) + 1] = e
    BY <2>1, AppendProperties
  <2>3. QED
    BY <1>3, <2>2
<1>5. ASSUME NEW i \in 1..Len(t), NEW j \in 1..Len(t), t[i].pattern = t[j].pattern
      PROVE  i = j
  <2>1. \A k \in 1..Len(t) : k = Len(w) + 1 \/ (k \in 1..Len(w) /\ t[k] = w[k])
    BY <1>1, <1>4
  <2>2. CASE i = Len(w) + 1
    BY <1>1, <1>2, <1>4, <1>5, <2>1, <2>2
  <2>3. CASE i # Len(w) + 1
    <3>1. i \in 1..Len(w) /\ t[i] = w[i]
      BY <2>1, <2>3
    <3>2. j # Len(w) + 1
      BY <1>1, <1>2, <1>4, <1>5, <3>1
    <3>3. j \in 1..Len(w) /\ t[j] = w[j]
      BY <2>1, <3>2
    <3>4. QED
      BY <1>1, <1>5, <3>1, <3>3 DEF Unique
  <2>4. QED
    BY <2>2, <2>3
<1>6. QED
  BY <1>4, <1>5 DEF Unique

LEMMA TableNext ==
    ASSUME MaxRequests \in Nat, SessionInv, TableInv, [Http!Next]_(Http!vars)
    PROVE  TableInv'
<1>1. CASE Http!AddServlet \/ Http!DelServlet
  <2>1. /\ UNCHANGED <<m_globs, slt, sent>>
        /\ m_datas' \in Servlets \cup {Http!None}
    BY <1>1 DEF Http!AddServlet, Http!DelServlet, Http!Edit, Http!sessionVars
  <2>2. QED
    BY <2>1 DEF TableInv, Unique
<1>2. CASE Http!AddGlobServlet
  <2>1. PICK p \in Http!Patterns, v \in Servlets :
           Http!Edit(m_datas, Append(Http!Without(p), [pattern |-> p, servlet |-> v]))
    BY <1>2 DEF Http!AddGlobServlet
  <2>2. m_globs' \in Seq(Entries) /\ Unique(m_globs')
    <3>1. m_globs' = Append(Http!Without(p), [pattern |-> p, servlet |-> v])
      BY <2>1 DEF Http!Edit
    <3>2. QED
      BY <3>1, AddedFacts
  <2>3. QED
    BY <2>1, <2>2 DEF Http!Edit, Http!sessionVars, TableInv
<1>3. CASE Http!DelGlobServlet
  <2>1. PICK p \in Http!Patterns : Http!Edit(m_datas, Http!Without(p))
    BY <1>3 DEF Http!DelGlobServlet
  <2>2. m_globs' \in Seq(Entries) /\ Unique(m_globs')
    BY <2>1, WithoutFacts DEF Http!Edit
  <2>3. QED
    BY <2>1, <2>2 DEF Http!Edit, Http!sessionVars, TableInv
<1>4. ASSUME UNCHANGED <<m_datas, m_globs, slt, sent>>  PROVE TableInv'
  BY <1>4 DEF TableInv, Unique
<1>5. ASSUME NEW c \in Clients, Http!Dispatch(c)  PROVE TableInv'
  <2>1. /\ slt' = [slt EXCEPT ![c] = Http!MatchedServlet]
        /\ UNCHANGED <<m_datas, m_globs, sent>>
    BY <1>5 DEF Http!Dispatch, Http!Session, Http!tableVars
  <2>2. Http!MatchedServlet \in Servlets \cup {Http!None, Http!Default}
    <3>1. m_globs # <<>> => m_globs[1] \in Entries
      BY EmptySeq, LenProperties, ElementOfSeq DEF TableInv
    <3>2. QED
      BY <3>1 DEF Http!MatchedServlet, TableInv, Entries
  <2>3. QED
    BY <2>1, <2>2 DEF TableInv, Unique
<1>6. ASSUME NEW c \in Clients, Http!ClientSends(c)  PROVE TableInv'
  <2>1. /\ sent' = [sent EXCEPT ![c] = @ + 1] /\ sent[c] < MaxRequests
        /\ UNCHANGED <<m_datas, m_globs, slt>>
    BY <1>6 DEF Http!ClientSends, Http!tableVars
  <2>2. sent \in [Clients -> Nat]
    BY DEF SessionInv, SessionTypes
  <2>3. QED
    BY <2>1, <2>2 DEF TableInv, Unique
<1>7. ASSUME NEW c \in Clients,
             \/ Http!HandleClient(c) \/ Http!Recv(c) \/ Http!RecvFails(c)
             \/ Http!SendResponse(c) \/ Http!ClientCloses(c)
      PROVE  TableInv'
  BY <1>4, <1>7 DEF Http!HandleClient, Http!Recv, Http!RecvFails, Http!SendResponse,
     Http!ClientCloses, Http!Session, Http!tableVars
<1>8. CASE UNCHANGED Http!vars
  BY <1>4, <1>8 DEF Http!vars, Http!sessionVars, Http!tableVars
<1>9. QED
  BY <1>1, <1>2, <1>3, <1>5, <1>6, <1>7, <1>8 DEF Http!Next

\* ServletDispatch, servlet.cc:40-111: however servlets are added and deleted, a
\* pattern stands in the table once, although addGlobServlet() and
\* delGlobServlet() erase the first entry only; and a session hands its request
\* to a servlet of the table or to the default.
THEOREM HttpTypeCorrect ==
    ASSUME MaxRequests \in Nat
    PROVE  Http!Spec => []Http!TypeOK
<1>1. Http!Init => SessionInv /\ TableInv
  <2> SUFFICES ASSUME Http!Init PROVE SessionInv /\ TableInv
    OBVIOUS
  <2>1. SessionInv
    BY SessionInit
  <2>2. m_globs \in Seq(Entries) /\ Len(m_globs) = 0
    BY DEF Http!Init
  <2>3. /\ m_datas = Http!None /\ slt = [c \in Clients |-> Http!None]
        /\ \A c \in Clients : sent[c] = 0
    BY DEF Http!Init
  <2>4. QED
    BY <2>1, <2>2, <2>3 DEF TableInv, Unique
<1>2. SessionInv /\ TableInv /\ [Http!Next]_(Http!vars) => SessionInv' /\ TableInv'
  BY SessionNext, TableNext
<1>3. SessionInv /\ TableInv => Http!TypeOK
  BY DEF SessionInv, SessionTypes, TableInv, Unique, Http!TypeOK
<1>4. QED
  BY <1>1, <1>2, <1>3, PTL DEF Http!Spec

-----------------------------------------------------------------------------
(* Division, for positions in an array of blocks.                          *)

LEMMA DivUnique ==
    ASSUME NEW B \in Nat \ {0}, NEW p \in Int, NEW q \in Int, NEW r \in 0..B - 1,
           p = B * q + r
    PROVE  p \div B = q /\ p % B = r
  OBVIOUS

LEMMA DivMod ==
    ASSUME NEW B \in Nat \ {0}, NEW p \in Int
    PROVE  p \div B \in Int /\ p % B \in 0..B - 1 /\ p = B * (p \div B) + (p % B)
  OBVIOUS

LEMMA DivAdd ==
    ASSUME NEW B \in Nat \ {0}, NEW p \in Int, NEW n \in Int
    PROVE  /\ (p \div B) + (((p % B) + n) \div B) = (p + n) \div B
           /\ ((p % B) + n) % B = (p + n) % B
<1> DEFINE q == p \div B
           s == p % B
           w == (s + n) \div B
           r == (s + n) % B
<1>1. p = B * q + s /\ q \in Int /\ s \in 0..B - 1
  BY DivMod
<1> HIDE DEF q, s
<1>2. s + n \in Int
  BY <1>1
<1>3. s + n = B * w + r /\ w \in Int /\ r \in 0..B - 1
  BY <1>2, DivMod
<1> HIDE DEF w, r
<1>4. B * (q + w) = B * q + B * w /\ B * q \in Int /\ B * w \in Int
  BY <1>1, <1>3
<1>5. p + n = B * (q + w) + r
  BY <1>1, <1>3, <1>4
<1>6. p + n \in Int /\ q + w \in Int
  BY <1>1, <1>3
<1>7. (p + n) \div B = q + w /\ (p + n) % B = r
  BY <1>3, <1>5, <1>6, DivUnique
<1>8. QED
  BY Zenon, <1>7 DEF q, s, w, r

LEMMA DivBound ==
    ASSUME NEW B \in Nat \ {0}, NEW p \in Int, NEW m \in Int
    PROVE  p \div B < m <=> p < B * m
  OBVIOUS

LEMMA WholeBlocks ==
    ASSUME NEW B \in Nat \ {0}, NEW q \in Int
    PROVE  (B * q) \div B = q /\ (B * q) % B = 0
<1>1. 0 \in 0..B - 1 /\ B * q \in Int /\ B * q = B * q + 0
  OBVIOUS
<1>2. QED
  BY <1>1, DivUnique

LEMMA NatQuotient ==
    ASSUME NEW B \in Nat \ {0}, NEW p \in Nat
    PROVE  p \div B \in Nat /\ p = B * (p \div B) + (p % B)
<1>1. p \in Int /\ 0 \in Int /\ ~(p < B * 0)
  OBVIOUS
<1>2. ~(p \div B < 0)
  BY <1>1, DivBound
<1>3. p \div B \in Int /\ p = B * (p \div B) + (p % B)
  BY Zenon, <1>1, DivMod
<1>4. QED
  BY <1>2, <1>3

-----------------------------------------------------------------------------
(* Induction over the natural numbers.                                     *)

Less == {p \in Nat \X Nat : p[1] < p[2]}

LEMMA LessIsWellFounded == IsWellFoundedOn(Less, Nat)
<1>1. Less = OpToRel(<, Nat)
  BY DEF OpToRel, Less
<1>2. QED
  BY <1>1, NatLessThanWellFounded

LEMMA LeastExists ==
    ASSUME NEW S \in SUBSET Nat, S # {}
    PROVE  LET least == CHOOSE n \in S : \A k \in S : n <= k IN
           least \in S /\ \A k \in S : least <= k
<1>1. PICK x \in S : \A y \in S : ~(<<y, x>> \in Less)
  BY LessIsWellFounded, WFMin
<1>2. ASSUME NEW y \in S
      PROVE  x <= y
  <2>1. x \in Nat /\ y \in Nat /\ <<y, x>> \notin Less
    BY <1>1
  <2>2. QED
    BY <2>1 DEF Less
<1>3. QED
  BY <1>2

LEMMA SetInduction ==
    ASSUME NEW T, 0 \in T, \A n \in Nat : n \in T => n + 1 \in T
    PROVE  Nat \subseteq T
<1>1. SUFFICES ASSUME Nat \ T # {} PROVE FALSE
  OBVIOUS
<1>2. PICK x \in Nat \ T : \A y \in Nat \ T : ~(<<y, x>> \in Less)
  BY <1>1, LessIsWellFounded, WFMin
<1>3. x # 0
  BY <1>2
<1>4. x - 1 \in Nat /\ x - 1 \notin T
  BY <1>2, <1>3
<1>5. ~(<<x - 1, x>> \in Less)
  BY <1>2, <1>4
<1>6. QED
  BY <1>4, <1>5 DEF Less

-----------------------------------------------------------------------------

\* The first byte without the eighth bit is the last of the item.

-----------------------------------------------------------------------------
(* ByteArray, the buffer that streams read into and write from.            *)

CONSTANTS BaseSize, MaxCapacity, MaxOps, Width, Fixeds, Ints, Strings

VARIABLES nodes, capacity, m_position, m_size, m_cur, endian, saved, items, last, ops

Buffer == INSTANCE ByteArray WITH file <- saved

BufferSpec == Buffer!Init /\ [][Buffer!Next]_(Buffer!vars)

\* What stands at a place of a block.
Cell == Buffer!Junk..255
Block == [0..BaseSize - 1 -> Cell]

Sizes == BaseSize \in Nat \ {0} /\ MaxCapacity \in Nat /\ BaseSize <= MaxCapacity

\* The byte at a position of the chain ns, and the block of a position: none at
\* the end of the chain.
ByteOf(ns, a) == ns[(a \div BaseSize) + 1][a % BaseSize]
BlockOf(p, room) == IF p = room THEN 0 ELSE (p \div BaseSize) + 1

\* The chain has a block at least, and the two cursors agree.
Shape ==
    /\ nodes \in Seq(Block) /\ Len(nodes) >= 1
    /\ capacity = BaseSize * Len(nodes) /\ capacity <= MaxCapacity
    /\ m_position \in Nat /\ m_size \in Nat
    /\ m_position <= m_size /\ m_size <= capacity
    /\ m_cur = BlockOf(m_position, capacity)
    /\ endian \in {"big", "little"}
    /\ saved \in Seq(Cell)

\* The walk from the cursor finds the block of a later position ...
LEMMA AfterIs ==
    ASSUME Sizes, NEW ns, Len(ns) \in Nat, NEW p \in Nat, NEW k \in Nat,
           p + k <= BaseSize * Len(ns)
    PROVE  Buffer!After(ns, (p \div BaseSize) + 1, (p % BaseSize) + k)
             = BlockOf(p + k, BaseSize * Len(ns))
<1> DEFINE j == (p \div BaseSize) + 1 + (((p % BaseSize) + k) \div BaseSize)
           q == (p + k) \div BaseSize
<1>1. BaseSize \in Nat \ {0} /\ BaseSize * Len(ns) \in Nat
  BY DEF Sizes
<1>2. p \div BaseSize \in Int /\ p % BaseSize \in Int
      /\ ((p % BaseSize) + k) \div BaseSize \in Int
  BY <1>1, DivMod
<1>3. (p \div BaseSize) + (((p % BaseSize) + k) \div BaseSize) = q /\ q \in Int
  <2>1. p \in Int /\ k \in Int /\ p + k \in Int
    OBVIOUS
  <2>2. q \in Int
    BY <1>1, <2>1, DivMod
  <2>3. (p \div BaseSize) + (((p % BaseSize) + k) \div BaseSize) = q
    BY Zenon, <1>1, <2>1, DivAdd
  <2>4. QED
    BY <2>2, <2>3
<1>4. j = q + 1
  BY <1>2, <1>3
<1>5. q < Len(ns) <=> p + k < BaseSize * Len(ns)
  BY <1>1, DivBound
<1>6. Buffer!After(ns, (p \div BaseSize) + 1, (p % BaseSize) + k) = IF j > Len(ns) THEN 0 ELSE j
  BY DEF Buffer!After, Buffer!Null
<1> HIDE DEF j, q
<1>7. j > Len(ns) <=> p + k = BaseSize * Len(ns)
  BY <1>1, <1>3, <1>4, <1>5
<1>8. QED
  BY <1>4, <1>6, <1>7 DEF BlockOf, q

\* ... and so does the walk from the beginning of the chain.
LEMMA AfterRoot ==
    ASSUME Sizes, NEW ns, Len(ns) \in Nat, NEW p \in Nat, p <= BaseSize * Len(ns)
    PROVE  Buffer!After(ns, 1, p) = BlockOf(p, BaseSize * Len(ns))
<1>1. BaseSize \in Nat \ {0} /\ BaseSize * Len(ns) \in Nat
  BY DEF Sizes
<1>2. p \div BaseSize \in Int
  BY <1>1, DivMod
<1>3. p \div BaseSize < Len(ns) <=> p < BaseSize * Len(ns)
  BY <1>1, DivBound
<1> DEFINE q == p \div BaseSize
<1>4. Buffer!After(ns, 1, p) = IF 1 + q > Len(ns) THEN 0 ELSE 1 + q
  BY DEF Buffer!After, Buffer!Null
<1>5. BlockOf(p, BaseSize * Len(ns)) = IF p = BaseSize * Len(ns) THEN 0 ELSE q + 1
  BY DEF BlockOf
<1> HIDE DEF q
<1>6. QED
  BY <1>1, <1>2, <1>3, <1>4, <1>5 DEF q

LEMMA FreshBlock ==
    ASSUME Sizes
    PROVE  Buffer!Fresh \in Block
  BY DEF Sizes, Buffer!Fresh, Buffer!Junk, Block, Cell

LEMMA Addressed ==
    ASSUME Sizes, NEW L \in Nat, NEW a \in 0..(BaseSize * L) - 1
    PROVE  (a \div BaseSize) + 1 \in 1..L /\ a % BaseSize \in 0..BaseSize - 1
<1>1. BaseSize \in Nat \ {0} /\ BaseSize * L \in Nat
  BY DEF Sizes
<1>2. a \div BaseSize < L /\ a \div BaseSize \in Int /\ ~(a \div BaseSize < 0)
  BY <1>1, DivBound, DivMod
<1>3. a % BaseSize \in 0..BaseSize - 1
  BY <1>1, DivMod
<1>4. QED
  BY <1>2, <1>3

\* addCapacity() leaves the blocks alone and makes m_cur the block of m_position.
LEMMA Room ==
    ASSUME Sizes, Shape, NEW n \in Nat \ {0}
    PROVE  LET room == Buffer!AddCapacity(n) IN
           /\ room.ns \in Seq(Block) /\ Len(room.ns) >= Len(nodes)
           /\ m_position + n <= BaseSize * Len(room.ns)
           /\ room.cur = (m_position \div BaseSize) + 1
           /\ \A j \in 1..Len(room.ns) :
                room.ns[j] = IF j <= Len(nodes) THEN nodes[j] ELSE Buffer!Fresh
<1> DEFINE free == capacity - m_position
           u == n - free + BaseSize - 1
           d == u \div BaseSize
           r == u % BaseSize
           more == IF free >= n THEN 0 ELSE d
           new == [i \in 1..more |-> Buffer!Fresh]
           room == Buffer!AddCapacity(n)
<1>1. /\ BaseSize \in Nat \ {0} /\ Len(nodes) \in Nat /\ capacity \in Nat
      /\ free \in Nat /\ u \in Int
  BY DEF Sizes, Shape
<1>2. u = BaseSize * d + r /\ d \in Int /\ r \in 0..BaseSize - 1
  BY <1>1, DivMod
<1>3. more \in Nat /\ BaseSize * more >= n - free
  <2>1. CASE free >= n
    BY <1>1, <2>1
  <2>2. CASE ~(free >= n)
    <3>1. ~(d < 0)
      BY <1>1, <2>2, DivBound
    <3>2. u >= n - free + BaseSize - 1
      BY <1>1
    <3> HIDE DEF d, r, u, free
    <3>3. BaseSize * d >= n - free
      BY <1>1, <1>2, <3>2
    <3>4. QED
      BY <1>1, <1>2, <2>2, <3>1, <3>3
  <2>3. QED
    BY <2>1, <2>2
<1>4. room = [ns |-> nodes \o new,
              cur |-> IF free = 0 /\ n > 0 THEN Len(nodes) + 1 ELSE m_cur]
  BY DEF Buffer!AddCapacity
<1> HIDE DEF free, u, d, r, more, room
<1>5. new \in Seq(Block) /\ Len(new) = more
  BY <1>3, FreshBlock
<1>6. room.ns = nodes \o new
  BY <1>4
<1> HIDE DEF new
<1>7. nodes \in Seq(Block)
  BY DEF Shape
<1>8. room.ns \in Seq(Block) /\ Len(room.ns) = Len(nodes) + more
  BY Zenon, <1>5, <1>6, <1>7, ConcatProperties
<1>9. \A j \in 1..Len(room.ns) :
                room.ns[j] = IF j <= Len(nodes) THEN nodes[j] ELSE Buffer!Fresh
  BY <1>3, <1>5, <1>6, <1>7, <1>8 DEF new
<1>10. m_position + n <= BaseSize * Len(room.ns)
  <2>1. BaseSize * (Len(nodes) + more) = BaseSize * Len(nodes) + BaseSize * more
    BY <1>1, <1>3
  <2>2. QED
    BY <1>1, <1>3, <1>8, <2>1 DEF free, Shape
<1>11. room.cur = (m_position \div BaseSize) + 1
  <2>1. CASE free = 0
    <3>1. m_position = BaseSize * Len(nodes) + 0
      BY <1>1, <2>1 DEF free, Shape
    <3>2. m_position \div BaseSize = Len(nodes)
      BY <1>1, <3>1, DivUnique DEF Shape
    <3>3. QED
      BY <1>4, <2>1, <3>2
  <2>2. CASE free # 0
    BY <1>4, <2>2 DEF free, Shape, BlockOf
  <2>3. QED
    BY <2>1, <2>2
<1>12. QED
  BY <1>1, <1>3, <1>8, <1>9, <1>10, <1>11 DEF room

\* What is stored is at its positions, the rest is as it was.
LEMMA StoredBytes ==
    ASSUME Sizes, Shape, NEW ns \in Seq(Block), NEW bytes \in Seq(Cell)
    PROVE  LET st == Buffer!Stored(ns, (m_position \div BaseSize) + 1, bytes) IN
           /\ st \in Seq(Block) /\ Len(st) = Len(ns)
           /\ \A a \in 0..(BaseSize * Len(ns)) - 1 :
                ByteOf(st, a) = IF a - m_position \in 0..Len(bytes) - 1
                                  THEN bytes[a - m_position + 1] ELSE ByteOf(ns, a)
<1> DEFINE c == (m_position \div BaseSize) + 1
           K(j, o) == (j - c) * BaseSize + o - (m_position % BaseSize)
           cell(j, o) == IF K(j, o) \in 0..Len(bytes) - 1 THEN bytes[K(j, o) + 1] ELSE ns[j][o]
           st == [j \in 1..Len(ns) |-> [o \in 0..BaseSize - 1 |-> cell(j, o)]]
<1>1. Buffer!Stored(ns, c, bytes) = st
  BY DEF Buffer!Stored
<1>2. BaseSize \in Nat \ {0} /\ Len(ns) \in Nat /\ m_position \in Nat
  BY DEF Sizes, Shape
<1>3. ASSUME NEW j \in 1..Len(ns), NEW o \in 0..BaseSize - 1
      PROVE  cell(j, o) \in Cell
  <2>1. ns[j][o] \in Cell
    BY <1>2 DEF Block
  <2>2. K(j, o) \in 0..Len(bytes) - 1 => bytes[K(j, o) + 1] \in Cell
    OBVIOUS
  <2>3. QED
    BY <2>1, <2>2
<1>4. \A j \in 1..Len(ns) : st[j] \in Block
  BY <1>3 DEF Block
<1>5. st \in Seq(Block) /\ Len(st) = Len(ns)
  BY <1>2, <1>4
<1>6. ASSUME NEW a \in 0..(BaseSize * Len(ns)) - 1
      PROVE  ByteOf(st, a) = IF a - m_position \in 0..Len(bytes) - 1
                               THEN bytes[a - m_position + 1] ELSE ByteOf(ns, a)
  <2> DEFINE j == (a \div BaseSize) + 1
             o == a % BaseSize
             h == m_position \div BaseSize
             s == m_position % BaseSize
  <2>1. j \in 1..Len(ns) /\ o \in 0..BaseSize - 1
    BY Addressed, <1>2
  <2>2. ByteOf(st, a) = cell(j, o) /\ ByteOf(ns, a) = ns[j][o]
    BY <2>1 DEF ByteOf
  <2>3. K(j, o) = a - m_position
    <3> DEFINE q == a \div BaseSize
    <3>1. a = BaseSize * q + o /\ q \in Int /\ o \in Int
      BY <1>2, DivMod
    <3>2. m_position = BaseSize * h + s /\ h \in Int /\ s \in Int
      BY <1>2, DivMod
    <3>3. K(j, o) = (q - h) * BaseSize + o - s
      BY <3>1, <3>2
    <3> HIDE DEF q, o, h, s, K
    <3>4. (q - h) * BaseSize = BaseSize * q - BaseSize * h
      BY <1>2, <3>1, <3>2
    <3>5. QED
      BY <1>2, <3>1, <3>2, <3>3, <3>4
  <2> HIDE DEF j, o, K, st
  <2>4. QED
    BY <2>2, <2>3
<1>7. QED
  BY <1>1, <1>5, <1>6

LEMMA TimesGrows ==
    ASSUME NEW x \in Nat, NEW y \in Nat, NEW z \in Nat, y <= z
    PROVE  x * y <= x * z
  OBVIOUS

LEMMA Storing ==
    ASSUME Sizes, Shape, NEW n \in Nat \ {0}, NEW bytes \in Seq(Cell), Len(bytes) <= n
    PROVE  LET room == Buffer!AddCapacity(n)
               st == Buffer!Stored(room.ns, room.cur, bytes) IN
           /\ room.ns \in Seq(Block) /\ room.cur = (m_position \div BaseSize) + 1
           /\ st \in Seq(Block) /\ Len(st) = Len(room.ns) /\ Len(st) >= 1
           /\ m_position + n <= BaseSize * Len(st) /\ capacity <= BaseSize * Len(st)
           /\ \A i \in 1..Len(bytes) : ByteOf(st, m_position + i - 1) = bytes[i]
           /\ \A a \in 0..capacity - 1 : a < m_position \/ m_position + Len(bytes) <= a
                => ByteOf(st, a) = ByteOf(nodes, a)
<1> DEFINE room == Buffer!AddCapacity(n)
           ns == room.ns
           st == Buffer!Stored(ns, room.cur, bytes)
           size == BaseSize * Len(ns)
<1>1. /\ ns \in Seq(Block) /\ Len(ns) >= Len(nodes)
      /\ m_position + n <= size
      /\ room.cur = (m_position \div BaseSize) + 1
      /\ \A j \in 1..Len(ns) : ns[j] = IF j <= Len(nodes) THEN nodes[j] ELSE Buffer!Fresh
  BY Room
<1> HIDE DEF room
<1>2. st = Buffer!Stored(ns, (m_position \div BaseSize) + 1, bytes)
  BY <1>1
<1>3. /\ st \in Seq(Block) /\ Len(st) = Len(ns)
      /\ \A a \in 0..size - 1 :
           ByteOf(st, a) = IF a - m_position \in 0..Len(bytes) - 1
                             THEN bytes[a - m_position + 1] ELSE ByteOf(ns, a)
  BY <1>1, <1>2, StoredBytes
<1> HIDE DEF st
<1>4. /\ m_position \in Nat /\ Len(nodes) \in Nat /\ Len(nodes) >= 1 /\ Len(ns) \in Nat
      /\ BaseSize \in Nat \ {0} /\ capacity = BaseSize * Len(nodes) /\ capacity \in Nat
      /\ size \in Nat /\ Len(bytes) \in Nat
  <2>1. nodes \in Seq(Block) /\ Len(nodes) >= 1 /\ capacity = BaseSize * Len(nodes)
        /\ m_position \in Nat
    BY SMTT(10) DEF Shape
  <2>2. BaseSize \in Nat \ {0}
    BY SMTT(10) DEF Sizes
  <2>3. Len(nodes) \in Nat /\ Len(ns) \in Nat /\ Len(bytes) \in Nat
    BY SMTT(10), <1>1, <2>1
  <2>4. \A x \in Nat : BaseSize * x \in Nat
    BY SMTT(10), <2>2
  <2>5. QED
    BY Zenon, <2>1, <2>2, <2>3, <2>4
<1>5. capacity <= size
  <2>1. /\ BaseSize \in Nat /\ Len(nodes) \in Nat /\ Len(ns) \in Nat
        /\ Len(nodes) <= Len(ns)
    BY <1>1, <1>4
  <2>2. BaseSize * Len(nodes) <= BaseSize * Len(ns)
    BY Zenon, <2>1, TimesGrows
  <2>3. QED
    BY Zenon, <1>4, <2>2
<1>6. ASSUME NEW a \in 0..capacity - 1
      PROVE  ByteOf(ns, a) = ByteOf(nodes, a)
  <2> DEFINE j == (a \div BaseSize) + 1
  <2>1. j \in 1..Len(nodes)
    BY <1>4, Addressed
  <2>2. ByteOf(ns, a) = ns[j][a % BaseSize] /\ ByteOf(nodes, a) = nodes[j][a % BaseSize]
    BY DEF ByteOf
  <2> HIDE DEF j
  <2>3. ns[j] = nodes[j]
    <3>1. j \in 1..Len(ns) /\ j <= Len(nodes)
      <4>1. Len(ns) \in Nat /\ Len(nodes) \in Nat /\ Len(ns) >= Len(nodes)
        BY Zenon, <1>1, <1>4
      <4>2. QED
        BY SMTT(10), <2>1, <4>1
    <3>2. QED
      BY Zenon, <1>1, <3>1
  <2>4. QED
    BY <2>2, <2>3
<1> HIDE DEF ns, size
<1>7. ASSUME NEW i \in 1..Len(bytes)
      PROVE  ByteOf(st, m_position + i - 1) = bytes[i]
  <2> DEFINE a == m_position + i - 1
  <2>1. a \in 0..size - 1 /\ a - m_position \in 0..Len(bytes) - 1 /\ a - m_position + 1 = i
    BY <1>1, <1>4
  <2> HIDE DEF a
  <2>2. ByteOf(st, a) = bytes[i]
    BY <1>3, <2>1
  <2>3. QED
    BY <2>2 DEF a
<1>8. ASSUME NEW a \in 0..capacity - 1, a < m_position \/ m_position + Len(bytes) <= a
      PROVE  ByteOf(st, a) = ByteOf(nodes, a)
  <2>1. a \in 0..size - 1 /\ a - m_position \notin 0..Len(bytes) - 1
    BY <1>4, <1>5, <1>8
  <2>2. QED
    BY <1>3, <1>6, <2>1
<1>9. Len(st) >= 1 /\ m_position + n <= BaseSize * Len(st) /\ capacity <= BaseSize * Len(st)
  BY <1>1, <1>3, <1>4, <1>5 DEF size
<1>10. ns \in Seq(Block) /\ room.cur = (m_position \div BaseSize) + 1
       /\ st \in Seq(Block) /\ Len(st) = Len(ns)
  BY <1>1, <1>3
<1>11. QED
  BY Zenon, <1>7, <1>8, <1>9, <1>10 DEF room, ns, st

\* Two bytes in an order.
Pair(e, v) == IF e = "little" THEN <<v % 256, v \div 256>> ELSE <<v \div 256, v % 256>>

\* An item is the coding of its value.
Coded(it) ==
    \/ it.kind = "raw"
    \/ /\ it.kind = "fixed"
       /\ \E v \in Fixeds : it.value = <<v>> /\ it.bytes = Pair(it.endian, v)
    \/ /\ it.kind = "string" /\ it.value \in Strings
       /\ it.bytes = Pair(it.endian, Len(it.value)) \o it.value
    \/ /\ it.kind = "int"
       /\ \E v \in Ints : it.value = <<v>> /\ it.bytes = Buffer!CodeOf(v)

\* ... and its bytes stand where they were written.
Stands(it, ns, size) ==
    /\ it.at \in Nat /\ it.n \in Nat /\ it.at + it.n <= size
    /\ it.bytes \in Seq(Cell) /\ Len(it.bytes) = it.n
    /\ \A i \in 1..it.n : ByteOf(ns, it.at + i - 1) = it.bytes[i]

Contents == \A it \in items : Stands(it, nodes, m_size) /\ Coded(it)

LastTypes == last.kind \in {"none", "fixed", "int", "string", "bytes", "file", "crash"}

BufferInv == Shape /\ Contents /\ LastTypes /\ Buffer!ReadsWhatWasWritten

LEMMA NothingRead ==
    ASSUME Contents', last' = Buffer!NoRead
    PROVE  LastTypes' /\ Buffer!ReadsWhatWasWritten'
<1>1. last'.kind = "none" /\ last'.asked = "none"
  BY DEF Buffer!NoRead
<1>2. \A it \in items' : it.kind # "none"
  BY DEF Contents, Coded
<1>3. QED
  BY <1>1, <1>2 DEF LastTypes, Buffer!ReadsWhatWasWritten

\* What is stored over other items leaves those that are intact.
LEMMA StoresItem ==
    ASSUME Sizes, Shape, Contents, NEW n \in Nat \ {0}, NEW bytes \in Seq(Cell),
           Len(bytes) \in 1..n, NEW kind, NEW value, NEW size \in Nat, m_size <= size,
           m_position + Len(bytes) <= size,
           LET room == Buffer!AddCapacity(n) IN nodes' = Buffer!Stored(room.ns, room.cur, bytes),
           m_size' = size,
           LET new == [at |-> m_position, n |-> Len(bytes), kind |-> kind,
                       endian |-> endian, value |-> value, bytes |-> bytes] IN
             Coded(new) /\ items' = Buffer!Intact(Len(bytes)) \cup {new}
    PROVE  Contents'
<1> DEFINE new == [at |-> m_position, n |-> Len(bytes), kind |-> kind,
                   endian |-> endian, value |-> value, bytes |-> bytes]
<1>1. /\ \A i \in 1..Len(bytes) : ByteOf(nodes', m_position + i - 1) = bytes[i]
      /\ \A a \in 0..capacity - 1 : a < m_position \/ m_position + Len(bytes) <= a
           => ByteOf(nodes', a) = ByteOf(nodes, a)
  BY Storing
<1>2. /\ m_position \in Nat /\ Len(bytes) \in Nat
      /\ m_size \in Nat /\ m_size <= capacity /\ capacity \in Nat
  BY DEF Shape, Sizes
<1>3. Stands(new, nodes', size)
  BY <1>1, <1>2 DEF Stands
<1>4. ASSUME NEW it \in Buffer!Intact(Len(bytes))
      PROVE  Stands(it, nodes', size) /\ Coded(it)
  <2>1. it \in items /\ (it.at + it.n <= m_position \/ m_position + Len(bytes) <= it.at)
    BY DEF Buffer!Intact
  <2>2. Stands(it, nodes, m_size) /\ Coded(it)
    BY <2>1 DEF Contents
  <2>3. ASSUME NEW i \in 1..it.n
        PROVE  ByteOf(nodes', it.at + i - 1) = it.bytes[i]
    <3> DEFINE a == it.at + i - 1
    <3>1. it.at \in Nat /\ it.n \in Nat /\ it.at + it.n <= m_size
      BY <2>2 DEF Stands
    <3>2. a \in 0..capacity - 1
      BY <1>2, <3>1
    <3>3. a < m_position \/ m_position + Len(bytes) <= a
      BY <1>2, <2>1, <3>1
    <3> HIDE DEF a
    <3>4. ByteOf(nodes', a) = ByteOf(nodes, a)
      BY <1>1, <3>2, <3>3
    <3>5. QED
      BY <2>2, <3>4 DEF Stands, a
  <2>4. QED
    BY <1>2, <2>2, <2>3 DEF Stands
<1>5. QED
  BY <1>3, <1>4 DEF Contents

\* All that write() is called for is an item.
LEMMA WriteKeeps ==
    ASSUME Sizes, Shape, Contents, NEW bytes \in Seq(Cell), Len(bytes) >= 1, NEW kind, NEW value,
           Coded([at |-> m_position, n |-> Len(bytes), kind |-> kind, endian |-> endian,
                  value |-> value, bytes |-> bytes]),
           Buffer!Write(bytes, kind, value)
    PROVE  BufferInv'
<1> DEFINE n == Len(bytes)
           room == Buffer!AddCapacity(n)
           ns == room.ns
           st == Buffer!Stored(ns, room.cur, bytes)
<1>1. n \in Nat \ {0} /\ n <= n
  OBVIOUS
<1>2. /\ Len(ns) * BaseSize <= MaxCapacity
      /\ nodes' = st /\ capacity' = Len(ns) * BaseSize
      /\ m_position' = m_position + n
      /\ m_size' = IF m_position + n > m_size THEN m_position + n ELSE m_size
      /\ m_cur' = Buffer!After(ns, room.cur, (m_position % BaseSize) + n)
      /\ items' = Buffer!Intact(n) \cup {[at |-> m_position, n |-> n, kind |-> kind,
                    endian |-> endian, value |-> value, bytes |-> bytes]}
      /\ last' = Buffer!NoRead
      /\ endian' = endian /\ saved' = saved
  BY DEF Buffer!Write, Buffer!Moved
<1>3. /\ ns \in Seq(Block) /\ room.cur = (m_position \div BaseSize) + 1
      /\ st \in Seq(Block) /\ Len(st) = Len(ns) /\ Len(st) >= 1
      /\ m_position + n <= BaseSize * Len(st) /\ capacity <= BaseSize * Len(st)
  BY <1>1, Storing
<1> HIDE DEF st, ns
<1>4. /\ BaseSize \in Nat \ {0} /\ Len(ns) \in Nat /\ n \in Nat
      /\ m_position \in Nat /\ m_size \in Nat /\ m_size <= capacity /\ capacity \in Nat
  BY <1>1, <1>3 DEF Sizes, Shape
<1>5. capacity' = BaseSize * Len(ns) /\ capacity' \in Nat
  BY <1>2, <1>4
<1>6. m_cur' = BlockOf(m_position', capacity')
  BY <1>2, <1>3, <1>4, <1>5, AfterIs
<1>7. Shape'
  <2>1. nodes' \in Seq(Block) /\ Len(nodes') >= 1 /\ capacity' = BaseSize * Len(nodes')
    BY <1>2, <1>3, <1>5
  <2>2. capacity' <= MaxCapacity
    BY <1>2
  <2>3. /\ m_position' \in Nat /\ m_size' \in Nat
        /\ m_position' <= m_size' /\ m_size' <= capacity'
    BY <1>2, <1>3, <1>4, <1>5
  <2>4. endian' \in {"big", "little"} /\ saved' \in Seq(Cell)
    BY <1>2 DEF Shape
  <2>5. QED
    BY <1>6, <2>1, <2>2, <2>3, <2>4 DEF Shape
<1>8. Contents'
  <2>1. m_size' \in Nat /\ m_size <= m_size' /\ m_position + n <= m_size'
    BY <1>2, <1>4
  <2>2. n \in 1..n
    BY <1>1
  <2>3. QED
    BY <1>1, <1>2, <2>1, <2>2, StoresItem DEF st, ns
<1>9. QED
  BY <1>2, <1>7, <1>8, NothingRead DEF BufferInv

LEMMA ReceiveKeeps ==
    ASSUME Sizes, Shape, Contents, \A s \in Strings : s \in Seq(0..255), Buffer!Receive
    PROVE  BufferInv'
<1>1. PICK n \in 1..BaseSize + 1, s \in Strings :
        LET room == Buffer!AddCapacity(n) IN
        /\ Len(s) <= n /\ Len(room.ns) * BaseSize <= MaxCapacity
        /\ nodes' = Buffer!Stored(room.ns, room.cur, s)
        /\ capacity' = Len(room.ns) * BaseSize
        /\ IF s = <<>> THEN m_cur' = room.cur /\ UNCHANGED <<m_position, m_size, items>>
           ELSE /\ m_position' = m_position + Len(s)
                /\ m_size' = IF m_position' > m_size THEN m_position' ELSE m_size
                /\ m_cur' = Buffer!After(room.ns, 1, m_position')
                /\ items' = Buffer!Intact(Len(s)) \cup
                     {[at |-> m_position, n |-> Len(s), kind |-> "raw",
                       endian |-> endian, value |-> s, bytes |-> s]}
  BY DEF Buffer!Receive
<1>2. last' = Buffer!NoRead /\ endian' = endian /\ saved' = saved
  BY DEF Buffer!Receive
<1> DEFINE room == Buffer!AddCapacity(n)
           ns == room.ns
           st == Buffer!Stored(ns, room.cur, s)
<1>3. n \in Nat \ {0} /\ s \in Seq(Cell) /\ Len(s) <= n /\ s \in Seq(0..255)
  BY <1>1 DEF Sizes, Cell, Buffer!Junk
<1>4. /\ ns \in Seq(Block) /\ room.cur = (m_position \div BaseSize) + 1
      /\ st \in Seq(Block) /\ Len(st) = Len(ns) /\ Len(st) >= 1
      /\ m_position + n <= BaseSize * Len(st) /\ capacity <= BaseSize * Len(st)
      /\ \A a \in 0..capacity - 1 : a < m_position \/ m_position + Len(s) <= a
           => ByteOf(st, a) = ByteOf(nodes, a)
  BY <1>3, Storing
<1>5. nodes' = st /\ capacity' = Len(ns) * BaseSize /\ Len(ns) * BaseSize <= MaxCapacity
  BY <1>1
<1> HIDE DEF st, ns
<1>6. /\ BaseSize \in Nat \ {0} /\ Len(ns) \in Nat /\ Len(s) \in Nat
      /\ m_position \in Nat /\ m_size \in Nat /\ m_position <= m_size
      /\ m_size <= capacity /\ capacity \in Nat
  BY <1>3, <1>4 DEF Sizes, Shape
<1>7. capacity' = BaseSize * Len(ns) /\ capacity' \in Nat
  BY <1>5, <1>6
<1>8. /\ nodes' \in Seq(Block) /\ Len(nodes') >= 1 /\ capacity' = BaseSize * Len(nodes')
      /\ capacity' <= MaxCapacity /\ endian' \in {"big", "little"} /\ saved' \in Seq(Cell)
  BY <1>2, <1>4, <1>5, <1>7 DEF Shape
<1>9. CASE s = <<>>
  <2>1. m_cur' = room.cur /\ m_position' = m_position /\ m_size' = m_size /\ items' = items
    BY <1>1, <1>9
  <2>2. m_cur' = BlockOf(m_position', capacity')
    BY <1>3, <1>4, <1>6, <1>7, <2>1 DEF BlockOf
  <2>3. Shape'
    BY <1>4, <1>6, <1>7, <1>8, <2>1, <2>2 DEF Shape
  <2>4. ASSUME NEW it \in items
        PROVE  Stands(it, nodes', m_size') /\ Coded(it)
    <3>1. Stands(it, nodes, m_size) /\ Coded(it)
      BY DEF Contents
    <3>2. it.at \in Nat /\ it.n \in Nat /\ it.at + it.n <= m_size
      BY <3>1 DEF Stands
    <3>3. ASSUME NEW i \in 1..it.n
          PROVE  ByteOf(nodes', it.at + i - 1) = it.bytes[i]
      <4> DEFINE a == it.at + i - 1
      <4>1. a \in 0..capacity - 1 /\ (a < m_position \/ m_position <= a)
        BY <1>6, <3>2
      <4>2. Len(s) = 0
        BY <1>9
      <4> HIDE DEF a
      <4>3. ByteOf(nodes', a) = ByteOf(nodes, a)
        BY <1>4, <1>5, <1>6, <4>1, <4>2
      <4>4. QED
        BY <3>1, <4>3 DEF Stands, a
    <3>4. QED
      BY <2>1, <3>1, <3>3 DEF Stands
  <2>5. Contents'
    BY <2>1, <2>4 DEF Contents
  <2>6. QED
    BY <1>2, <2>3, <2>5, NothingRead DEF BufferInv
<1>10. CASE s # <<>>
  <2> DEFINE k == Len(s)
  <2>1. /\ m_position' = m_position + k
        /\ m_size' = IF m_position' > m_size THEN m_position' ELSE m_size
        /\ m_cur' = Buffer!After(ns, 1, m_position')
        /\ items' = Buffer!Intact(k) \cup {[at |-> m_position, n |-> k, kind |-> "raw",
                       endian |-> endian, value |-> s, bytes |-> s]}
    BY <1>1, <1>10 DEF ns
  <2>2. k \in 1..n
    BY <1>3, <1>10
  <2>3. m_cur' = BlockOf(m_position', capacity')
    BY <1>4, <1>6, <1>7, <2>1, <2>2, AfterRoot
  <2>4. /\ m_position' \in Nat /\ m_size' \in Nat /\ m_size <= m_size'
        /\ m_position' <= m_size' /\ m_size' <= capacity' /\ m_position + k <= m_size'
    BY <1>4, <1>6, <1>7, <2>1, <2>2
  <2>5. Shape'
    BY <1>8, <2>3, <2>4 DEF Shape
  <2>6. Coded([at |-> m_position, n |-> k, kind |-> "raw", endian |-> endian,
               value |-> s, bytes |-> s])
    BY DEF Coded
  <2>7. Contents'
    BY <1>3, <1>5, <2>1, <2>2, <2>4, <2>6, StoresItem DEF st, ns
  <2>8. QED
    BY <1>2, <2>5, <2>7, NothingRead DEF BufferInv
<1>11. QED
  BY <1>9, <1>10

-----------------------------------------------------------------------------
(* Reading.                                                                *)

\* The walk of a read gives the bytes of the positions.
LEMMA Walked ==
    ASSUME Sizes, Shape, NEW n \in Nat, m_position + n <= capacity
    PROVE  /\ Buffer!Walk(n) \in Seq(Cell) /\ Len(Buffer!Walk(n)) = n
           /\ \A i \in 1..n : Buffer!Walk(n)[i] = ByteOf(nodes, m_position + i - 1)
<1> DEFINE walk(i) == LET k == (m_position % BaseSize) + i - 1
                      IN  nodes[m_cur + (k \div BaseSize)][k % BaseSize]
<1>1. Buffer!Walk(n) = [i \in 1..n |-> walk(i)]
  BY DEF Buffer!Walk
<1>2. ASSUME NEW i \in 1..n
      PROVE  walk(i) = ByteOf(nodes, m_position + i - 1) /\ walk(i) \in Cell
  <2> DEFINE h == m_position \div BaseSize
             s == m_position % BaseSize
             e == i - 1
             a == m_position + e
  <2>1. /\ BaseSize \in Nat \ {0} /\ m_position \in Int /\ e \in Int
        /\ Len(nodes) \in Nat /\ capacity = BaseSize * Len(nodes) /\ nodes \in Seq(Block)
    BY DEF Sizes, Shape
  <2>2. m_cur = h + 1
    BY <2>1 DEF Shape, BlockOf
  <2>3. h + ((s + e) \div BaseSize) = a \div BaseSize /\ (s + e) % BaseSize = a % BaseSize
    BY Zenon, <2>1, DivAdd
  <2>4. h \in Int /\ s \in Int /\ (s + e) \div BaseSize \in Int
    BY <2>1, DivMod
  <2>5. (m_position % BaseSize) + i - 1 = s + e
    BY <2>4
  <2>6. a \in 0..(BaseSize * Len(nodes)) - 1 /\ m_position + i - 1 = a
    BY <2>1 DEF Shape
  <2>7. (a \div BaseSize) + 1 \in 1..Len(nodes) /\ a % BaseSize \in 0..BaseSize - 1
    BY <2>1, <2>6, Addressed
  <2>8. walk(i) = nodes[m_cur + ((s + e) \div BaseSize)][(s + e) % BaseSize]
    BY <2>5
  <2> HIDE DEF walk, h, s, e, a
  <2>9. m_cur + ((s + e) \div BaseSize) = (a \div BaseSize) + 1
    BY <2>2, <2>3, <2>4
  <2>10. walk(i) = ByteOf(nodes, a)
    BY <2>3, <2>8, <2>9 DEF ByteOf
  <2>11. ByteOf(nodes, a) \in Cell
    BY <2>1, <2>7 DEF ByteOf, Block
  <2>12. QED
    BY <2>6, <2>10, <2>11
<1> HIDE DEF walk
<1>3. QED
  BY <1>1, <1>2

LEMMA TookKeeps ==
    ASSUME Sizes, Shape, Contents, NEW n \in Nat, n <= Buffer!ReadSize,
           NEW asked, NEW kind, NEW value, Buffer!Took(n, asked, kind, value)
    PROVE  Shape' /\ Contents'
<1>1. /\ m_position' = m_position + n
      /\ m_cur' = Buffer!After(nodes, m_cur, (m_position % BaseSize) + n)
      /\ nodes' = nodes /\ capacity' = capacity /\ m_size' = m_size
      /\ endian' = endian /\ saved' = saved /\ items' = items
  BY DEF Buffer!Took
<1>2. /\ BaseSize \in Nat \ {0} /\ Len(nodes) \in Nat /\ Len(nodes) >= 1
      /\ capacity = BaseSize * Len(nodes) /\ capacity \in Nat
      /\ m_position \in Nat /\ m_size \in Nat /\ m_position + n <= m_size /\ m_size <= capacity
  BY DEF Sizes, Shape, Buffer!ReadSize
<1>3. m_cur' = BlockOf(m_position + n, capacity)
  <2>1. CASE m_position = capacity
    <3>1. m_position = BaseSize * Len(nodes) + 0 /\ n = 0
      BY <1>2, <2>1
    <3>2. /\ BaseSize * 0 = 0 /\ m_position = BaseSize * Len(nodes)
          /\ 0 \in Int /\ Len(nodes) \in Int
      BY <1>2, <2>1
    <3>3. m_position % BaseSize = 0 /\ (0 \div BaseSize) = 0
      <4>1. (BaseSize * Len(nodes)) % BaseSize = 0
        BY Zenon, <1>2, <3>2, WholeBlocks
      <4>2. (BaseSize * 0) \div BaseSize = 0
        BY Zenon, <1>2, <3>2, WholeBlocks
      <4>3. QED
        BY Zenon, <3>2, <4>1, <4>2
    <3>4. m_cur = 0
      BY <2>1 DEF Shape, BlockOf
    <3>5. Buffer!After(nodes, 0, 0) = 0
      BY <1>2, <3>3 DEF Buffer!After, Buffer!Null
    <3>6. QED
      BY <1>1, <1>2, <2>1, <3>1, <3>3, <3>4, <3>5 DEF BlockOf
  <2>2. CASE m_position # capacity
    <3>1. m_cur = (m_position \div BaseSize) + 1
      BY <2>2 DEF Shape, BlockOf
    <3>2. m_position + n <= BaseSize * Len(nodes)
      BY <1>2
    <3>3. m_cur' = Buffer!After(nodes, (m_position \div BaseSize) + 1,
                                (m_position % BaseSize) + n)
      BY <1>1, <3>1
    <3>4. m_cur' = BlockOf(m_position + n, BaseSize * Len(nodes))
      BY Zenon, <1>2, <3>2, <3>3, AfterIs
    <3>5. QED
      BY <1>2, <3>4
  <2>3. QED
    BY <2>1, <2>2
<1>4. Shape'
  BY <1>1, <1>2, <1>3 DEF Shape
<1>5. Contents'
  BY <1>1 DEF Contents
<1>6. QED
  BY <1>4, <1>5

LEMMA SeekKeeps ==
    ASSUME Sizes, Shape, Contents, NEW v \in 0..capacity, Buffer!Seek(v),
           UNCHANGED <<nodes, capacity, endian, saved, items>>
    PROVE  Shape' /\ Contents'
<1>1. /\ m_position' = v /\ m_size' = (IF v > m_size THEN v ELSE m_size)
      /\ m_cur' = Buffer!After(nodes, 1, v)
  BY DEF Buffer!Seek
<1>2. /\ BaseSize \in Nat \ {0} /\ Len(nodes) \in Nat /\ Len(nodes) >= 1
      /\ capacity = BaseSize * Len(nodes) /\ capacity \in Nat /\ v \in Nat
      /\ m_size \in Nat /\ m_size <= capacity
  BY DEF Sizes, Shape
<1>3. m_cur' = BlockOf(v, capacity)
  BY <1>1, <1>2, AfterRoot
<1>4. Shape'
  BY <1>1, <1>2, <1>3 DEF Shape
<1>5. ASSUME NEW it \in items
      PROVE  Stands(it, nodes, m_size') /\ Coded(it)
  BY <1>1, <1>2 DEF Contents, Stands
<1>6. QED
  BY <1>4, <1>5 DEF Contents

Octet == 0..255
Word == 0..65535

\* The code's writeFuint16() takes two bytes, and a length must fit them; of the
\* codec of compressed integers only that it decodes what it encodes.
Values ==
    /\ Width \in Nat
    /\ Fixeds \subseteq Word
    /\ \A s \in Strings : s \in Seq(Octet) /\ Len(s) \in Word
    /\ \A v \in Ints : Buffer!Decodable(v)

LEMMA TwoBytes ==
    ASSUME NEW lo \in Octet, NEW hi \in Octet
    PROVE  <<lo, hi>> \in Seq(Octet) /\ Len(<<lo, hi>>) = 2
  OBVIOUS

LEMMA Reversed ==
    ASSUME NEW lo, NEW hi
    PROVE  Buffer!Reverse(<<lo, hi>>) = <<hi, lo>>
  BY DEF Buffer!Reverse

LEMMA HalvesOf ==
    ASSUME NEW v \in Word
    PROVE  v % 256 \in Octet /\ v \div 256 \in Octet /\ v = (v % 256) + 256 * (v \div 256)
  BY SMTT(10) DEF Word, Octet

LEMMA PairIs ==
    ASSUME NEW v \in Word, NEW e
    PROVE  /\ Pair(e, v) \in Seq(Octet) /\ Len(Pair(e, v)) = 2
           /\ Pair(e, v)[1] = (IF e = "little" THEN v % 256 ELSE v \div 256)
           /\ Pair(e, v)[2] = (IF e = "little" THEN v \div 256 ELSE v % 256)
<1>1. v % 256 \in Octet /\ v \div 256 \in Octet
  BY SMTT(10), HalvesOf
<1>2. QED
  BY SMTT(10), <1>1, TwoBytes DEF Pair

LEMMA FixedIsPair ==
    ASSUME NEW v
    PROVE  Buffer!Fixed(v) = Pair(endian, v)
  BY SMTT(10), Reversed DEF Buffer!Fixed, Buffer!Digits, Pair

LEMMA FromPair ==
    ASSUME NEW v \in Word, NEW b, b[1] = Pair(endian, v)[1], b[2] = Pair(endian, v)[2]
    PROVE  Buffer!FromFixed(b) = v
  BY SMTT(10), PairIs, HalvesOf DEF Buffer!FromFixed

LEMMA Within ==
    ASSUME NEW S, NEW read \in Seq(S), NEW n \in Nat, NEW skip \in Nat,
           skip + n <= Len(read), NEW i \in 1..n, NEW place \in Nat
    PROVE  skip + i \in 1..Len(read) /\ place + (skip + i) - 1 = place + skip + i - 1
<1>1. Len(read) \in Nat
  OBVIOUS
<1>2. QED
  BY <1>1

LEMMA Stretch ==
    ASSUME NEW S, NEW read \in Seq(S), NEW bytes \in Seq(S), NEW skip \in Nat,
           skip + Len(bytes) <= Len(read),
           \A i \in 1..Len(bytes) : read[skip + i] = bytes[i]
    PROVE  SubSeq(read, skip + 1, skip + Len(bytes)) = bytes
<1> DEFINE n == Len(bytes)
           sub == SubSeq(read, skip + 1, skip + n)
<1>1. n \in Nat /\ Len(read) \in Nat
  OBVIOUS
<1>2. sub = [i \in 1..n |-> read[skip + i]]
  BY <1>1
<1>3. bytes = [i \in 1..n |-> bytes[i]]
  OBVIOUS
<1> HIDE DEF sub
<1>4. sub = bytes
  BY <1>2, <1>3
<1>5. QED
  BY <1>4 DEF sub

\* A stretch of the array that holds an item holds its bytes.
LEMMA Spanned ==
    ASSUME Sizes, Shape, NEW it, Stands(it, nodes, m_size),
           NEW read \in Seq(Cell), NEW place \in Nat,
           \A i \in 1..Len(read) : read[i] = ByteOf(nodes, place + i - 1),
           it.at - place >= 0, it.at - place + it.n <= Len(read)
    PROVE  SubSeq(read, it.at - place + 1, it.at - place + it.n) = it.bytes
<1> DEFINE skip == it.at - place
           bytes == it.bytes
           n == it.n
<1>1. /\ it.at \in Nat /\ n \in Nat /\ bytes \in Seq(Cell) /\ Len(bytes) = n
      /\ \A i \in 1..n : ByteOf(nodes, it.at + i - 1) = bytes[i]
  BY DEF Stands
<1>2. skip \in Nat /\ skip + n <= Len(read) /\ it.at = place + skip
  BY <1>1
<1> HIDE DEF skip, n, bytes
<1>3. \A i \in 1..n : ByteOf(nodes, place + skip + i - 1) = bytes[i]
  BY <1>1, <1>2
<1>4. ASSUME NEW i \in 1..n
      PROVE  read[skip + i] = bytes[i]
  <2> DEFINE k == skip + i
  <2>1. k \in 1..Len(read) /\ place + k - 1 = place + skip + i - 1
    BY SMTT(10), <1>1, <1>2, Within
  <2> HIDE DEF k
  <2>2. read[k] = ByteOf(nodes, place + k - 1)
    BY <2>1
  <2>3. QED
    BY <1>3, <2>1, <2>2 DEF k
<1>5. SubSeq(read, skip + 1, skip + n) = bytes
  BY <1>1, <1>2, <1>4, Stretch
<1>6. QED
  BY <1>5 DEF skip, n, bytes

LEMMA StretchRead ==
    ASSUME Sizes, Shape, Contents, NEW kind \in {"bytes", "file"},
           NEW read \in Seq(Cell), last'.asked = kind, last'.kind = kind,
           last'.at = m_position, last'.value = read,
           kind = "file" => m_position % BaseSize # 0
             \/ \A i \in 1..Len(read) : read[i] = ByteOf(nodes, m_position + i - 1),
           kind = "bytes" => \A i \in 1..Len(read) : read[i] = ByteOf(nodes, m_position + i - 1),
           items' = items
    PROVE  LastTypes' /\ Buffer!ReadsWhatWasWritten'
<1>1. LastTypes'
  BY DEF LastTypes
<1>2. ASSUME NEW it \in items
      PROVE  /\ it.kind # kind
             /\ kind = "bytes" \/ (kind = "file" /\ m_position % BaseSize = 0) =>
                  LET skip == it.at - m_position IN
                  skip >= 0 /\ skip + it.n <= Len(read)
                     => SubSeq(read, skip + 1, skip + it.n) = it.bytes
  <2>1. Stands(it, nodes, m_size) /\ Coded(it)
    BY DEF Contents
  <2>2. it.kind # kind
    BY <2>1 DEF Coded
  <2>3. m_position \in Nat
    BY DEF Shape
  <2>4. QED
    BY <2>1, <2>2, <2>3, Spanned
<1>3. QED
  BY <1>1, <1>2 DEF Buffer!ReadsWhatWasWritten

\* The bytes of an item under the cursor are what is read there.
LEMMA UnderCursor ==
    ASSUME Sizes, Shape, NEW it, Stands(it, nodes, m_size), it.at = m_position,
           NEW n \in Nat, m_position + n <= capacity, NEW i \in 1..n, i <= it.n
    PROVE  Buffer!Walk(n)[i] = it.bytes[i]
<1>1. Buffer!Walk(n)[i] = ByteOf(nodes, m_position + i - 1)
  BY Walked
<1>2. it.n \in Nat /\ i \in 1..it.n
  BY DEF Stands
<1>3. QED
  BY <1>1, <1>2 DEF Stands

LEMMA NothingTook ==
    ASSUME Contents', last'.kind \in {"none", "crash"}, last'.asked \in {"none", "file"}
    PROVE  LastTypes' /\ Buffer!ReadsWhatWasWritten'
<1>1. ASSUME NEW it \in items'
      PROVE  it.kind # last'.asked
  <2>1. Coded(it)'
    BY DEF Contents
  <2>2. it.kind \in {"raw", "fixed", "string", "int"}
    BY Zenon, <2>1 DEF Coded
  <2>3. QED
    BY SMTT(10), <2>2
<1>2. QED
  BY SMTT(10), <1>1 DEF LastTypes, Buffer!ReadsWhatWasWritten

\* A read is right if it returns the value of every item of its kind that is
\* there, or crashes where it may.
LEMMA ValueTook ==
    ASSUME items' = items, capacity' = capacity,
           NEW kind \in {"fixed", "int", "string"}, NEW got \in {"none", "crash", kind},
           NEW value, last'.asked = kind, last'.kind = got, last'.at = m_position,
           last'.endian = endian, last'.value = value,
           \A it \in items : it.kind = kind /\ it.at = m_position
                               /\ (it.kind = "int" \/ it.endian = endian)
             => \/ got = kind /\ it.value = value
                \/ got = "crash" /\ Buffer!EmptyAtTheEnd(it)
    PROVE  LastTypes' /\ Buffer!ReadsWhatWasWritten'
<1>1. ASSUME NEW it \in items', it.kind = last'.asked, it.at = last'.at,
             it.kind = "int" \/ it.endian = last'.endian
      PROVE  \/ last'.kind = it.kind /\ last'.value = it.value
             \/ last'.kind = "crash" /\ Buffer!EmptyAtTheEnd(it)'
  <2>1. it \in items /\ it.kind = kind /\ it.at = m_position
          /\ (it.kind = "int" \/ it.endian = endian)
    BY <1>1
  <2>2. CASE got = kind /\ it.value = value
    BY <2>1, <2>2
  <2>3. CASE got = "crash" /\ Buffer!EmptyAtTheEnd(it)
    BY <2>3 DEF Buffer!EmptyAtTheEnd
  <2>4. QED
    BY <2>1, <2>2, <2>3
<1>2. last'.kind # "bytes" /\ last'.kind # "file"
  BY SMTT(10)
<1>3. LastTypes'
  BY SMTT(10) DEF LastTypes
<1>4. QED
  BY <1>1, <1>2, <1>3 DEF Buffer!ReadsWhatWasWritten

LEMMA Sized ==
    ASSUME Sizes, Shape
    PROVE  Buffer!ReadSize \in Nat /\ m_position \in Nat /\ capacity \in Nat
           /\ m_position + Buffer!ReadSize = m_size /\ m_size <= capacity
  BY SMTT(10) DEF Sizes, Shape, Buffer!ReadSize

LEMMA WrittenIs ==
    ASSUME Sizes, Shape, Buffer!Written(Buffer!ReadSize), NEW n \in Nat,
           n <= Buffer!ReadSize, NEW i \in 1..n
    PROVE  Buffer!Walk(n)[i] \in Octet
<1> DEFINE m == Buffer!ReadSize
<1>1. m \in Nat /\ m_position \in Nat /\ capacity \in Nat /\ m_position + m <= capacity /\ n <= m
  BY SMTT(10), Sized
<1>2. Buffer!Written(m)
  OBVIOUS
<1> HIDE DEF m
<1>3. i \in 1..m /\ m_position + n <= capacity
  BY SMTT(10), <1>1
<1>4. Buffer!Walk(m)[i] = ByteOf(nodes, m_position + i - 1)
  BY SMTT(10), <1>1, <1>3, Walked
<1>5. Buffer!Walk(n)[i] = ByteOf(nodes, m_position + i - 1) /\ Buffer!Walk(n) \in Seq(Cell)
      /\ Len(Buffer!Walk(n)) = n
  BY SMTT(10), <1>3, Walked
<1>6. Buffer!Walk(m)[i] # -1
  BY SMTT(10), <1>2, <1>3 DEF Buffer!Written, Buffer!Junk
<1>7. Buffer!Walk(n)[i] \in Cell
  BY SMTT(10), <1>5
<1>8. QED
  BY SMTT(10), <1>4, <1>5, <1>6, <1>7 DEF Cell, Buffer!Junk, Octet

LEMMA TookRead ==
    ASSUME NEW n, NEW asked, NEW kind, NEW value, Buffer!Took(n, asked, kind, value)
    PROVE  /\ items' = items /\ capacity' = capacity
           /\ last'.asked = asked /\ last'.kind = kind /\ last'.at = m_position
           /\ last'.endian = endian /\ last'.value = value
BY DEF Buffer!Took

\* A read that finds no item of its kind may return what it likes.
LEMMA TookNoItem ==
    ASSUME Sizes, Shape, Contents, NEW n \in Nat, n <= Buffer!ReadSize,
           NEW asked \in {"fixed", "int", "string"}, NEW kind \in {"none", "crash"}, NEW value,
           Buffer!Took(n, asked, kind, value),
           \A it \in items : it.kind = asked /\ it.at = m_position
                               /\ (it.kind = "int" \/ it.endian = endian)
             => kind = "crash" /\ Buffer!EmptyAtTheEnd(it)
    PROVE  BufferInv'
<1>1. Shape' /\ Contents'
  BY SMTT(10), TookKeeps
<1>2. /\ items' = items /\ capacity' = capacity
      /\ last'.asked = asked /\ last'.kind = kind /\ last'.at = m_position
      /\ last'.endian = endian /\ last'.value = value
  BY TookRead
<1>3. LastTypes' /\ Buffer!ReadsWhatWasWritten'
  BY <1>2, ValueTook
<1>4. QED
  BY <1>1, <1>3 DEF BufferInv

LEMMA ReadFixedKeeps ==
    ASSUME Sizes, Values, Shape, Contents, Buffer!ReadFixed
    PROVE  BufferInv'
<1>1. /\ Buffer!ReadSize \in Nat /\ m_position \in Nat /\ capacity \in Nat
      /\ m_position + Buffer!ReadSize = m_size /\ m_size <= capacity
  BY Sized
<1>2. IF Buffer!ReadSize < 2 THEN Buffer!Took(0, "fixed", "none", <<>>)
      ELSE Buffer!Took(2, "fixed", "fixed", <<Buffer!FromFixed(Buffer!Walk(2))>>)
  BY SMTT(10) DEF Buffer!ReadFixed
<1>3. ASSUME NEW it \in items, it.kind = "fixed", it.at = m_position, it.endian = endian
      PROVE  /\ Stands(it, nodes, m_size) /\ it.n = 2 /\ m_position + 2 <= m_size
             /\ \E v \in Fixeds : it.value = <<v>> /\ it.bytes = Pair(endian, v)
  <2>1. Stands(it, nodes, m_size) /\ Coded(it)
    BY DEF Contents
  <2>2. PICK v \in Fixeds : it.value = <<v>> /\ it.bytes = Pair(endian, v)
    BY SMTT(10), <1>3, <2>1 DEF Coded
  <2>3. v \in Word
    BY SMTT(10) DEF Values
  <2>4. it.n = 2
    BY SMTT(10), <2>1, <2>2, <2>3, PairIs DEF Stands
  <2>5. m_position + 2 <= m_size
    BY SMTT(10), <1>3, <2>1, <2>4 DEF Stands
  <2>6. QED
    BY <2>1, <2>2, <2>4, <2>5
<1>4. CASE Buffer!ReadSize < 2
  <2>1. Buffer!Took(0, "fixed", "none", <<>>)
    BY SMTT(10), <1>2, <1>4
  <2>2. 0 \in Nat /\ 0 <= Buffer!ReadSize
    BY SMTT(10), <1>1
  <2>3. ASSUME NEW it \in items, it.kind = "fixed", it.at = m_position, it.endian = endian
        PROVE  FALSE
    <3>1. m_position + 2 <= m_size
      BY <1>3, <2>3
    <3>2. QED
      BY SMTT(10), <1>1, <1>4, <3>1
  <2>4. QED
    BY <2>1, <2>2, <2>3, TookNoItem
<1>5. CASE ~(Buffer!ReadSize < 2)
  <2> DEFINE walk == Buffer!Walk(2)
             value == <<Buffer!FromFixed(walk)>>
  <2>1. Buffer!Took(2, "fixed", "fixed", value)
    BY SMTT(10), <1>2, <1>5
  <2>2. 2 <= Buffer!ReadSize /\ m_position + 2 <= capacity
    BY SMTT(10), <1>1, <1>5
  <2>3. Shape' /\ Contents'
    BY SMTT(10), <2>1, <2>2, TookKeeps
  <2>4. /\ items' = items /\ capacity' = capacity
        /\ last'.asked = "fixed" /\ last'.kind = "fixed" /\ last'.at = m_position
        /\ last'.endian = endian /\ last'.value = value
    BY <2>1, TookRead
  <2>5. ASSUME NEW it \in items, it.kind = "fixed", it.at = m_position, it.endian = endian
        PROVE  it.value = value
    <3>1. Stands(it, nodes, m_size) /\ it.n = 2
      BY <1>3, <2>5
    <3>2. PICK v \in Fixeds : it.value = <<v>> /\ it.bytes = Pair(endian, v)
      BY <1>3, <2>5
    <3>3. v \in Word
      BY SMTT(10) DEF Values
    <3>4. walk[1] = it.bytes[1] /\ walk[2] = it.bytes[2]
      BY SMTT(10), <2>2, <2>5, <3>1, UnderCursor
    <3>5. Buffer!FromFixed(walk) = v
      BY SMTT(10), <3>2, <3>3, <3>4, FromPair
    <3>6. QED
      BY SMTT(10), <3>2, <3>5
  <2> HIDE DEF value
  <2>6. LastTypes' /\ Buffer!ReadsWhatWasWritten'
    BY SMTT(10), <2>4, <2>5, ValueTook
  <2>7. QED
    BY <2>3, <2>6 DEF BufferInv
<1>6. QED
  BY <1>4, <1>5

\* A compressed integer under the cursor ends where its decoder stops, within
\* what there is to read.
LEMMA IntUnderCursor ==
    ASSUME Sizes, Values, Shape, Contents, Buffer!MaxVarint \in Int,
           NEW it \in items, it.kind = "int", it.at = m_position
    PROVE  \E v \in Ints : \E n \in 1..Buffer!MaxVarint :
             /\ it.value = <<v>> /\ n = Len(Buffer!CodeOf(v))
             /\ Buffer!CodeOf(v) \in Seq(0..255)
             /\ \A i \in 1..n : Buffer!CodeOf(v)[i] < 128 \/ i = Buffer!MaxVarint <=> i = n
             /\ Buffer!DecodeZigzag(Buffer!FromVarint(Buffer!CodeOf(v))) = v
             /\ n <= Buffer!ReadSize /\ m_position + n <= capacity
             /\ \A k \in 1..n : \A i \in 1..k : Buffer!Walk(k)[i] = Buffer!CodeOf(v)[i]
<1>1. /\ Buffer!ReadSize \in Nat /\ m_position \in Nat /\ capacity \in Nat
      /\ m_position + Buffer!ReadSize = m_size /\ m_size <= capacity
  BY Sized
<1>2. Stands(it, nodes, m_size) /\ Coded(it)
  BY DEF Contents
<1>3. PICK v \in Ints : it.value = <<v>> /\ it.bytes = Buffer!CodeOf(v)
  BY SMTT(10), <1>2 DEF Coded
<1> DEFINE code == Buffer!CodeOf(v)
           n == Len(code)
<1>4. /\ code \in Seq(0..255) /\ n \in 1..Buffer!MaxVarint
      /\ \A i \in 1..n : code[i] < 128 \/ i = Buffer!MaxVarint <=> i = n
      /\ Buffer!DecodeZigzag(Buffer!FromVarint(code)) = v
  BY DEF Values, Buffer!Decodable
<1>5. it.bytes = code
  BY <1>3
<1> HIDE DEF code
<1>6. it.n = n /\ n \in Nat /\ m_position + n <= m_size
  BY SMTT(10), <1>2, <1>4, <1>5 DEF Stands
<1>7. n <= Buffer!ReadSize /\ m_position + n <= capacity
  BY SMTT(10), <1>1, <1>6
<1>8. ASSUME NEW k \in 1..n, NEW i \in 1..k
      PROVE  Buffer!Walk(k)[i] = code[i]
  <2>1. k \in Nat /\ m_position + k <= capacity /\ i <= it.n
    BY SMTT(10), <1>1, <1>6, <1>7
  <2>2. QED
    BY SMTT(10), <1>2, <1>5, <2>1, UnderCursor
<1>9. QED
  BY <1>3, <1>4, <1>7, <1>8 DEF code

LEMMA ReadIntKeeps ==
    ASSUME Sizes, Values, Shape, Contents, Buffer!ReadInt
    PROVE  BufferInv'
<1> DEFINE size == Buffer!ReadSize
           walk(n) == Buffer!Walk(n)
           value(n) == <<Buffer!DecodeZigzag(Buffer!FromVarint(walk(n)))>>
           ends == {n \in 1..Buffer!MaxVarint :
                      n <= size /\ (walk(n)[n] < 128 \/ n = Buffer!MaxVarint)}
           least == CHOOSE n \in ends : \A k \in ends : n <= k
<1>1. /\ size \in Nat /\ m_position \in Nat /\ capacity \in Nat
      /\ m_position + size = m_size /\ m_size <= capacity
  BY Sized
<1>2. IF ends = {} THEN Buffer!Took(size, "int", "none", <<>>)
      ELSE Buffer!Took(least, "int", "int", value(least))
  BY SMTT(10) DEF Buffer!ReadInt
<1>3. Buffer!MaxVarint \in Int
  BY SMTT(10) DEF Values, Buffer!MaxVarint
<1>4. ASSUME NEW n \in 1..Buffer!MaxVarint, NEW code, n <= size,
             \A i \in 1..n : code[i] < 128 \/ i = Buffer!MaxVarint <=> i = n,
             \A k \in 1..n : \A i \in 1..k : walk(k)[i] = code[i]
      PROVE  n \in ends /\ \A k \in ends : ~(k < n)
  <2>1. n \in ends
    <3>1. n \in 1..n
      BY SMTT(10), <1>3
    <3>2. walk(n)[n] = code[n]
      BY <1>4, <3>1
    <3>3. QED
      BY SMTT(10), <1>4, <3>1, <3>2
  <2>2. ASSUME NEW k \in ends, k < n
        PROVE  FALSE
    <3>1. k \in 1..n /\ k \in 1..k /\ k # n
      BY SMTT(10), <1>3, <2>2
    <3>2. walk(k)[k] = code[k]
      BY <1>4, <3>1
    <3>3. code[k] < 128 \/ k = Buffer!MaxVarint
      BY SMTT(10), <3>2
    <3>4. QED
      BY SMTT(10), <1>4, <3>1, <3>3
  <2>3. QED
    BY <2>1, <2>2
<1>5. CASE ends = {}
  <2>1. Buffer!Took(size, "int", "none", <<>>)
    BY Zenon, <1>2, <1>5
  <2>2. ASSUME NEW it \in items, it.kind = "int", it.at = m_position
        PROVE  FALSE
    <3>1. PICK v \in Ints, n \in 1..Buffer!MaxVarint :
             /\ n <= size
             /\ \A i \in 1..n : Buffer!CodeOf(v)[i] < 128 \/ i = Buffer!MaxVarint <=> i = n
             /\ \A k \in 1..n : \A i \in 1..k : walk(k)[i] = Buffer!CodeOf(v)[i]
      BY <1>3, <2>2, IntUnderCursor
    <3> HIDE DEF ends, walk
    <3>2. n \in ends
      BY <1>4, <3>1
    <3>3. QED
      BY <1>5, <3>2
  <2>3. size <= size
    BY <1>1
  <2> HIDE DEF ends
  <2>4. QED
    BY <1>1, <2>1, <2>2, <2>3, TookNoItem
<1>6. CASE ends # {}
  <2>1. Buffer!Took(least, "int", "int", value(least))
    BY Zenon, <1>2, <1>6
  <2>2. ends \in SUBSET Nat
    BY SMTT(10), <1>3
  <2>3. least \in ends /\ \A k \in ends : least <= k
    <3> HIDE DEF ends
    <3>1. QED
      BY <1>6, <2>2, LeastExists
  <2>4. least \in Nat /\ least <= size
    <3> HIDE DEF least
    <3>1. QED
      BY SMTT(10), <1>3, <2>3
  <2> HIDE DEF least
  <2>5. Shape' /\ Contents'
    BY SMTT(10), <2>1, <2>4, TookKeeps
  <2>6. /\ items' = items /\ capacity' = capacity
        /\ last'.asked = "int" /\ last'.kind = "int" /\ last'.at = m_position
        /\ last'.endian = endian /\ last'.value = value(least)
    BY <2>1, TookRead
  <2>7. ASSUME NEW it \in items, it.kind = "int", it.at = m_position
        PROVE  it.value = value(least)
    <3>1. PICK v \in Ints, n \in 1..Buffer!MaxVarint :
             /\ it.value = <<v>> /\ n = Len(Buffer!CodeOf(v))
             /\ Buffer!CodeOf(v) \in Seq(0..255)
             /\ \A i \in 1..n : Buffer!CodeOf(v)[i] < 128 \/ i = Buffer!MaxVarint <=> i = n
             /\ Buffer!DecodeZigzag(Buffer!FromVarint(Buffer!CodeOf(v))) = v
             /\ n <= size /\ m_position + n <= capacity
             /\ \A k \in 1..n : \A i \in 1..k : walk(k)[i] = Buffer!CodeOf(v)[i]
      BY <1>3, <2>7, IntUnderCursor
    <3> DEFINE code == Buffer!CodeOf(v)
    <3>2. n \in Nat /\ n \in 1..n
      BY SMTT(10), <1>3
    <3>3. n \in ends /\ \A k \in ends : ~(k < n)
      <4> HIDE DEF ends, walk
      <4>1. QED
        BY <1>4, <3>1
    <3>4. least = n
      <4>1. least <= n
        BY <2>3, <3>3
      <4>2. ~(least < n)
        BY <2>3, <3>3
      <4>3. QED
        BY SMTT(10), <2>4, <3>2, <4>1, <4>2
    <3>5. walk(n) = code
      <4>1. walk(n) \in Seq(Cell) /\ Len(walk(n)) = n
        BY SMTT(10), <3>1, <3>2, Walked
      <4>2. code \in Seq(Cell) /\ Len(code) = n
        <5>1. code \in Seq(0..255) /\ Len(code) = n
          BY <3>1
        <5> HIDE DEF code
        <5>2. QED
          BY SMTT(10), <5>1 DEF Cell, Buffer!Junk
      <4>3. \A i \in 1..n : walk(n)[i] = code[i]
        BY <3>1, <3>2
      <4> HIDE DEF walk, code
      <4>4. QED
        BY SMTT(10), <3>2, <4>1, <4>2, <4>3
    <3>6. QED
      BY Zenon, <3>1, <3>4, <3>5
  <2> HIDE DEF value
  <2>8. LastTypes' /\ Buffer!ReadsWhatWasWritten'
    BY SMTT(10), <2>6, <2>7, ValueTook
  <2>9. QED
    BY <2>5, <2>8 DEF BufferInv
<1>7. QED
  BY <1>5, <1>6

LEMMA AfterTwo ==
    ASSUME NEW S, NEW p \in Seq(S), Len(p) = 2, NEW s \in Seq(S)
    PROVE  /\ p \o s \in Seq(S) /\ Len(p \o s) = 2 + Len(s)
           /\ (p \o s)[1] = p[1] /\ (p \o s)[2] = p[2]
           /\ \A i \in 1..Len(s) : (p \o s)[2 + i] = s[i]
<1>1. Len(s) \in Nat
  OBVIOUS
<1> DEFINE both == p \o s
<1>2. /\ both \in Seq(S) /\ Len(both) = Len(p) + Len(s)
      /\ \A i \in 1..Len(p) + Len(s) : both[i] = IF i <= Len(p) THEN p[i] ELSE s[i - Len(p)]
  BY ConcatProperties
<1> HIDE DEF both
<1>3. both[1] = p[1] /\ both[2] = p[2]
  BY SMTT(10), <1>1, <1>2
<1>4. ASSUME NEW i \in 1..Len(s)
      PROVE  both[2 + i] = s[i]
  <2>1. 2 + i \in 1..Len(p) + Len(s) /\ ~(2 + i <= Len(p)) /\ 2 + i - Len(p) = i
    BY SMTT(10), <1>1
  <2>2. QED
    BY SMTT(10), <1>2, <2>1
<1>5. QED
  BY Zenon, <1>2, <1>3, <1>4 DEF both

LEMMA StringAfterLength ==
    ASSUME NEW e, NEW s \in Seq(Octet), Len(s) \in Word
    PROVE  LET bytes == Pair(e, Len(s)) \o s IN
           /\ bytes \in Seq(Octet) /\ bytes \in Seq(Cell) /\ Len(bytes) = 2 + Len(s)
           /\ bytes[1] = Pair(e, Len(s))[1] /\ bytes[2] = Pair(e, Len(s))[2]
           /\ \A i \in 1..Len(s) : bytes[2 + i] = s[i]
<1>1. PICK p : p = Pair(e, Len(s))
  OBVIOUS
<1>2. p \in Seq(Octet) /\ Len(p) = 2
  BY SMTT(10), <1>1, PairIs
<1>3. /\ p \o s \in Seq(Octet) /\ Len(p \o s) = 2 + Len(s)
      /\ (p \o s)[1] = p[1] /\ (p \o s)[2] = p[2]
      /\ \A i \in 1..Len(s) : (p \o s)[2 + i] = s[i]
  BY <1>2, AfterTwo
<1>4. Octet \subseteq Cell
  BY SMTT(10) DEF Octet, Cell, Buffer!Junk
<1>5. p \o s \in Seq(Cell)
  <2> DEFINE both == p \o s
  <2>1. both \in Seq(Octet)
    BY <1>3
  <2> HIDE DEF both
  <2>2. both \in Seq(Cell)
    BY SMTT(10), <1>4, <2>1
  <2>3. QED
    BY <2>2 DEF both
<1>6. QED
  BY Zenon, <1>1, <1>3, <1>5

LEMMA ReadStringKeeps ==
    ASSUME Sizes, Values, Shape, Contents, Buffer!ReadString
    PROVE  BufferInv'
<1> DEFINE size == Buffer!ReadSize
           walk(n) == Buffer!Walk(n)
           len == Buffer!FromFixed(walk(2))
           value == SubSeq(walk(2 + len), 3, 2 + len)
<1>1. /\ size \in Nat /\ m_position \in Nat /\ capacity \in Nat
      /\ m_position + size = m_size /\ m_size <= capacity
  BY Sized
<1>2. IF size < 2 THEN Buffer!Took(0, "string", "none", <<>>)
      ELSE IF len > size - 2 THEN Buffer!Took(2, "string", "none", <<>>)
      ELSE IF len = 0 /\ m_position + 2 = capacity THEN Buffer!Took(2, "string", "crash", <<>>)
      ELSE Buffer!Took(2 + len, "string", "string", value)
  BY Zenon DEF Buffer!ReadString
<1>3. Buffer!Written(size)
  BY Zenon DEF Buffer!ReadString, Buffer!Reading
<1>4. ASSUME NEW it \in items, it.kind = "string", it.at = m_position, it.endian = endian
      PROVE  /\ Stands(it, nodes, m_size)
             /\ it.value \in Strings /\ it.value \in Seq(Octet) /\ Len(it.value) \in Word
             /\ it.bytes = Pair(endian, Len(it.value)) \o it.value
             /\ it.n = 2 + Len(it.value) /\ Len(it.value) \in Nat
             /\ m_position + it.n <= m_size
             /\ it.bytes \in Seq(Cell)
             /\ it.bytes[1] = Pair(endian, Len(it.value))[1]
             /\ it.bytes[2] = Pair(endian, Len(it.value))[2]
             /\ \A i \in 1..Len(it.value) : it.bytes[2 + i] = it.value[i]
  <2>1. Stands(it, nodes, m_size) /\ Coded(it)
    BY DEF Contents
  <2> DEFINE bytes == it.bytes
  <2>2. PICK s : s = it.value
    OBVIOUS
  <2>3. it.value \in Strings /\ it.bytes = Pair(it.endian, Len(it.value)) \o it.value
    BY Zenon, <1>4, <2>1 DEF Coded
  <2>4. s \in Strings /\ it.bytes = Pair(endian, Len(s)) \o s
    BY Zenon, <1>4, <2>2, <2>3
  <2>5. s \in Seq(Octet) /\ Len(s) \in Word
    BY Zenon, <2>4 DEF Values
  <2>6. /\ bytes \in Seq(Cell) /\ Len(bytes) = 2 + Len(s)
        /\ bytes[1] = Pair(endian, Len(s))[1] /\ bytes[2] = Pair(endian, Len(s))[2]
        /\ \A i \in 1..Len(s) : bytes[2 + i] = s[i]
    <3> DEFINE both == Pair(endian, Len(s)) \o s
    <3>1. /\ both \in Seq(Cell) /\ Len(both) = 2 + Len(s)
          /\ both[1] = Pair(endian, Len(s))[1] /\ both[2] = Pair(endian, Len(s))[2]
          /\ \A i \in 1..Len(s) : both[2 + i] = s[i]
      BY Zenon, <2>5, StringAfterLength
    <3>2. bytes = both
      BY Zenon, <2>4
    <3>3. QED
      BY Zenon, <3>1, <3>2
  <2>7. it.n = 2 + Len(s) /\ Len(s) \in Nat
    BY SMTT(10), <2>1, <2>5, <2>6 DEF Stands
  <2>8. m_position + it.n <= m_size
    BY SMTT(10), <1>4, <2>1 DEF Stands
  <2>9. QED
    BY Zenon, <2>1, <2>2, <2>4, <2>5, <2>6, <2>7, <2>8
<1>5. CASE size < 2
  <2>1. Buffer!Took(0, "string", "none", <<>>)
    BY SMTT(10), <1>2, <1>5
  <2>2. 0 \in Nat /\ 0 <= size
    BY SMTT(10), <1>1
  <2>3. ASSUME NEW it \in items, it.kind = "string", it.at = m_position, it.endian = endian
        PROVE  FALSE
    <3>1. it.n = 2 + Len(it.value) /\ Len(it.value) \in Nat /\ m_position + it.n <= m_size
      BY <1>4, <2>3
    <3>2. QED
      BY SMTT(10), <1>1, <1>5, <3>1
  <2>4. QED
    BY <2>1, <2>2, <2>3, TookNoItem
<1>6. CASE ~(size < 2)
  <2>1. 1 \in 1..2 /\ 2 \in 1..2 /\ 2 \in Nat /\ 2 <= size /\ m_position + 2 <= capacity
    BY SMTT(10), <1>1, <1>6
  <2>2. walk(2)[1] \in Octet /\ walk(2)[2] \in Octet
    BY SMTT(10), <1>3, <2>1, WrittenIs
  <2>3. len \in Nat
    <3> DEFINE b == walk(2)
    <3>1. b[1] \in Nat /\ b[2] \in Nat
      BY SMTT(10), <2>2 DEF Octet
    <3> HIDE DEF b
    <3>2. Buffer!FromFixed(b) \in Nat
      BY SMTT(10), <3>1 DEF Buffer!FromFixed
    <3>3. QED
      BY <3>2 DEF b
  <2> HIDE DEF value
  <2>4. ASSUME NEW it \in items, it.kind = "string", it.at = m_position, it.endian = endian
        PROVE  len = Len(it.value)
    <3>1. /\ Stands(it, nodes, m_size)
          /\ Len(it.value) \in Word /\ Len(it.value) \in Nat /\ it.n = 2 + Len(it.value)
          /\ it.bytes[1] = Pair(endian, Len(it.value))[1]
          /\ it.bytes[2] = Pair(endian, Len(it.value))[2]
      BY <1>4, <2>4
    <3>2. walk(2)[1] = it.bytes[1] /\ walk(2)[2] = it.bytes[2]
      <4>1. 1 <= it.n /\ 2 <= it.n
        BY SMTT(10), <3>1
      <4>2. QED
        BY SMTT(10), <2>1, <2>4, <3>1, <4>1, UnderCursor
    <3>3. QED
      BY SMTT(10), <3>1, <3>2, FromPair
  <2> HIDE DEF len
  <2>5. CASE len > size - 2
    <3>1. Buffer!Took(2, "string", "none", <<>>)
      BY SMTT(10), <1>2, <1>6, <2>5
    <3>2. ASSUME NEW it \in items, it.kind = "string", it.at = m_position, it.endian = endian
          PROVE  FALSE
      <4>1. it.n = 2 + Len(it.value) /\ Len(it.value) \in Nat /\ m_position + it.n <= m_size
        BY <1>4, <3>2
      <4>2. len = Len(it.value)
        BY <2>4, <3>2
      <4>3. QED
        BY SMTT(10), <1>1, <2>5, <4>1, <4>2
    <3>3. QED
      BY <2>1, <3>1, <3>2, TookNoItem
  <2>6. CASE ~(len > size - 2) /\ len = 0 /\ m_position + 2 = capacity
    <3>1. Buffer!Took(2, "string", "crash", <<>>)
      BY SMTT(10), <1>2, <1>6, <2>6
    <3>2. ASSUME NEW it \in items, it.kind = "string", it.at = m_position, it.endian = endian
          PROVE  Buffer!EmptyAtTheEnd(it)
      <4>1. it.n = 2 + Len(it.value) /\ it.value \in Seq(Octet)
        BY <1>4, <3>2
      <4>2. Len(it.value) = 0
        BY <2>6, <2>4, <3>2
      <4>3. it.value = <<>>
        BY <4>1, <4>2
      <4>4. it.at + it.n = capacity
        BY <1>1, <2>6, <3>2, <4>1, <4>2
      <4>5. QED
        BY <3>2, <4>3, <4>4 DEF Buffer!EmptyAtTheEnd
    <3>3. QED
      BY <2>1, <3>1, <3>2, TookNoItem
  <2>7. CASE ~(len > size - 2) /\ ~(len = 0 /\ m_position + 2 = capacity)
    <3>1. Buffer!Took(2 + len, "string", "string", value)
      BY SMTT(10), <1>2, <1>6, <2>7
    <3>2. 2 + len \in Nat /\ 2 + len <= size /\ m_position + (2 + len) <= capacity
      BY SMTT(10), <1>1, <2>3, <2>7
    <3>3. Shape' /\ Contents'
      BY SMTT(10), <3>1, <3>2, TookKeeps
    <3>4. /\ items' = items /\ capacity' = capacity
          /\ last'.asked = "string" /\ last'.kind = "string" /\ last'.at = m_position
          /\ last'.endian = endian /\ last'.value = value
      BY <3>1, TookRead
    <3>5. ASSUME NEW it \in items, it.kind = "string", it.at = m_position, it.endian = endian
          PROVE  it.value = value
      <4>1. PICK s : s = it.value
        OBVIOUS
      <4>2. /\ Stands(it, nodes, m_size)
            /\ s \in Seq(Octet) /\ it.n = 2 + Len(s) /\ Len(s) \in Nat
            /\ \A i \in 1..Len(s) : it.bytes[2 + i] = s[i]
        BY Zenon, <1>4, <3>5, <4>1
      <4>3. len = Len(s)
        BY <2>4, <3>5, <4>1
      <4> DEFINE read == walk(2 + len)
                 bytes == it.bytes
      <4>4. read \in Seq(Cell) /\ Len(read) = 2 + len
        BY SMTT(10), <3>2, Walked
      <4> HIDE DEF bytes
      <4>5. ASSUME NEW i \in 1..Len(s)
            PROVE  read[2 + i] = s[i]
        <5>1. 2 + i \in 1..2 + len /\ 2 + i <= it.n
          BY SMTT(10), <4>2, <4>3
        <5>2. read[2 + i] = bytes[2 + i]
          BY SMTT(10), <3>2, <3>5, <4>2, <5>1, UnderCursor DEF bytes
        <5>3. QED
          BY <4>2, <5>2 DEF bytes
      <4> HIDE DEF read
      <4>6. s \in Seq(Cell)
        BY SMTT(10), <4>2 DEF Octet, Cell, Buffer!Junk
      <4>7. SubSeq(read, 2 + 1, 2 + Len(s)) = s
        BY SMTT(10), <4>2, <4>3, <4>4, <4>5, <4>6, Stretch
      <4>8. QED
        BY SMTT(10), <4>1, <4>3, <4>7 DEF value, read
    <3>6. LastTypes' /\ Buffer!ReadsWhatWasWritten'
      BY SMTT(10), <3>4, <3>5, ValueTook
    <3>7. QED
      BY <3>3, <3>6 DEF BufferInv
  <2>8. QED
    BY <2>5, <2>6, <2>7
<1>7. QED
  BY <1>5, <1>6

LEMMA PeekKeeps ==
    ASSUME Sizes, Shape, Contents, Buffer!Peek
    PROVE  BufferInv'
<1> DEFINE size == Buffer!ReadSize
           read == Buffer!Walk(size)
<1>1. /\ size \in Nat /\ m_position \in Nat /\ capacity \in Nat
      /\ m_position + size <= capacity /\ 0 <= size
  BY SMTT(10), Sized
<1>2. Buffer!Took(0, "bytes", "bytes", read)
  BY Zenon DEF Buffer!Peek
<1>3. Shape' /\ Contents'
  BY SMTT(10), <1>1, <1>2, TookKeeps
<1>4. read \in Seq(Cell) /\ Len(read) = size
      /\ \A i \in 1..size : read[i] = ByteOf(nodes, m_position + i - 1)
  BY SMTT(10), <1>1, Walked
<1>5. items' = items /\ last'.asked = "bytes" /\ last'.kind = "bytes"
      /\ last'.at = m_position /\ last'.value = read
  BY SMTT(10), <1>2 DEF Buffer!Took
<1> HIDE DEF read
<1>6. LastTypes' /\ Buffer!ReadsWhatWasWritten'
  BY SMTT(10), <1>4, <1>5, StretchRead
<1>7. QED
  BY <1>3, <1>6 DEF BufferInv

LEMMA SendKeeps ==
    ASSUME Sizes, Shape, Contents, Buffer!Send
    PROVE  BufferInv'
<1> DEFINE size == Buffer!ReadSize
<1>1. /\ size \in Nat /\ m_position \in Nat /\ capacity \in Nat
      /\ m_position + size <= capacity
  BY SMTT(10), Sized
<1>2. PICK n \in 1..size :
        /\ Buffer!Seek(m_position + n)
        /\ last' = [asked |-> "bytes", kind |-> "bytes", at |-> m_position, endian |-> endian,
                    value |-> Buffer!Walk(n)]
  BY Zenon DEF Buffer!Send
<1>3. UNCHANGED <<nodes, capacity, endian, saved, items>>
  BY Zenon DEF Buffer!Send
<1>4. m_position + n \in 0..capacity /\ n \in Nat /\ m_position + n <= capacity
  BY SMTT(10), <1>1
<1>5. Shape' /\ Contents'
  BY SMTT(10), <1>2, <1>3, <1>4, SeekKeeps
<1> DEFINE read == Buffer!Walk(n)
<1>6. read \in Seq(Cell) /\ Len(read) = n
      /\ \A i \in 1..n : read[i] = ByteOf(nodes, m_position + i - 1)
  BY SMTT(10), <1>4, Walked
<1>7. items' = items /\ last'.asked = "bytes" /\ last'.kind = "bytes"
      /\ last'.at = m_position /\ last'.value = read
  BY SMTT(10), <1>2, <1>3
<1> HIDE DEF read
<1>8. LastTypes' /\ Buffer!ReadsWhatWasWritten'
  BY SMTT(10), <1>6, <1>7, StretchRead
<1>9. QED
  BY <1>5, <1>8 DEF BufferInv

-----------------------------------------------------------------------------

LEMMA FirstBlock ==
    ASSUME Sizes
    PROVE  BlockOf(0, BaseSize) = 1 /\ BaseSize * 1 = BaseSize
<1>1. BaseSize \in Nat \ {0} /\ 0 \in Int /\ BaseSize * 0 = 0
  BY DEF Sizes
<1>2. (BaseSize * 0) \div BaseSize = 0
  BY Zenon, <1>1, WholeBlocks
<1>3. 0 \div BaseSize = 0
  BY Zenon, <1>1, <1>2
<1>4. QED
  BY SMTT(10), <1>1, <1>3 DEF BlockOf

LEMMA InitHolds ==
    ASSUME Sizes, Buffer!Init
    PROVE  BufferInv
<1>1. /\ nodes = <<Buffer!Fresh>> /\ capacity = BaseSize /\ m_position = 0 /\ m_size = 0
      /\ m_cur = 1 /\ endian = "big" /\ saved = <<>> /\ items = {} /\ last = Buffer!NoRead
  BY Zenon DEF Buffer!Init
<1>2. nodes \in Seq(Block) /\ Len(nodes) = 1
  BY SMTT(10), <1>1, FreshBlock
<1>3. capacity = BaseSize * Len(nodes) /\ m_cur = BlockOf(m_position, capacity)
  BY SMTT(10), <1>1, <1>2, FirstBlock
<1>4. Shape
  BY SMTT(10), <1>1, <1>2, <1>3 DEF Shape, Sizes
<1>5. Contents /\ Buffer!ReadsWhatWasWritten
  BY Zenon, <1>1 DEF Contents, Buffer!ReadsWhatWasWritten
<1>6. LastTypes
  BY SMTT(10), <1>1 DEF Buffer!NoRead, LastTypes
<1>7. QED
  BY <1>4, <1>5, <1>6 DEF BufferInv

LEMMA ClearKeeps ==
    ASSUME Sizes, Shape, Buffer!Clear
    PROVE  BufferInv'
<1>1. /\ nodes' = <<nodes[1]>> /\ capacity' = BaseSize /\ m_position' = 0 /\ m_size' = 0
      /\ m_cur' = 1 /\ endian' = endian /\ saved' = saved /\ items' = {} /\ last' = Buffer!NoRead
  BY Zenon DEF Buffer!Clear
<1>2. nodes[1] \in Block
  BY SMTT(10) DEF Shape
<1>3. nodes' \in Seq(Block) /\ Len(nodes') = 1
  BY SMTT(10), <1>1, <1>2
<1>4. capacity' = BaseSize * Len(nodes') /\ m_cur' = BlockOf(m_position', capacity')
  BY SMTT(10), <1>1, <1>3, FirstBlock
<1>5. endian' \in {"big", "little"} /\ saved' \in Seq(Cell)
  BY SMTT(10), <1>1 DEF Shape
<1>6. Shape'
  BY SMTT(10), <1>1, <1>3, <1>4, <1>5 DEF Shape, Sizes
<1>7. Contents'
  BY Zenon, <1>1 DEF Contents
<1>8. QED
  BY <1>1, <1>6, <1>7, NothingRead DEF BufferInv

LEMMA SetPositionKeeps ==
    ASSUME Sizes, Shape, Contents, Buffer!SetPosition
    PROVE  BufferInv'
<1>1. PICK v \in 0..capacity : Buffer!Seek(v)
  BY Zenon DEF Buffer!SetPosition
<1>2. last' = Buffer!NoRead /\ UNCHANGED <<nodes, capacity, endian, saved, items>>
  BY Zenon DEF Buffer!SetPosition
<1>3. Shape' /\ Contents'
  BY SMTT(10), <1>1, <1>2, SeekKeeps
<1>4. QED
  BY <1>2, <1>3, NothingRead DEF BufferInv

LEMMA SetIsLittleEndianKeeps ==
    ASSUME Sizes, Shape, Contents, Buffer!SetIsLittleEndian
    PROVE  BufferInv'
<1>1. endian' \in {"little", "big"} /\ last' = Buffer!NoRead
      /\ UNCHANGED <<nodes, capacity, m_position, m_size, m_cur, saved, items>>
  BY Zenon DEF Buffer!SetIsLittleEndian, Buffer!bufVars
<1>2. Shape'
  BY SMTT(10), <1>1 DEF Shape
<1>3. Contents'
  BY SMTT(10), <1>1 DEF Contents
<1>4. QED
  BY <1>1, <1>2, <1>3, NothingRead DEF BufferInv

LEMMA OctetsAreCells == \A s : s \in Seq(Octet) => s \in Seq(Cell)
<1>1. Octet \subseteq Cell
  BY SMTT(10) DEF Octet, Cell, Buffer!Junk
<1>2. QED
  BY SMTT(10), <1>1

LEMMA WriteFixedKeeps ==
    ASSUME Sizes, Values, Shape, Contents, Buffer!WriteFixed
    PROVE  BufferInv'
<1>1. PICK v \in Fixeds : Buffer!Write(Buffer!Fixed(v), "fixed", <<v>>)
  BY Zenon DEF Buffer!WriteFixed
<1>2. v \in Word
  BY SMTT(10) DEF Values
<1> DEFINE bytes == Pair(endian, v)
           new == [at |-> m_position, n |-> Len(bytes), kind |-> "fixed", endian |-> endian,
                   value |-> <<v>>, bytes |-> bytes]
<1>3. Buffer!Write(bytes, "fixed", <<v>>)
  BY <1>1, FixedIsPair
<1>4. bytes \in Seq(Octet) /\ Len(bytes) = 2
  BY Zenon, <1>2, PairIs
<1>5. Coded(new)
  BY SMTT(10) DEF Coded
<1> HIDE DEF bytes
<1>6. bytes \in Seq(Cell) /\ Len(bytes) >= 1
  BY SMTT(10), <1>4, OctetsAreCells
<1>7. QED
  BY <1>3, <1>5, <1>6, WriteKeeps

LEMMA WriteStringKeeps ==
    ASSUME Sizes, Values, Shape, Contents, Buffer!WriteString
    PROVE  BufferInv'
<1>1. PICK s \in Strings : Buffer!Write(Buffer!Fixed(Len(s)) \o s, "string", s)
  BY Zenon DEF Buffer!WriteString
<1>2. s \in Seq(Octet) /\ Len(s) \in Word
  BY Zenon DEF Values
<1> DEFINE bytes == Pair(endian, Len(s)) \o s
           new == [at |-> m_position, n |-> Len(bytes), kind |-> "string", endian |-> endian,
                   value |-> s, bytes |-> bytes]
<1>3. Buffer!Write(bytes, "string", s)
  BY <1>1, FixedIsPair
<1>4. bytes \in Seq(Cell) /\ Len(bytes) = 2 + Len(s)
  BY Zenon, <1>2, StringAfterLength
<1>5. Coded(new)
  BY SMTT(10) DEF Coded
<1> HIDE DEF bytes
<1>6. Len(bytes) >= 1
  BY SMTT(10), <1>2, <1>4
<1>7. QED
  BY <1>3, <1>4, <1>5, <1>6, WriteKeeps

LEMMA WriteIntKeeps ==
    ASSUME Sizes, Values, Shape, Contents, Buffer!WriteInt
    PROVE  BufferInv'
<1>1. PICK v \in Ints : Buffer!Write(Buffer!CodeOf(v), "int", <<v>>)
  BY Zenon DEF Buffer!WriteInt
<1> DEFINE bytes == Buffer!CodeOf(v)
           new == [at |-> m_position, n |-> Len(bytes), kind |-> "int", endian |-> endian,
                   value |-> <<v>>, bytes |-> bytes]
<1>2. bytes \in Seq(0..255) /\ Len(bytes) \in 1..Buffer!MaxVarint
  BY DEF Values, Buffer!Decodable
<1>3. Coded(new)
  BY SMTT(10) DEF Coded
<1>4. Buffer!Write(bytes, "int", <<v>>)
  BY <1>1
<1> HIDE DEF bytes
<1>5. bytes \in Seq(Cell) /\ Len(bytes) >= 1
  BY SMTT(10), <1>2, OctetsAreCells DEF Octet, Values, Buffer!MaxVarint
<1>6. QED
  BY <1>3, <1>4, <1>5, WriteKeeps

LEMMA ReadFromFileKeeps ==
    ASSUME Sizes, Shape, Contents, Buffer!ReadFromFile
    PROVE  BufferInv'
<1>1. saved # <<>> /\ Buffer!Write(saved, "raw", saved)
  BY Zenon DEF Buffer!ReadFromFile
<1>2. saved \in Seq(Cell)
  BY DEF Shape
<1>3. Len(saved) >= 1
  BY SMTT(10), <1>1, <1>2
<1>4. Coded([at |-> m_position, n |-> Len(saved), kind |-> "raw", endian |-> endian,
             value |-> saved, bytes |-> saved])
  BY SMTT(10) DEF Coded
<1>5. QED
  BY <1>1, <1>2, <1>3, <1>4, WriteKeeps

-----------------------------------------------------------------------------
(* What writeToFile() writes.                                              *)

\* Where Saved has come to, and one call of it.
Place == [block : Nat, position : Int, rest : Int]

Piece(f, place) ==
    IF place.rest <= 0 THEN <<>>
    ELSE IF place.block \notin 1..Len(nodes) THEN <<Buffer!Crash>>
    ELSE LET diff == place.position % BaseSize
             len == (IF place.rest > BaseSize THEN BaseSize ELSE place.rest) - diff
             some == IF len > 0 THEN len ELSE 0
         IN  [i \in 1..some |-> nodes[place.block][diff + i - 1]]
               \o f[[block |-> place.block + 1, position |-> place.position + len,
                         rest |-> place.rest - len]]

LEMMA SavedIsChosen ==
    Buffer!Saved = CHOOSE f : f = [place \in Place |-> Piece(f, place)]
  BY Zenon DEF Buffer!Saved, Buffer!Place, Piece, Place

LEMMA PieceSame ==
    ASSUME Sizes, NEW f, NEW g, NEW place \in Place,
           \A x \in Place : x.block = place.block + 1 => f[x] = g[x]
    PROVE  Piece(f, place) = Piece(g, place)
<1> DEFINE diff == place.position % BaseSize
           len == (IF place.rest > BaseSize THEN BaseSize ELSE place.rest) - diff
           some == IF len > 0 THEN len ELSE 0
           now == [i \in 1..some |-> nodes[place.block][diff + i - 1]]
           next == [block |-> place.block + 1, position |-> place.position + len,
                    rest |-> place.rest - len]
<1>1. next \in Place
  <2>1. diff \in Int /\ BaseSize \in Int
    BY DivMod DEF Sizes, Place
  <2> HIDE DEF diff
  <2>2. QED
    BY SMTT(10), <2>1 DEF Place
<1>2. next.block = place.block + 1
  OBVIOUS
<1>3. \A h : Piece(h, place) =
        IF place.rest <= 0 THEN <<>> ELSE IF place.block \notin 1..Len(nodes) THEN <<Buffer!Crash>>
        ELSE now \o h[next]
  BY Zenon DEF Piece
<1> HIDE DEF now, next
<1>4. QED
  BY Zenon, <1>1, <1>2, <1>3

LEMMA PieceLast ==
    ASSUME NEW f, NEW g, NEW place \in Place, Len(nodes) \in Nat, place.block > Len(nodes)
    PROVE  Piece(f, place) = Piece(g, place)
<1>1. place.block \notin 1..Len(nodes)
  BY SMTT(10)
<1>2. QED
  BY Zenon, <1>1 DEF Piece

\* The recursion ends at the end of the chain.
LEMMA SavedExists ==
    ASSUME Sizes, Shape
    PROVE  \E f : f = [place \in Place |-> Piece(f, place)]
<1> DEFINE Now(f, k, place) == IF place.block + k > Len(nodes) THEN Piece(f, place) ELSE <<>>
           Upto(f, k) == [place \in Place |-> Now(f, k, place)]
           T == {k \in Nat : \E f : f = Upto(f, k)}
<1>1. Len(nodes) \in Nat
  BY DEF Shape
<1>2. 0 \in T
  <2> DEFINE f == Upto(<<>>, 0)
  <2>1. ASSUME NEW place \in Place
        PROVE  Now(<<>>, 0, place) = Now(f, 0, place)
    <3> HIDE DEF f
    <3>1. CASE place.block > Len(nodes)
      BY <1>1, <3>1, PieceLast
    <3>2. CASE ~(place.block > Len(nodes))
      BY SMTT(10), <1>1, <3>2 DEF Place
    <3>3. QED
      BY <3>1, <3>2
  <2> HIDE DEF Now
  <2>2. f = Upto(f, 0)
    BY Zenon, <2>1
  <2>3. QED
    BY <2>2
<1>3. ASSUME NEW k \in Nat, k \in T
      PROVE  k + 1 \in T
  <2>1. PICK f : f = Upto(f, k)
    BY <1>3
  <2> DEFINE g == Upto(f, k + 1)
  <2>2. ASSUME NEW place \in Place, place.block + (k + 1) > Len(nodes)
        PROVE  Piece(f, place) = Piece(g, place)
    <3>1. ASSUME NEW x \in Place, x.block = place.block + 1
          PROVE  f[x] = g[x]
      <4>1. x.block + k > Len(nodes) /\ x.block + (k + 1) > Len(nodes)
        BY SMTT(10), <1>1, <2>2, <3>1 DEF Place
      <4>2. f[x] = Now(f, k, x)
        <5> HIDE DEF Now
        <5>1. QED
          BY Zenon, <2>1
      <4>3. g[x] = Now(f, k + 1, x)
        <5> HIDE DEF Now
        <5>1. QED
          BY Zenon
      <4> HIDE DEF g
      <4>4. Now(f, k, x) = Piece(f, x) /\ Now(f, k + 1, x) = Piece(f, x)
        BY Zenon, <4>1
      <4> HIDE DEF Now
      <4>5. QED
        BY Zenon, <4>2, <4>3, <4>4
    <3> HIDE DEF g
    <3>2. QED
      BY <3>1, PieceSame
  <2>3. ASSUME NEW place \in Place
        PROVE  Now(f, k + 1, place) = Now(g, k + 1, place)
    <3> HIDE DEF g
    <3>1. QED
      BY Zenon, <2>2
  <2> HIDE DEF Now
  <2>4. g = Upto(g, k + 1)
    BY Zenon, <2>3
  <2>5. k + 1 \in Nat
    OBVIOUS
  <2> HIDE DEF g
  <2>6. QED
    BY Zenon, <2>4, <2>5
<1>4. Len(nodes) + 1 \in T
  <2> HIDE DEF T
  <2>1. Nat \subseteq T
    BY <1>2, <1>3, SetInduction
  <2>2. QED
    BY SMTT(10), <1>1, <2>1
<1> HIDE DEF Now
<1>5. PICK f : f = Upto(f, Len(nodes) + 1)
  BY Zenon, <1>4
<1>6. ASSUME NEW place \in Place
      PROVE  Now(f, Len(nodes) + 1, place) = Piece(f, place)
  <2>1. place.block + (Len(nodes) + 1) > Len(nodes)
    BY SMTT(10), <1>1 DEF Place
  <2>2. QED
    BY Zenon, <2>1 DEF Now
<1>7. f = [place \in Place |-> Piece(f, place)]
  BY Zenon, <1>5, <1>6
<1>8. QED
  BY <1>7

\* So Saved is what its definition says.
LEMMA SavedIs ==
    ASSUME Sizes, Shape, NEW place \in Place
    PROVE  Buffer!Saved[place] = Piece(Buffer!Saved, place)
<1>1. Buffer!Saved = [x \in Place |-> Piece(Buffer!Saved, x)]
  BY Zenon, SavedExists, SavedIsChosen
<1>2. QED
  BY Zenon, <1>1

\* Its bytes are bytes of the array, until it walks past the end.
LEMMA SavedType ==
    ASSUME Sizes, Shape, NEW place \in Place
    PROVE  Buffer!Saved[place] \in Seq(Cell \cup {Buffer!Crash})
<1> DEFINE C == Cell \cup {Buffer!Crash}
           T == {k \in Nat : \A x \in Place :
                   x.block + k > Len(nodes) => Buffer!Saved[x] \in Seq(C)}
<1>1. Len(nodes) \in Nat /\ nodes \in Seq(Block) /\ BaseSize \in Nat \ {0}
  BY DEF Shape, Sizes
<1>2. <<>> \in Seq(C) /\ <<Buffer!Crash>> \in Seq(C)
  BY SMTT(10)
<1>3. 0 \in T
  <2>1. ASSUME NEW x \in Place, x.block + 0 > Len(nodes)
        PROVE  Buffer!Saved[x] \in Seq(C)
    <3>1. x.block \notin 1..Len(nodes)
      BY SMTT(10), <1>1, <2>1 DEF Place
    <3>2. Buffer!Saved[x] = IF x.rest <= 0 THEN <<>> ELSE <<Buffer!Crash>>
      BY Zenon, <3>1, SavedIs DEF Piece
    <3> HIDE DEF C
    <3>3. QED
      BY Zenon, <1>2, <3>2
  <2>2. QED
    BY Zenon, <2>1
<1>4. ASSUME NEW k \in Nat, k \in T
      PROVE  k + 1 \in T
  <2>1. ASSUME NEW x \in Place, x.block + (k + 1) > Len(nodes)
        PROVE  Buffer!Saved[x] \in Seq(C)
    <3>1. CASE x.rest <= 0 \/ x.block \notin 1..Len(nodes)
      <4>1. Buffer!Saved[x] = IF x.rest <= 0 THEN <<>> ELSE <<Buffer!Crash>>
        BY Zenon, <3>1, SavedIs DEF Piece
      <4> HIDE DEF C
      <4>2. QED
        BY Zenon, <1>2, <4>1
    <3>2. CASE ~(x.rest <= 0) /\ x.block \in 1..Len(nodes)
      <4> DEFINE diff == x.position % BaseSize
                 len == (IF x.rest > BaseSize THEN BaseSize ELSE x.rest) - diff
                 some == IF len > 0 THEN len ELSE 0
                 now == [i \in 1..some |-> nodes[x.block][diff + i - 1]]
                 next == [block |-> x.block + 1, position |-> x.position + len,
                          rest |-> x.rest - len]
      <4>1. Buffer!Saved[x] = now \o Buffer!Saved[next]
        BY Zenon, <3>2, SavedIs DEF Piece
      <4>2. diff \in 0..BaseSize - 1
        BY <1>1, DivMod DEF Place
      <4> HIDE DEF diff
      <4>3. next \in Place
        BY SMTT(10), <1>1, <4>2 DEF Place
      <4>4. next.block + k > Len(nodes)
        BY SMTT(10), <1>1, <2>1 DEF Place
      <4>5. Buffer!Saved[next] \in Seq(C)
        BY Zenon, <1>4, <4>3, <4>4
      <4>6. some \in Nat /\ \A i \in 1..some : diff + i - 1 \in 0..BaseSize - 1
        BY SMTT(10), <1>1, <4>2 DEF Place
      <4>7. \A o \in 0..BaseSize - 1 : nodes[x.block][o] \in Cell
        BY SMTT(10), <1>1, <3>2 DEF Block
      <4> HIDE DEF some
      <4>8. \A i \in 1..some : nodes[x.block][diff + i - 1] \in C
        BY Zenon, <4>6, <4>7
      <4> HIDE DEF C, next
      <4>9. now \in Seq(C)
        BY SMTT(10), <4>6, <4>8
      <4>10. now \o Buffer!Saved[next] \in Seq(C)
        BY Zenon, <4>5, <4>9, ConcatProperties
      <4>11. QED
        BY Zenon, <4>1, <4>10
    <3>3. QED
      BY Zenon, <3>1, <3>2
  <2>2. k + 1 \in Nat
    OBVIOUS
  <2>3. QED
    BY Zenon, <2>1, <2>2
<1>5. Nat \subseteq T
  <2> HIDE DEF T
  <2>1. QED
    BY <1>3, <1>4, SetInduction
<1>6. Len(nodes) + 1 \in Nat /\ place.block + (Len(nodes) + 1) > Len(nodes)
  BY SMTT(10), <1>1 DEF Place
<1>7. QED
  BY Zenon, <1>5, <1>6

LEMMA Joined ==
    ASSUME NEW F(_), NEW b \in Nat, NEW s \in Nat, NEW r \in Nat, s + b = r, NEW one \in Int
    PROVE  [i \in 1..b |-> F(one + i - 1)] \o [i \in 1..s |-> F(one + b + i - 1)]
             = [i \in 1..r |-> F(one + i - 1)]
<1> DEFINE S == {F(a) : a \in Int}
           x == [i \in 1..b |-> F(one + i - 1)]
           y == [i \in 1..s |-> F(one + b + i - 1)]
           z == [i \in 1..r |-> F(one + i - 1)]
<1>1. x \in Seq(S) /\ Len(x) = b
  BY SMTT(10)
<1>2. y \in Seq(S) /\ Len(y) = s
  BY SMTT(10)
<1>3. z \in Seq(S) /\ Len(z) = r
  BY SMTT(10)
<1>4. ASSUME NEW i \in 1..r
      PROVE  (IF i <= b THEN x[i] ELSE y[i - b]) = z[i]
  <2>1. CASE i <= b
    BY SMTT(10), <2>1
  <2>2. CASE ~(i <= b)
    <3>1. i - b \in 1..s /\ one + b + (i - b) - 1 = one + i - 1
      BY SMTT(10), <2>2
    <3>2. y[i - b] = F(one + b + (i - b) - 1) /\ z[i] = F(one + i - 1)
      BY Zenon, <3>1
    <3>3. QED
      BY Zenon, <2>2, <3>1, <3>2
  <2>3. QED
    BY Zenon, <2>1, <2>2
<1> HIDE DEF x, y, z, S
<1>5. /\ x \o y \in Seq(S) /\ Len(x \o y) = b + s
      /\ \A i \in 1..b + s : (x \o y)[i] = IF i <= b THEN x[i] ELSE y[i - b]
  BY Zenon, <1>1, <1>2, ConcatProperties
<1>6. x \o y = z
  <2> DEFINE w == x \o y
  <2>1. b + s = r
    BY SMTT(10)
  <2>2. w \in Seq(S) /\ Len(w) = r /\ \A i \in 1..r : w[i] = z[i]
    BY Zenon, <1>4, <1>5, <2>1
  <2> HIDE DEF w
  <2>3. w = z
    BY SMTT(10), <1>3, <2>2
  <2>4. QED
    BY <2>3 DEF w
<1>7. QED
  BY <1>6 DEF x, y, z

\* From the beginning of a block on, nothing is missed.
LEMMA SavedBytes ==
    ASSUME Sizes, Shape, NEW q \in Nat, NEW rest \in Nat,
           BaseSize * q + rest <= BaseSize * Len(nodes)
    PROVE  Buffer!Saved[[block |-> q + 1, position |-> BaseSize * q, rest |-> rest]]
             = [i \in 1..rest |-> ByteOf(nodes, BaseSize * q + i - 1)]
<1> DEFINE L == Len(nodes)
           At(n, r) == [block |-> n + 1, position |-> BaseSize * n, rest |-> r]
           Bytes(n, r) == [i \in 1..r |-> ByteOf(nodes, BaseSize * n + i - 1)]
           Right(n, r) == Buffer!Saved[At(n, r)] = Bytes(n, r)
           T == {k \in Nat : \A n, r \in Nat :
                   BaseSize * n + r <= BaseSize * L /\ n + 1 + k > L => Right(n, r)}
<1>1. L \in Nat /\ BaseSize \in Nat \ {0} /\ nodes \in Seq(Block)
  BY DEF Shape, Sizes
<1>2. \A n, r \in Nat : At(n, r) \in Place
  BY SMTT(10), <1>1 DEF Place
<1>3. \A n \in Nat : Right(n, 0)
  <2>1. ASSUME NEW n \in Nat
        PROVE  Right(n, 0)
    <3>1. At(n, 0) \in Place /\ At(n, 0).rest <= 0
      BY SMTT(10), <1>2
    <3>2. Buffer!Saved[At(n, 0)] = <<>>
      <4> HIDE DEF At
      <4>1. QED
        BY Zenon, <3>1, SavedIs DEF Piece
    <3>3. Bytes(n, 0) = <<>>
      BY SMTT(10)
    <3>4. QED
      BY Zenon, <3>2, <3>3
  <2>2. QED
    BY Zenon, <2>1
<1>4. ASSUME NEW n \in Nat, NEW r \in Nat, BaseSize * n + r <= BaseSize * L, r # 0
      PROVE  n + 1 \in 1..L
  <2>1. ~(L <= n)
    <3>1. L <= n => BaseSize * L <= BaseSize * n
      BY <1>1, TimesGrows
    <3>2. QED
      BY SMTT(10), <1>1, <1>4, <3>1
  <2>2. QED
    BY SMTT(10), <1>1, <2>1
<1>5. 0 \in T
  <2>1. ASSUME NEW n \in Nat, NEW r \in Nat, BaseSize * n + r <= BaseSize * L, n + 1 + 0 > L
        PROVE  Right(n, r)
    <3>1. r = 0
      BY SMTT(10), <1>1, <1>4, <2>1
    <3> HIDE DEF Right
    <3>2. QED
      BY Zenon, <1>3, <3>1
  <2> HIDE DEF Right
  <2>2. QED
    BY Zenon, <2>1
<1>6. ASSUME NEW k \in Nat, k \in T
      PROVE  k + 1 \in T
  <2>1. ASSUME NEW n \in Nat, NEW r \in Nat, BaseSize * n + r <= BaseSize * L,
               n + 1 + (k + 1) > L
        PROVE  Right(n, r)
    <3>1. CASE r = 0
      <4> HIDE DEF Right
      <4>1. QED
        BY Zenon, <1>3, <3>1
    <3>2. CASE r # 0
      <4> DEFINE some == IF r > BaseSize THEN BaseSize ELSE r
                 now == [i \in 1..some |-> nodes[n + 1][0 + i - 1]]
                 next == [block |-> (n + 1) + 1, position |-> BaseSize * n + some,
                          rest |-> r - some]
      <4>1. n + 1 \in 1..L
        BY <1>4, <2>1, <3>2
      <4>2. (BaseSize * n) % BaseSize = 0
        BY <1>1, WholeBlocks
      <4>3. some \in 1..r /\ some <= BaseSize
        BY SMTT(10), <1>1, <3>2
      <4>4. Buffer!Saved[At(n, r)] = now \o Buffer!Saved[next]
        <5> DEFINE x == At(n, r)
        <5>1. x.rest = r /\ x.block = n + 1 /\ x.position = BaseSize * n /\ x \in Place
          BY SMTT(10), <1>2
        <5> HIDE DEF x
        <5> DEFINE len == (IF r > BaseSize THEN BaseSize ELSE r) - 0
                   more == IF len > 0 THEN len ELSE 0
        <5>2. Buffer!Saved[x] = [i \in 1..more |-> nodes[n + 1][0 + i - 1]]
                \o Buffer!Saved[[block |-> (n + 1) + 1, position |-> BaseSize * n + len,
                                 rest |-> r - len]]
          <6>1. ~(x.rest <= 0) /\ x.block \in 1..Len(nodes)
            BY SMTT(10), <4>1, <5>1, <3>2
          <6>2. QED
            BY Zenon, <4>2, <5>1, <6>1, SavedIs DEF Piece
        <5>3. len = some /\ more = some
          BY SMTT(10), <1>1, <3>2
        <5> HIDE DEF len, more, some
        <5>4. QED
          BY Zenon, <5>2, <5>3 DEF x
      <4> HIDE DEF some
      <4>5. Len(now) = some /\ now = [i \in 1..some |-> ByteOf(nodes, BaseSize * n + i - 1)]
        <5>1. ASSUME NEW i \in 1..some
              PROVE  nodes[n + 1][0 + i - 1] = ByteOf(nodes, BaseSize * n + i - 1)
          <6> DEFINE a == BaseSize * n + i - 1
          <6>1. i - 1 \in 0..BaseSize - 1 /\ 0 + i - 1 = i - 1
            BY SMTT(10), <1>1, <4>3
          <6>2. a \in Int /\ n \in Int /\ a = BaseSize * n + (i - 1)
            BY SMTT(10), <1>1, <4>3
          <6> HIDE DEF a
          <6>3. a \div BaseSize = n /\ a % BaseSize = i - 1
            BY Zenon, <1>1, <6>1, <6>2, DivUnique
          <6>4. nodes[n + 1][0 + i - 1] = ByteOf(nodes, a)
            BY Zenon, <6>1, <6>3 DEF ByteOf
          <6>5. QED
            BY <6>4 DEF a
        <5>2. Len(now) = some
          BY SMTT(10), <4>3
        <5>3. QED
          BY Zenon, <5>1, <5>2
      <4> HIDE DEF now
      <4>6. CASE some = r
        <5>1. next = [block |-> (n + 1) + 1, position |-> BaseSize * n + r, rest |-> 0]
              /\ next \in Place /\ next.rest <= 0
          BY SMTT(10), <1>1, <4>6 DEF Place
        <5> HIDE DEF next
        <5>2. Buffer!Saved[next] = <<>>
          BY Zenon, <5>1, SavedIs DEF Piece
        <5>3. now \o <<>> = now
          <6>1. now \in Seq(Cell \cup {Buffer!Crash})
            <7>1. \A o \in 0..BaseSize - 1 : nodes[n + 1][o] \in Cell
              <8> DEFINE b == nodes[n + 1]
              <8>1. b \in Block
                BY SMTT(10), <1>1, <4>1
              <8> HIDE DEF b
              <8>2. \A o \in 0..BaseSize - 1 : b[o] \in Cell
                BY Zenon, <8>1 DEF Block
              <8>3. QED
                BY Zenon, <8>2 DEF b
            <7>2. \A i \in 1..some : 0 + i - 1 \in 0..BaseSize - 1
              BY SMTT(10), <1>1, <4>3
            <7>3. \A i \in 1..some : nodes[n + 1][0 + i - 1] \in Cell \cup {Buffer!Crash}
              BY Zenon, <7>1, <7>2
            <7>4. some \in Nat
              BY SMTT(10), <4>3
            <7> DEFINE cells == Cell \cup {Buffer!Crash}
            <7>5. now \in [1..some -> cells]
              BY Zenon, <7>3 DEF now
            <7> HIDE DEF cells, now
            <7>6. \A g \in [1..some -> cells] : g \in Seq(cells)
              BY SMTT(10), <7>4
            <7>7. QED
              BY Zenon, <7>5, <7>6 DEF cells
          <6>2. QED
            BY Zenon, <6>1, ConcatEmptySeq
        <5>4. QED
          BY Zenon, <4>4, <4>5, <4>6, <5>2, <5>3
      <4>7. CASE some # r
        <5>1. some = BaseSize
          BY SMTT(10), <4>7 DEF some
        <5> DEFINE m == n + 1
                   s == r - BaseSize
        <5>2. m \in Nat /\ s \in Nat /\ BaseSize * m = BaseSize * n + BaseSize /\ s + BaseSize = r
          BY SMTT(10), <1>1, <4>3, <5>1
        <5>3. next = At(m, s)
          BY SMTT(10), <5>1, <5>2
        <5>4. BaseSize * m + s <= BaseSize * L /\ m + 1 + k > L
          BY SMTT(10), <1>1, <2>1, <5>2
        <5>5. Right(m, s)
          <6> HIDE DEF Right, m, s
          <6>1. QED
            BY Zenon, <1>6, <5>2, <5>4
        <5> HIDE DEF next, m
        <5>6. Buffer!Saved[next] = Bytes(m, s)
          BY Zenon, <5>3, <5>5
        <5>7. now \o Bytes(m, s) = Bytes(n, r)
          <6> DEFINE X == {ByteOf(nodes, a) : a \in Int}
                     F(a) == ByteOf(nodes, a)
                     one == BaseSize * n
          <6>1. one \in Int /\ BaseSize * m = one + BaseSize
            BY SMTT(10), <1>1, <5>2
          <6> HIDE DEF one, F, s
          <6>2. now = [i \in 1..BaseSize |-> F(one + i - 1)]
            BY Zenon, <4>5, <5>1 DEF F, one
          <6>3. Bytes(m, s) = [i \in 1..s |-> F(one + BaseSize + i - 1)]
            BY Zenon, <6>1 DEF F
          <6>4. Bytes(n, r) = [i \in 1..r |-> F(one + i - 1)]
            BY Zenon DEF F, one
          <6> HIDE DEF Bytes
          <6>5. [i \in 1..BaseSize |-> F(one + i - 1)]
                  \o [i \in 1..s |-> F(one + BaseSize + i - 1)]
                  = [i \in 1..r |-> F(one + i - 1)]
            BY <1>1, <5>2, <6>1, Joined
          <6>6. QED
            BY Zenon, <6>2, <6>3, <6>4, <6>5
        <5>8. QED
          BY Zenon, <4>4, <5>6, <5>7
      <4>8. QED
        BY <4>6, <4>7
    <3>3. QED
      BY <3>1, <3>2
  <2>2. k + 1 \in Nat
    OBVIOUS
  <2> HIDE DEF Right
  <2>3. QED
    BY Zenon, <2>1, <2>2
<1>7. Nat \subseteq T
  <2> HIDE DEF T
  <2>1. QED
    BY <1>5, <1>6, SetInduction
<1>8. L \in Nat /\ q + 1 + L > L
  BY SMTT(10), <1>1
<1> HIDE DEF Right
<1>9. Right(q, rest)
  BY Zenon, <1>7, <1>8
<1>10. QED
  BY <1>9 DEF Right

LEMMA WriteToFileKeeps ==
    ASSUME Sizes, Shape, Contents, Buffer!WriteToFile
    PROVE  BufferInv'
<1> DEFINE size == Buffer!ReadSize
           place == [block |-> m_cur, position |-> m_position, rest |-> size]
           bytes == Buffer!Saved[place]
<1>1. /\ size \in Nat /\ m_position \in Nat /\ capacity \in Nat
      /\ m_position + size <= capacity
  BY SMTT(10), Sized
<1>2. UNCHANGED <<nodes, capacity, m_position, m_size, m_cur, endian, items>>
  BY Zenon DEF Buffer!WriteToFile, Buffer!bufVars
<1>3. IF Buffer!Crash \in {bytes[i] : i \in DOMAIN bytes}
        THEN saved' = <<>> /\ last' = [Buffer!NoRead EXCEPT !.kind = "crash"]
        ELSE /\ saved' = bytes
             /\ last' = [asked |-> "file", kind |-> "file", at |-> m_position, endian |-> endian,
                        value |-> bytes]
  BY Zenon DEF Buffer!WriteToFile
<1>4. /\ Len(nodes) \in Nat /\ BaseSize \in Nat \ {0} /\ capacity = BaseSize * Len(nodes)
      /\ m_cur = BlockOf(m_position, capacity)
  BY DEF Shape, Sizes
<1>5. m_cur \in Nat
  <2>1. m_position \div BaseSize \in Nat
    BY Zenon, <1>1, <1>4, NatQuotient
  <2>2. QED
    BY SMTT(10), <1>4, <2>1 DEF BlockOf
<1>6. place \in Place
  BY SMTT(10), <1>1, <1>5 DEF Place
<1>7. bytes \in Seq(Cell \cup {Buffer!Crash})
  <2> HIDE DEF place
  <2>1. QED
    BY Zenon, <1>6, SavedType
<1>8. Contents'
  BY SMTT(10), <1>2 DEF Contents
<1>9. CASE Buffer!Crash \in {bytes[i] : i \in DOMAIN bytes}
  <2>1. saved' = <<>> /\ last' = [Buffer!NoRead EXCEPT !.kind = "crash"]
    BY Zenon, <1>3, <1>9
  <2>2. saved' = <<>> /\ last'.kind \in {"none", "crash"} /\ last'.asked \in {"none", "file"}
    BY SMTT(10), <2>1 DEF Buffer!NoRead
  <2>3. Shape'
    BY SMTT(10), <1>2, <2>2 DEF Shape
  <2>4. QED
    BY <1>8, <2>2, <2>3, NothingTook DEF BufferInv
<1>10. CASE Buffer!Crash \notin {bytes[i] : i \in DOMAIN bytes}
  <2>1. /\ saved' = bytes
        /\ last' = [asked |-> "file", kind |-> "file", at |-> m_position, endian |-> endian,
                        value |-> bytes]
    BY Zenon, <1>3, <1>10
  <2>2. m_position % BaseSize = 0 => bytes = [i \in 1..size |-> ByteOf(nodes, m_position + i - 1)]
    <3>1. SUFFICES ASSUME m_position % BaseSize = 0
                   PROVE  bytes = [i \in 1..size |-> ByteOf(nodes, m_position + i - 1)]
      OBVIOUS
    <3> DEFINE q == m_position \div BaseSize
    <3>2. q \in Nat /\ m_position = BaseSize * q + (m_position % BaseSize)
      BY Zenon, <1>1, <1>4, NatQuotient
    <3> HIDE DEF q
    <3>3. q \in Nat /\ m_position = BaseSize * q
      BY SMTT(10), <1>4, <3>1, <3>2
    <3>4. CASE m_position # capacity
      <4>1. place = [block |-> q + 1, position |-> BaseSize * q, rest |-> size]
        BY SMTT(10), <1>4, <3>3, <3>4 DEF BlockOf, q
      <4>2. BaseSize * q + size <= BaseSize * Len(nodes)
        BY SMTT(10), <1>1, <1>4, <3>3
      <4> HIDE DEF place, size
      <4>3. Buffer!Saved[place] = [i \in 1..size |-> ByteOf(nodes, BaseSize * q + i - 1)]
        BY Zenon, <1>1, <3>3, <4>1, <4>2, SavedBytes
      <4>4. QED
        BY Zenon, <3>3, <4>3
    <3>5. CASE m_position = capacity
      <4>1. size = 0 /\ place.rest <= 0
        BY SMTT(10), <1>1, <3>5
      <4> HIDE DEF place
      <4>2. Buffer!Saved[place] = <<>>
        BY Zenon, <1>6, <4>1, SavedIs DEF Piece
      <4> HIDE DEF size
      <4>3. QED
        BY SMTT(10), <4>1, <4>2
    <3>6. QED
      BY <3>4, <3>5
  <2> HIDE DEF bytes, size
  <2>3. bytes \in Seq(Cell)
    <3>1. \A i \in 1..Len(bytes) : bytes[i] \in Cell
      BY SMTT(10), <1>7, <1>10
    <3>2. QED
      BY SMTT(10), <1>7, <3>1
  <2>4. \/ m_position % BaseSize # 0
        \/ \A i \in 1..Len(bytes) : bytes[i] = ByteOf(nodes, m_position + i - 1)
    BY SMTT(10), <1>1, <2>2
  <2>5. Shape'
    BY SMTT(10), <1>2, <2>1, <2>3 DEF Shape
  <2>6. last'.asked = "file" /\ last'.kind = "file" /\ last'.at = m_position /\ last'.value = bytes /\ items' = items
    BY SMTT(10), <1>2, <2>1
  <2>7. LastTypes' /\ Buffer!ReadsWhatWasWritten'
    BY SMTT(10), <2>3, <2>4, <2>6, StretchRead
  <2>8. QED
    BY <1>8, <2>5, <2>7 DEF BufferInv
<1>11. QED
  BY <1>9, <1>10

-----------------------------------------------------------------------------

LEMMA StutterKeeps ==
    ASSUME BufferInv, UNCHANGED (Buffer!vars)
    PROVE  BufferInv'
  BY Zenon DEF BufferInv, Shape, Contents, Stands, ByteOf, Coded, LastTypes,
     Buffer!ReadsWhatWasWritten, Buffer!EmptyAtTheEnd, Buffer!vars, Buffer!bufVars

LEMMA StepKeeps ==
    ASSUME Sizes, Values, BufferInv, [Buffer!Next]_(Buffer!vars)
    PROVE  BufferInv'
<1>1. Shape /\ Contents
  BY DEF BufferInv
<1>2. CASE Buffer!WriteFixed
  BY Zenon, <1>1, <1>2, WriteFixedKeeps
<1>3. CASE Buffer!WriteInt
  BY Zenon, <1>1, <1>3, WriteIntKeeps
<1>4. CASE Buffer!WriteString
  BY Zenon, <1>1, <1>4, WriteStringKeeps
<1>5. CASE Buffer!ReadFixed
  BY Zenon, <1>1, <1>5, ReadFixedKeeps
<1>6. CASE Buffer!ReadInt
  BY Zenon, <1>1, <1>6, ReadIntKeeps
<1>7. CASE Buffer!ReadString
  BY Zenon, <1>1, <1>7, ReadStringKeeps
<1>8. CASE Buffer!Peek
  BY Zenon, <1>1, <1>8, PeekKeeps
<1>9. CASE Buffer!SetPosition
  BY Zenon, <1>1, <1>9, SetPositionKeeps
<1>10. CASE Buffer!Clear
  BY Zenon, <1>1, <1>10, ClearKeeps
<1>11. CASE Buffer!SetIsLittleEndian
  BY Zenon, <1>1, <1>11, SetIsLittleEndianKeeps
<1>12. CASE Buffer!WriteToFile
  BY Zenon, <1>1, <1>12, WriteToFileKeeps
<1>13. CASE Buffer!ReadFromFile
  BY Zenon, <1>1, <1>13, ReadFromFileKeeps
<1>14. CASE Buffer!Receive
  <2>1. \A s \in Strings : s \in Seq(0..255)
    BY Zenon DEF Values, Octet
  <2>2. QED
    BY Zenon, <1>1, <1>14, <2>1, ReceiveKeeps
<1>15. CASE Buffer!Send
  BY Zenon, <1>1, <1>15, SendKeeps
<1>16. CASE UNCHANGED (Buffer!vars)
  BY Zenon, <1>16, StutterKeeps
<1>17. QED
  BY Zenon, <1>2, <1>3, <1>4, <1>5, <1>6, <1>7, <1>8, <1>9, <1>10, <1>11, <1>12, <1>13,
     <1>14, <1>15, <1>16 DEF Buffer!Next

LEMMA CursorsAgree ==
    ASSUME Shape
    PROVE  Buffer!CursorFollowsPosition
  BY Zenon DEF Shape, BlockOf, Buffer!CursorFollowsPosition, Buffer!Null

LEMMA TypesFollow ==
    ASSUME Sizes, BufferInv
    PROVE  Buffer!TypeOK
<1>1. /\ BaseSize \in Nat \ {0} /\ MaxCapacity \in Nat /\ Len(nodes) \in Nat
      /\ nodes \in Seq(Block) /\ capacity = BaseSize * Len(nodes)
      /\ m_position \in Nat /\ m_size \in Nat /\ m_cur = BlockOf(m_position, capacity)
  BY DEF Sizes, Shape, BufferInv
<1>2. \A j \in 1..Len(nodes) : nodes[j] \in [0..BaseSize - 1 -> Buffer!Junk..255]
  BY SMTT(10), <1>1 DEF Block, Cell
<1>3. m_position <= m_size /\ m_size <= capacity /\ capacity <= MaxCapacity /\ capacity \in Nat
  BY SMTT(10), <1>1 DEF Shape, BufferInv
<1>4. m_cur \in 0..MaxCapacity
  <2>1. m_position \div BaseSize \in Nat
    BY Zenon, <1>1, NatQuotient
  <2>2. CASE m_position # capacity
    <3>1. m_position \div BaseSize < capacity
      <4>1. m_position < BaseSize * capacity
        <5>1. 1 * capacity <= BaseSize * capacity
          BY <1>1, <1>3
        <5>2. QED
          BY SMTT(10), <1>1, <1>3, <2>2, <5>1
      <4>2. QED
        BY <1>1, <1>3, <4>1, DivBound
    <3>2. QED
      BY SMTT(10), <1>1, <1>3, <2>1, <2>2, <3>1 DEF BlockOf
  <2>3. CASE m_position = capacity
    BY SMTT(10), <1>1, <2>3 DEF BlockOf
  <2>4. QED
    BY <2>2, <2>3
<1>5. QED
  BY SMTT(10), <1>1, <1>2, <1>3, <1>4 DEF Buffer!TypeOK, Shape, BufferInv, LastTypes

LEMMA BufferInvariance ==
    ASSUME Sizes, Values
    PROVE  BufferSpec => []BufferInv
<1>1. Buffer!Init => BufferInv
  BY InitHolds
<1>2. BufferInv /\ [Buffer!Next]_(Buffer!vars) => BufferInv'
  BY StepKeeps
<1>3. QED
  BY <1>1, <1>2, PTL DEF BufferSpec

\* The array (bytearray.cc:97-851): whatever is written, over whatever blocks and
\* by whatever way, is what is read at its place, but for the crash at an empty
\* string that ends where the chain does; and m_cur is always the block of
\* m_position.
THEOREM RoundTrips ==
    ASSUME Sizes, Values
    PROVE  BufferSpec => []Buffer!RoundTrip
<1>1. BufferInv => Buffer!RoundTrip
  BY CursorsAgree DEF BufferInv, Buffer!RoundTrip
<1>2. QED
  BY <1>1, BufferInvariance, PTL

\* The types of ByteArray: a cell of a block is a byte or was never written.
THEOREM BufferTypeCorrect ==
    ASSUME Sizes, Values
    PROVE  BufferSpec => []Buffer!TypeOK
<1>1. BufferInv => Buffer!TypeOK
  BY TypesFollow
<1>2. QED
  BY <1>1, BufferInvariance, PTL
=============================================================================
