------------------------------ MODULE TaskPool ------------------------------
(***************************************************************************)
(* What sylar's scheduler promises to its callers: a pool of workers that  *)
(* takes every submitted task exactly once, on a worker the task allows,   *)
(* never two at a time for the same task, and that closes only when        *)
(* everything submitted has been carried out.                              *)
(***************************************************************************)
CONSTANTS
    Workers,
    Tasks,
    Anyone,  \* a submission bound to no worker
    Nobody   \* the task of a worker that has none

VARIABLES
    pending,  \* the submissions nobody has taken: [task, worker] records
    running,  \* the task each worker carries out
    open,     \* whether the pool has a worker
    phase     \* "serving", "closing" or "closed"

vars == <<pending, running, open, phase>>

Init ==
    /\ pending = {}
    /\ running = [w \in Workers |-> Nobody]
    /\ open \in BOOLEAN
    /\ phase = "serving"

Outstanding(t) ==
    \/ \E p \in pending : p.task = t
    \/ \E w \in Workers : running[w] = t

\* A caller submits while the pool serves; a running task may always submit.
Submit(t, w) ==
    /\ phase = "serving" \/ \E v \in Workers : running[v] # Nobody
    /\ ~Outstanding(t)
    /\ pending' = pending \cup {[task |-> t, worker |-> w]}
    /\ UNCHANGED <<running, open, phase>>

Take(w, p) ==
    /\ running[w] = Nobody
    /\ p \in pending
    /\ p.worker \in {Anyone, w}
    /\ pending' = pending \ {p}
    /\ running' = [running EXCEPT ![w] = p.task]
    /\ UNCHANGED <<open, phase>>

\* The task ends, or pauses until it is submitted again.
Release(w) ==
    /\ running[w] # Nobody
    /\ running' = [running EXCEPT ![w] = Nobody]
    /\ UNCHANGED <<pending, open, phase>>

Open ==
    /\ phase = "serving"
    /\ ~open
    /\ open' = TRUE
    /\ UNCHANGED <<pending, running, phase>>

BeginClose ==
    /\ phase = "serving"
    /\ phase' = "closing"
    /\ UNCHANGED <<pending, running, open>>

\* A pool that never had a worker closes at once.
Close ==
    /\ phase = "closing"
    /\ open => pending = {} /\ \A w \in Workers : running[w] = Nobody
    /\ phase' = "closed"
    /\ UNCHANGED <<pending, running, open>>

Next ==
    \/ \E t \in Tasks, w \in Workers \cup {Anyone} : Submit(t, w)
    \/ \E w \in Workers : Release(w) \/ \E p \in pending : Take(w, p)
    \/ Open \/ BeginClose \/ Close

Spec == Init /\ [][Next]_vars
=============================================================================
