------------------------------- MODULE LoopsMC -------------------------------
(***************************************************************************)
(* The two models of the event loop with fairness, in one instance for     *)
(* TLC: IdleLoop, and TimerManager with one recurring timer, which shares  *)
(* no variable with it.  One behaviour exercises one of them: part says    *)
(* which, and the other stays at its beginning.                            *)
(***************************************************************************)
EXTENDS IdleLoop

CONSTANTS client1, h1, h2, none, never

VARIABLES
    part,
    t_now, t_timer, t_m_timers, t_m_tickled, t_m_previouseTime, t_known,
    t_client, t_held, t_pc, t_now_ms, t_cbs, t_deadline, t_drains, t_edge,
    t_queued, t_fate

Tm == INSTANCE TimerManager WITH
    Timers <- {1}, Recurring <- {1}, Clients <- {client1},
    Threads <- {h1, h2}, Delays <- {1, 2}, StartTime <- 8, MaxTime <- 9,
    MaxWait <- 4, Hour <- 6, Word <- 128, IntRange <- 32, NoTimer <- none,
    Never <- never, now <- t_now, timer <- t_timer, m_timers <- t_m_timers,
    m_tickled <- t_m_tickled, m_previouseTime <- t_m_previouseTime,
    known <- t_known, client <- t_client, held <- t_held, pc <- t_pc,
    now_ms <- t_now_ms, cbs <- t_cbs, deadline <- t_deadline,
    drains <- t_drains, edge <- t_edge, queued <- t_queued, fate <- t_fate

timerVars ==
    <<t_now, t_timer, t_m_timers, t_m_tickled, t_m_previouseTime, t_known,
      t_client, t_held, t_pc, t_now_ms, t_cbs, t_deadline, t_drains, t_edge,
      t_queued, t_fate>>

LoopsInit == part \in {"loop", "timers"} /\ Init /\ Tm!Init

LoopsNext ==
    /\ UNCHANGED part
    /\ IF part = "loop" THEN Next /\ UNCHANGED timerVars
                        ELSE Tm!Next /\ UNCHANGED vars

allVars ==
    <<part, place, bound, due, ready, waits, late, m_pendingEventCount,
      m_activeThreadCount, m_idleThreadCount, m_stopping, tickled, pc, job,
      cbs, batch, owesTickle, idleTerm, tickles, client, t_now, t_timer,
      t_m_timers, t_m_tickled, t_m_previouseTime, t_known, t_client, t_held,
      t_pc, t_now_ms, t_cbs, t_deadline, t_drains, t_edge, t_queued, t_fate>>

\* Fairness of IdleLoop and of TimerManager for the part that moves.
LoopsFairness ==
    /\ \A t \in Workers : WF_vars(part = "loop" /\ (Run(t) \/ Idle(t) \/ Tickle(t)))
    /\ WF_vars(part = "loop" /\ Tickle(Caller))
    /\ WF_vars(part = "loop" /\ (StopTickles \/ StopJoins \/ StopReturns))
    /\ \A j \in Jobs :
          /\ WF_vars(part = "loop" /\ TimerExpires(j))
          /\ WF_vars(part = "loop" /\ EventHappens(j))
    /\ \A th \in {h1, h2} : WF_timerVars(part = "timers" /\ Tm!Serve(th))
    /\ WF_timerVars(part = "timers" /\ Tm!TickleFront(client1))

LoopsSpec == LoopsInit /\ [][LoopsNext]_allVars /\ LoopsFairness

-----------------------------------------------------------------------------
\* A timer whose time has come is collected (timer.cc:211-238).
DueTimersLeave == Tm!DueTimersLeave
=============================================================================
