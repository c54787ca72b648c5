---------------------------- MODULE SchedulerMC ----------------------------
(***************************************************************************)
(* Instances of Scheduler for TLC: model values for threads and fibers.    *)
(***************************************************************************)
EXTENDS Scheduler

CONSTANTS w1, w2, f1, f2
=============================================================================
