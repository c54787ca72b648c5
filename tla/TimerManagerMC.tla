--------------------------- MODULE TimerManagerMC ---------------------------
(***************************************************************************)
(* Instances of TimerManager for TLC.  The widths are scaled down: Word    *)
(* stands for 2^64, IntRange for 2^32, Hour for 3600000 and MaxWait for    *)
(* 5000.                                                                   *)
(***************************************************************************)
EXTENDS TimerManager

CONSTANTS c1, h1, h2
=============================================================================
