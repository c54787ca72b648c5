----------------------------- MODULE FdEventsMC -----------------------------
(***************************************************************************)
(* Instances of FdEvents for TLC.                                          *)
(***************************************************************************)
EXTENDS FdEvents

CONSTANTS f1, f2, f3, h1, h2
=============================================================================
