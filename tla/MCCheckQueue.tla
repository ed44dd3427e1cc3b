----------------------------- MODULE MCCheckQueue -----------------------------
(* Instances of CheckQueue for TLC.  Liveness is checked, so there is no     *)
(* symmetry set.                                                             *)
EXTENDS CheckQueue
===============================================================================
