------------------------------ MODULE MCBlockLog ------------------------------
(* The instance is given by the numbers of the configuration. *)
EXTENDS BlockLog
===============================================================================
