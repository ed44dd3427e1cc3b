---------------------------- MODULE MCGenericIndex ----------------------------
(* Instances of GenericIndex for TLC: a few rows, keys and data values that  *)
(* are interchangeable.                                                      *)
EXTENDS GenericIndex, TLC

Symmetry == Permutations(Key) \cup Permutations(Data)
===============================================================================
