--------------------------- MODULE MCSubBlockRelay ---------------------------
(* Two nodes that blocks are handed to, and a third that is connected to     *)
(* both: it may learn of a block from either.                                *)
EXTENDS SubBlockRelay

Star == {{"a", "c"}, {"b", "c"}}
HandedTo == [s |-> {"a", "b"}, t |-> {"a"}]
===============================================================================
