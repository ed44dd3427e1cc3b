--------------------------- MODULE MCSubBlockStore ---------------------------
(* Instances of SubBlockStore: five blocks of three sizes. *)
EXTENDS SubBlockStore

MCSize == [b \in SubBlocks |-> IF b \in {"b1", "b5"} THEN 1 ELSE IF b = "b2" THEN 2 ELSE 3]
===============================================================================
