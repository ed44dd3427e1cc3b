---------------------------- MODULE MCProducerLoop ----------------------------
(* A schedule of four producers, two of them, not neighbours, on this node.  *)
EXTENDS ProducerLoop

FourProducers == <<"x", "a", "y", "b">>
===============================================================================
