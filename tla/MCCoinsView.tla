------------------------------ MODULE MCCoinsView ------------------------------
(***************************************************************************)
(* A tree of two branches for CoinsView and SubChainMeta.  p is spent at   *)
(* different heights in both, by the transaction that creates r; a3        *)
(* creates and spends t; u is a coinbase output.  The transaction that     *)
(* creates r registers sub chain "i", and so does another one in b2.       *)
(***************************************************************************)
EXTENDS SubChainMeta

row(parent, height, creates, spends) ==
  [parent |-> parent, height |-> height, creates |-> creates, spends |-> spends]

ForkTree ==
  [g  |-> row(NoBlock, 0, {}, {}),
   a1 |-> row("g", 1, {"p", "q"}, {}),
   a2 |-> row("a1", 2, {"r"}, {"p"}),
   a3 |-> row("a2", 3, {"t"}, {"r", "t"}),
   a4 |-> row("a3", 4, {"s"}, {"q"}),
   b2 |-> row("a1", 2, {"u"}, {"q"}),
   b3 |-> row("b2", 3, {"r"}, {"p"}),
   b4 |-> row("b3", 4, {}, {"r", "u"})]

Registered ==
  [b \in Blocks |-> CASE b \in {"a2", "b3"} -> <<"x">> [] b = "b2" -> <<"y">> [] OTHER -> <<>>]

Ids == [x |-> "i", y |-> "i"]

ByHash == <<"y", "x">>
===============================================================================
