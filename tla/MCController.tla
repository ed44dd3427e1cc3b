----------------------------- MODULE MCController -----------------------------
(***************************************************************************)
(* Instances of Controller: two trees of blocks.  A row has the parent     *)
(* of a block, the irreversible number in its header state, its producer,  *)
(* how many blocks it confirms and its transactions.  The irreversible     *)
(* numbers are those that BlockHeaderState computes; TLC checks that.      *)
(* Block k2 proposes the producers that take over from the founder after   *)
(* block k4; this node has producer p1.                                    *)
(***************************************************************************)
EXTENDS Controller

row(parent, lib, producer, confirmed, txs) ==
  [parent |-> parent, lib |-> lib, producer |-> producer, confirmed |-> confirmed,
   txs |-> txs, own |-> producer = "p1"]

(* Four producers.  p1 goes on alone for three blocks while the others     *)
(* build on k4; their third block has a higher irreversible number.  Later *)
(* that number jumps from 4 to 6, past the first blocks of the branches,   *)
(* when only blocks up to 3 have been pruned.                              *)
ForkTree ==
  [g   |-> row(NoBlock, 0, "f", 0, {}),
   k2  |-> row("g", 0, "f", 0, {}),
   k3  |-> row("k2", 2, "f", 0, {}),
   k4  |-> row("k3", 3, "f", 0, {}),
   a5  |-> row("k4", 3, "p1", 0, {"t"}),
   a6  |-> row("a5", 3, "p1", 0, {"u"}),
   a7  |-> row("a6", 3, "p1", 0, {}),
   d6  |-> row("a5", 3, "p2", 1, {}),
   e7  |-> row("d6", 4, "p3", 2, {}),
   b5  |-> row("k4", 3, "p2", 0, {"u"}),
   b6  |-> row("b5", 3, "p3", 1, {"t"}),
   b7  |-> row("b6", 4, "p4", 2, {}),
   c8  |-> row("b7", 4, "p1", 0, {}),
   c9  |-> row("c8", 4, "p2", 3, {}),
   c10 |-> row("c9", 4, "p2", 0, {}),
   c11 |-> row("c10", 4, "p1", 2, {}),
   c12 |-> row("c11", 6, "p3", 5, {}),
   c13 |-> row("c12", 6, "p4", 5, {})]

(* Four producers, none of them this node's.  p2 and p3 leave the branch   *)
(* of a5 for the one of b5, which is longer; p4, who does not see it, goes *)
(* on with a5's and has made e11 when b12 moves the irreversible number    *)
(* from 4, where the branches part, to 7.                                  *)
LeapTree ==
  [g   |-> row(NoBlock, 0, "f", 0, {}),
   k2  |-> row("g", 0, "f", 0, {}),
   k3  |-> row("k2", 2, "f", 0, {}),
   k4  |-> row("k3", 3, "f", 0, {}),
   a5  |-> row("k4", 3, "p2", 0, {}),
   d6  |-> row("a5", 3, "p3", 1, {}),
   e7  |-> row("d6", 4, "p4", 2, {}),
   e8  |-> row("e7", 4, "p4", 0, {}),
   e9  |-> row("e8", 4, "p4", 0, {}),
   e10 |-> row("e9", 4, "p4", 0, {}),
   e11 |-> row("e10", 4, "p4", 0, {}),
   b5  |-> row("k4", 3, "p5", 0, {}),
   b6  |-> row("b5", 3, "p5", 0, {}),
   b7  |-> row("b6", 3, "p5", 0, {}),
   b8  |-> row("b7", 3, "p3", 1, {}),
   b9  |-> row("b8", 4, "p2", 3, {}),
   b10 |-> row("b9", 4, "p5", 2, {}),
   b11 |-> row("b10", 4, "p3", 2, {}),
   b12 |-> row("b11", 7, "p2", 2, {})]

-------------------------------------------------------------------------------
H == INSTANCE BlockHeaderState WITH
       Producers <- {"f", "p1", "p2", "p3", "p4", "p5"}, Founder <- "f",
       MaxTracked <- 1024, Modulus <- 2^30

Heirs == {Tree[b].producer : b \in Blocks} \ {"f"}

(* The header state of each block, and the schedule proposed by then. *)
Headers[b \in Blocks] ==
  IF b = Genesis THEN [hs |-> H!GenesisState, proposed |-> H!NotProposed]
  ELSE LET p == Headers[Parent[b]]
           s == H!started(p.hs, p.proposed, Tree[b].producer, Tree[b].confirmed)
       IN [hs |-> s.hs,
           proposed |-> IF b = "k2" /\ Heirs # {}
                        THEN [schedule |-> [version |-> H!latest_schedule(s.hs).version + 1,
                                            producers |-> Heirs],
                              block_num |-> s.hs.block_num]
                        ELSE s.proposed]

ASSUME TreeFollowsHeaderRules ==
  \A b \in Blocks : /\ Num[b] = Headers[b].hs.block_num
                    /\ Lib[b] = Headers[b].hs.dpos_irreversible_blocknum

(* Only in the second tree may a fork reach below what its blocks prune.    *)
ASSUME TreesDoNotLeap == Tree # LeapTree => NoLeap
===============================================================================
