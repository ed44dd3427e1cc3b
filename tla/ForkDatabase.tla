----------------------------- MODULE ForkDatabase -----------------------------
(***************************************************************************)
(* The fork database of a sub-chain node: the blocks it knows above the    *)
(* last irreversible one, and which of them is the head.  The operators    *)
(* are functions of its contents, as the methods of fork_database are;     *)
(* Controller holds the contents and acts on the blocks that become        *)
(* irreversible.                                                           *)
(*                                                                         *)
(* Blocks form a tree.  What the fork database reads of a block is its     *)
(* parent, its number and the irreversible number of its header state, and *)
(* these never change, so they are constants.  BFT confirmations are left  *)
(* out: nothing but a test calls push_confirmation.                        *)
(***************************************************************************)
EXTENDS Integers, FiniteSets

CONSTANTS Tree,     \* what the headers of all blocks say that are ever made
          Genesis,
          NoBlock   \* a null block_state_ptr

Blocks == DOMAIN Tree
Parent == [b \in Blocks |-> Tree[b].parent]   \* header.previous
Lib == [b \in Blocks |-> Tree[b].lib]         \* dpos_irreversible_blocknum

(* A block and its ancestors. *)
ChainOf[b \in Blocks] == IF b = Genesis THEN {b} ELSE ChainOf[Parent[b]] \cup {b}
Chain == [b \in Blocks |-> ChainOf[b]]
Num == [b \in Blocks |-> Cardinality(Chain[b])]   \* block_num

ASSUME TreeAssumption ==
  /\ Genesis \in Blocks /\ NoBlock \notin Blocks /\ IsFiniteSet(Blocks)
  /\ Num \in [Blocks -> Nat] /\ Lib \in [Blocks -> Nat]
  /\ Num[Genesis] = 1 /\ Chain[Genesis] = {Genesis} /\ Parent[Genesis] = NoBlock
  /\ \A b \in Blocks \ {Genesis} :
       /\ Parent[b] \in Blocks
       /\ Num[b] = Num[Parent[b]] + 1
       /\ Chain[b] = Chain[Parent[b]] \cup {b}

(* What the header rules make of the irreversible number: it is below the  *)
(* block's own, and along a chain it does not fall.  It may fall at the    *)
(* block after a promotion that shrinks the producers (LibAdvances of      *)
(* HeaderChain); what comes of that is the subject of CommittedBecomesHead *)
(* there, and trees with such a promotion are left out here.               *)
ASSUME LibAssumption ==
  /\ Lib[Genesis] = 0
  /\ \A b \in Blocks \ {Genesis} : Lib[Parent[b]] <= Lib[b] /\ Lib[b] < Num[b]

(* The contents f of a fork database:                                      *)
(*   f.blocks      the blocks in its index                                 *)
(*   f.before      <<a, b>> when a stands before b among the blocks with   *)
(*                 their number: the order in which they were inserted     *)
(*   f.head        the fork database's head, NoBlock if it is null         *)
(*   f.in_chain    blocks with in_current_chain set                        *)
(*   f.validated   blocks with validated set                               *)
(*   f.trxs        blocks whose block_state has its transactions: the ones *)
(*                 this process made itself                                *)

(* Order of the index by_lib_block_num; equal blocks stay as inserted. *)
better(a, b) == Lib[a] > Lib[b] \/ (Lib[a] = Lib[b] /\ Num[a] > Num[b])

first_of(f, S) == CHOOSE b \in S : \A c \in S \ {b} : <<b, c>> \in f.before

(* *index.get<by_lib_block_num>().begin(), which an empty index has not. *)
best(f) ==
  IF f.blocks = {} THEN NoBlock
  ELSE first_of(f, {b \in f.blocks : \A c \in f.blocks : ~better(c, b)})

lowest(f) == {b \in f.blocks : \A c \in f.blocks : Num[b] <= Num[c]}

(* *index.get<by_block_num>().begin(): a least number, in_current_chain    *)
(* before the others.                                                      *)
oldest(f) ==
  LET mine == lowest(f) \cap f.in_chain
  IN first_of(f, IF mine = {} THEN lowest(f) ELSE mine)

(* The fork database with only the blocks of S left. *)
restrict(f, S) ==
  [f EXCEPT !.blocks = @ \cap S, !.before = @ \cap (S \X S),
            !.in_chain = @ \cap S, !.validated = @ \cap S, !.trxs = @ \cap S]

(* index.insert, then the new head. *)
insert(f, b) ==
  LET g == [f EXCEPT !.blocks = @ \cup {b},
                     !.before = @ \cup {<<c, b>> : c \in {c \in f.blocks : Num[c] = Num[b]}}]
  IN [g EXCEPT !.head = best(g)]

(* The block and everything built on it go. *)
remove(f, b) ==
  LET g == restrict(f, {c \in f.blocks : b \notin Chain[c]}) IN [g EXCEPT !.head = best(g)]

(* Mutant: the irreversible block itself is pruned too. *)
irreversible_too_early(f) == IF Num[oldest(f)] <= Lib[f.head] THEN {oldest(f)} ELSE {}

(* What adding b makes irreversible: at most the oldest block, even if the *)
(* irreversible number has moved by more than one.                         *)
irreversible(f) == IF Num[oldest(f)] < Lib[f.head] THEN {oldest(f)} ELSE {}

(* Mutant: the other blocks of the number stay. *)
prune_only(f, h) == restrict(f, f.blocks \ {h})

(* prune(oldest): nothing older is left, so it goes alone, and with it     *)
(* every other block of its number and all that is built on those.  (When  *)
(* one of these is removed, the loop reads an iterator into the next       *)
(* number that may just have been erased; the read ends the loop or the    *)
(* process, and a crash is possible in any state.)                         *)
prune(f, h) ==
  LET others == {c \in f.blocks : Num[c] = Num[h]} \ {h}
      g == restrict(f, {c \in f.blocks \ {h} : Chain[c] \cap others = {}})
  IN IF others = {} THEN g ELSE [g EXCEPT !.head = best(g)]

(* fetch_branch_from: the blocks of each branch down to, and with, the     *)
(* children of the common ancestor.  If one block is an ancestor of the    *)
(* other, both branches end with that block itself.                        *)
branch_from(first, second) ==
  IF first \in Chain[second] THEN {first}
  ELSE IF second \in Chain[first] THEN (Chain[first] \ Chain[second]) \cup {second}
  ELSE Chain[first] \ Chain[second]

mark_in_current_chain(f, b, in_current_chain) ==
  [f EXCEPT !.in_chain = IF in_current_chain THEN @ \cup {b} ELSE @ \ {b}]

===============================================================================
