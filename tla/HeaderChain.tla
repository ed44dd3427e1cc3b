------------------------------ MODULE HeaderChain ------------------------------
(***************************************************************************)
(* One sub chain, block after block, as its headers see it.  A step is     *)
(* controller::start_block for a slot of an active producer (the header is *)
(* fixed then; the block is finalised, signed and committed before the     *)
(* next), or a schedule proposal by a transaction of that block.           *)
(***************************************************************************)
EXTENDS BlockHeaderState

CONSTANTS MaxBlock,      \* bound: length of the chain
          MaxConfirmed,  \* the largest header.confirmed, a uint16_t: 2^16 - 1
          Proposals,     \* the sets of producers that are ever proposed
          Confirms       \* which counts headers carry: "any" that next() accepts, or
                         \* "all" the blocks since the producer's last, as a
                         \* producer_plugin that was not restarted gives

ASSUME ChainAssumption ==
  /\ MaxBlock \in Nat /\ MaxBlock < Modulus
  /\ MaxConfirmed \in Nat
  /\ Proposals \subseteq SUBSET Producers
  /\ Confirms \in {"any", "all"}

VARIABLES hs,          \* the header state of the newest block
          proposed,    \* gpo.proposed_schedule, gpo.proposed_schedule_block_num
          promoted,    \* the newest block promoted the pending schedule
          watermarks,  \* _producer_watermarks, every producer on a node of its own
          confirmers,  \* history: who confirmed each block while it was tracked
          repeated,    \* history: confirmations by a producer that a header whose
                       \* count wraps around made once more
          needed       \* history: confirmations each block needs

history == <<confirmers, repeated, needed>>

vars == <<hs, proposed, promoted, watermarks, history>>

Nums == 1..MaxBlock

Init == /\ hs = GenesisState
        /\ proposed = NotProposed
        /\ promoted = FALSE
        /\ watermarks = [p \in Producers |-> 0]
        /\ confirmers = [n \in Nums |-> {}]
        /\ repeated = [n \in Nums |-> 0]
        /\ needed = [n \in Nums |-> 0]

(* Confirmation counts a header by p may carry.  A producer that has no    *)
(* watermark, for it has not produced yet, confirms nothing.               *)
Counts(p) ==
  IF Confirms = "any" THEN 0..MaxConfirmed
  ELSE {IF watermarks[p] = 0 THEN 0 ELSE hs.block_num - watermarks[p]}

(* The blocks whose count set_confirmed lowers for p's block. *)
ConfirmedBy(p, confirmed) ==
  LET n == hs.block_num + 1
      tracked == Len(generate_next(hs, p).confirm_count)
  IN {k \in Nums : n - confirmed <= k /\ n - tracked < k /\ k <= n}

(* A header that carries more than its block number passes next()'s test   *)
(* whatever its producer has confirmed before.                             *)
Wraps(confirmed) == confirmed > hs.block_num + 1

start_block(p, confirmed) ==
  LET next == started(hs, proposed, p, confirmed)
      n == hs.block_num + 1
      counted == ConfirmedBy(p, confirmed)
      again == {k \in counted : Wraps(confirmed) /\ p \in confirmers[k]}
  IN /\ hs.block_num < MaxBlock
     /\ p \in hs.active_schedule.producers
     /\ confirms_new_range(hs, p, confirmed)
     /\ next.legal
     /\ hs' = next.hs
     /\ proposed' = next.proposed
     /\ promoted' = next.promoted
     /\ watermarks' = [watermarks EXCEPT ![p] = n]
     /\ confirmers' = [k \in Nums |-> confirmers[k] \cup (IF k \in counted THEN {p} ELSE {})]
     /\ repeated' = [k \in Nums |-> repeated[k] + (IF k \in again THEN 1 ELSE 0)]
     /\ needed' = [needed EXCEPT ![n] = required_confs(hs)]

(* Mutant: the version follows the active schedule even if one is pending. *)
set_proposed_producers_active(producers) ==
  /\ hs.block_num > 1
  /\ proposed # NotProposed => /\ proposed.block_num = hs.block_num
                               /\ proposed.schedule.producers # producers
  /\ producers # latest_schedule(hs).producers
  /\ proposed' = [schedule |-> [version |-> hs.active_schedule.version + 1,
                                producers |-> producers],
                  block_num |-> hs.block_num]
  /\ UNCHANGED <<hs, promoted, watermarks, history>>

(* Calls that return -1 change nothing. *)
set_proposed_producers(producers) ==
  /\ hs.block_num > 1
  /\ proposed # NotProposed => /\ proposed.block_num = hs.block_num
                               /\ proposed.schedule.producers # producers
  /\ producers # latest_schedule(hs).producers
  /\ proposed' = [schedule |-> [version |-> latest_schedule(hs).version + 1,
                                producers |-> producers],
                  block_num |-> hs.block_num]
  /\ UNCHANGED <<hs, promoted, watermarks, history>>

Next == \/ \E p \in Producers : \E c \in Counts(p) : start_block(p, c)
        \/ \E S \in Proposals : set_proposed_producers(S)

Spec == Init /\ [][Next]_vars

-------------------------------------------------------------------------------
Tracked == Len(hs.confirm_count)
BlockOf(i) == hs.block_num - (Tracked - i)

(* Type correctness. *)
TypeOK ==
  /\ hs.block_num \in Nums
  /\ hs.dpos_irreversible_blocknum \in 0..MaxBlock
  /\ hs.dpos_proposed_irreversible_blocknum \in 0..MaxBlock
  /\ hs.pending_schedule_lib_num \in 0..MaxBlock
  /\ hs.active_schedule \in [version : Nat, producers : SUBSET Producers]
  /\ hs.pending_schedule \in [version : Nat, producers : SUBSET Producers]
  /\ hs.confirm_count \in Seq(0..255)
  /\ proposed \in [schedule : [version : Nat, producers : SUBSET Producers], block_num : 0..MaxBlock]
  /\ promoted \in BOOLEAN
  /\ watermarks \in [Producers -> 0..MaxBlock]
  /\ confirmers \in [Nums -> SUBSET Producers]
  /\ repeated \in [Nums -> Nat]
  /\ needed \in [Nums -> Nat]

(* Every decrement of confirm_count stands for one more distinct producer, *)
(* whoever left and rejoined the schedule in between, except those a       *)
(* header whose count wraps around makes again: a block still tracked      *)
(* lacks exactly as many confirmations as its count says.  So no count     *)
(* ever wraps below 0, and in a chain without such headers the proposed    *)
(* irreversible block has two thirds of the producers behind it.           *)
ConfirmationsDistinct ==
  LET confirmations(k) == Cardinality(confirmers[k]) + repeated[k] IN
  /\ \A i \in 1..Tracked :
       /\ hs.confirm_count[i] > 0
       /\ hs.confirm_count[i] = needed[BlockOf(i)] - confirmations(BlockOf(i))
  /\ LET k == hs.dpos_proposed_irreversible_blocknum IN
       k > 0 => confirmations(k) >= needed[k]

(* A block is proposed irreversible, and then irreversible, only when      *)
(* everything before it is: tracked blocks are newer than the proposed     *)
(* one, which is not older than the irreversible one.                      *)
LibBehindProposed ==
  /\ hs.dpos_irreversible_blocknum <= hs.dpos_proposed_irreversible_blocknum
  /\ Tracked > 0 => hs.dpos_proposed_irreversible_blocknum < BlockOf(1)
  /\ hs.dpos_proposed_irreversible_blocknum <= hs.block_num

(* Schedules get consecutive versions, in the order active, pending,       *)
(* proposed.  Otherwise the FC_ASSERT on the version in set_new_producers  *)
(* fails in start_block, for every later block.                            *)
ScheduleVersions ==
  LET follows(s, t) == s.version = t.version + 1 IN
  /\ hs.block_num > 1 /\ hs.pending_schedule.producers # {} =>
       follows(hs.pending_schedule, hs.active_schedule)
  /\ proposed # NotProposed => follows(proposed.schedule, latest_schedule(hs))

(* A schedule takes effect only when the block that announced it is        *)
(* irreversible, and only the block right after a promotion may see the    *)
(* irreversible number move back.                                          *)
LibAdvances ==
  [][/\ ~promoted => hs'.dpos_irreversible_blocknum >= hs.dpos_irreversible_blocknum
     /\ hs'.dpos_proposed_irreversible_blocknum >= hs.dpos_proposed_irreversible_blocknum
     /\ hs'.active_schedule # hs.active_schedule =>
          hs.pending_schedule_lib_num <= hs'.dpos_irreversible_blocknum]_vars

(* commit_block asserts that "committed block did not become the new head  *)
(* in fork database" never happens.  The fork database orders blocks by    *)
(* irreversible number, then by number: a block that builds on the head    *)
(* becomes the head only if its irreversible number is not below its       *)
(* parent's.                                                               *)
CommittedBecomesHead ==
  [][hs'.block_num = hs.block_num + 1 =>
       hs'.dpos_irreversible_blocknum >= hs.dpos_irreversible_blocknum]_vars
===============================================================================
