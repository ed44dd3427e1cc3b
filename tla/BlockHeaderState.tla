--------------------------- MODULE BlockHeaderState ---------------------------
(***************************************************************************)
(* The header state of a sub-chain block: what a block's header, and the   *)
(* headers before it, say about producers, confirmations and               *)
(* irreversibility.  The operators are functions from the header state of  *)
(* a block to that of its child, as the methods of block_header_state are. *)
(* HeaderChain follows one chain with them.                                *)
(*                                                                         *)
(* Time is left out: a slot of any active producer comes round again, and  *)
(* slots may be missed, so any active producer may produce the next block. *)
(* A producer schedule is a version and a set of producers (a proposal     *)
(* that only reorders or rekeys the producers is not told apart).          *)
(* Signatures and merkle roots are not modelled: a header that fails those *)
(* tests is not added to the chain.                                        *)
(***************************************************************************)
EXTENDS Integers, Sequences, FiniteSets

CONSTANTS Producers,    \* all producers there can be
          Founder,      \* the producer of the genesis schedule, eosio
          MaxTracked,   \* maximum_tracked_dpos_confirmations
          Modulus       \* 2^32: block numbers are uint32_t

ASSUME HeaderAssumption ==
  /\ Founder \in Producers /\ IsFiniteSet(Producers)
  /\ MaxTracked \in Nat \ {0}
  /\ Modulus \in Nat \ {0}

None == [version |-> 0, producers |-> {}]   \* no schedule: producers.size() == 0

(* flat_map::operator[]= *)
Put(f, k, v) == [j \in DOMAIN f \cup {k} |-> IF j = k THEN v ELSE f[j]]

(* initialize_fork_db: the header state of the genesis block. *)
GenesisState ==
  [block_num |-> 1,
   dpos_proposed_irreversible_blocknum |-> 0,
   dpos_irreversible_blocknum |-> 0,
   pending_schedule_lib_num |-> 0,
   pending_schedule |-> [version |-> 0, producers |-> {Founder}],
   active_schedule |-> [version |-> 0, producers |-> {Founder}],
   producer_to_last_produced |-> [p \in {} |-> 0],
   producer_to_last_implied_irb |-> [p \in {} |-> 0],
   confirm_count |-> <<>>]

(* The value a third of the way into the sorted list of implied            *)
(* irreversible numbers: position (n - 1) / 3, counting from 0.            *)
calc_dpos_last_irreversible(implied) ==
  LET n == Cardinality(DOMAIN implied)
      k == (n - 1) \div 3
  IN IF n = 0 THEN 0
     ELSE CHOOSE v \in {implied[p] : p \in DOMAIN implied} :
            /\ Cardinality({p \in DOMAIN implied : implied[p] < v}) <= k
            /\ k < Cardinality({p \in DOMAIN implied : implied[p] <= v})

(* Confirmations a block needs, by the schedule that signs it. *)
required_confs(hs) == (Cardinality(hs.active_schedule.producers) * 2) \div 3 + 1

(* The template of the block after hs, in a slot of producer p. *)
generate_next(hs, p) ==
  LET n == hs.block_num + 1
      implied == Put(hs.producer_to_last_implied_irb, p,
                     hs.dpos_proposed_irreversible_blocknum)
      kept == IF Len(hs.confirm_count) < MaxTracked THEN hs.confirm_count
              ELSE Tail(hs.confirm_count)
  IN [hs EXCEPT !.block_num = n,
                !.producer_to_last_produced = Put(@, p, n),
                !.producer_to_last_implied_irb = implied,
                !.dpos_irreversible_blocknum = calc_dpos_last_irreversible(implied),
                !.confirm_count = Append(kept, required_confs(hs))]

(* Mutant: the block that gets its last confirmation stays in the list. *)
set_confirmed_keeps(hs, num_prev_blocks) ==
  LET cc == hs.confirm_count
      low == Len(cc) - num_prev_blocks
      met == {i \in 1..Len(cc) : i >= low /\ cc[i] = 1}
      top == CHOOSE i \in met : \A j \in met : j <= i
      less == [i \in 1..Len(cc) |-> IF i >= low THEN cc[i] - 1 ELSE cc[i]]
  IN IF met = {} THEN [hs EXCEPT !.confirm_count = less]
     ELSE [hs EXCEPT !.confirm_count = SubSeq(less, top, Len(cc)),
                     !.dpos_proposed_irreversible_blocknum = hs.block_num - (Len(cc) - top)]

(* From the newest block back, the block and num_prev_blocks before it get *)
(* one confirmation more.  The first that needs no more becomes the        *)
(* proposed irreversible block; it and all older ones are tracked no       *)
(* longer.                                                                 *)
set_confirmed(hs, num_prev_blocks) ==
  LET cc == hs.confirm_count
      low == Len(cc) - num_prev_blocks
      met == {i \in 1..Len(cc) : i >= low /\ cc[i] = 1}
      top == CHOOSE i \in met : \A j \in met : j <= i
      less == [i \in 1..Len(cc) |-> IF i >= low THEN cc[i] - 1 ELSE cc[i]]
  IN IF met = {} THEN [hs EXCEPT !.confirm_count = less]
     ELSE [hs EXCEPT !.confirm_count = SubSeq(less, top + 1, Len(cc)),
                     !.dpos_proposed_irreversible_blocknum = hs.block_num - (Len(cc) - top)]

(* Mutant: a pending schedule does not wait for its block. *)
promotable_now(hs) == hs.pending_schedule.producers # {}

promotable(hs) ==
  /\ hs.pending_schedule.producers # {}
  /\ hs.dpos_irreversible_blocknum >= hs.pending_schedule_lib_num

(* The pending schedule takes over in a block whose irreversible block has *)
(* reached the one that announced it.  Producers that stay keep what they  *)
(* produced and implied, the others start from the irreversible block; the *)
(* producer of this block stays in the map even if it is voted out.        *)
maybe_promote_pending(hs, producer) ==
  LET carry(f) == [p \in hs.pending_schedule.producers |->
                     IF p \in DOMAIN f THEN f[p] ELSE hs.dpos_irreversible_blocknum]
  IN IF ~promotable(hs) THEN hs
     ELSE [hs EXCEPT
             !.active_schedule = hs.pending_schedule,
             !.pending_schedule = None,
             !.producer_to_last_produced = Put(carry(@), producer, hs.block_num),
             !.producer_to_last_implied_irb = carry(@)]

may_set_new_producers(hs, sch) ==
  /\ sch.version = hs.active_schedule.version + 1
  /\ hs.pending_schedule.producers = {}

set_new_producers(hs, sch) ==
  [hs EXCEPT !.pending_schedule = sch, !.pending_schedule_lib_num = hs.block_num]

(* Mutant: the range may reach down to the producer's own last block. *)
confirms_range_again(hs, p, confirmed) ==
  p \in DOMAIN hs.producer_to_last_produced =>
    hs.producer_to_last_produced[p] <= (hs.block_num + 1 - confirmed) % Modulus

(* The test that next() makes of another node's header: the producer did   *)
(* not produce any of the blocks it now confirms.  The subtraction wraps   *)
(* around when the header carries more than its block number, and the test *)
(* then lets every such count pass.                                        *)
confirms_new_range(hs, p, confirmed) ==
  p \in DOMAIN hs.producer_to_last_produced =>
    hs.producer_to_last_produced[p] < (hs.block_num + 1 - confirmed) % Modulus

(* gpo.proposed_schedule and gpo.proposed_schedule_block_num *)
NotProposed == [schedule |-> None, block_num |-> 0]

(* A proposal becomes the pending schedule once the block it was made in   *)
(* is irreversible, no schedule is pending and none was promoted just now. *)
Due(h, proposed, was_pending_promoted) ==
  /\ proposed # NotProposed
  /\ proposed.block_num <= h.dpos_irreversible_blocknum
  /\ h.pending_schedule.producers = {}
  /\ ~was_pending_promoted

(* What start_block makes of the header state of the head: the new header  *)
(* state, what is left of the proposal, and whether a schedule took over.  *)
started(hs, proposed, p, confirmed) ==
  LET h1 == set_confirmed(generate_next(hs, p), confirmed)
      h2 == maybe_promote_pending(h1, p)
      due == Due(h2, proposed, promotable(h1))
  IN [hs |-> IF due THEN set_new_producers(h2, proposed.schedule) ELSE h2,
      proposed |-> IF due THEN NotProposed ELSE proposed,
      promoted |-> promotable(h1),
      legal |-> due => may_set_new_producers(h2, proposed.schedule)]

(* The schedule a new proposal follows on. *)
latest_schedule(hs) == IF hs.pending_schedule.producers = {} THEN hs.active_schedule
                       ELSE hs.pending_schedule

===============================================================================
