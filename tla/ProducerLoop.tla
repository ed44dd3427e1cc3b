----------------------------- MODULE ProducerLoop -----------------------------
(***************************************************************************)
(* The production loop of producer_plugin: which block a node works on,    *)
(* the timer that ships it or wakes the node for its next slot, and what   *)
(* interrupts the two: received blocks, pausing, a policy on old           *)
(* irreversible blocks, failures.                                          *)
(*                                                                         *)
(* Handlers run one at a time on the application's event loop.  A timer    *)
(* that has expired is a handler in that queue and can no longer be        *)
(* cancelled; the handler knows itself outdated by its correlation id.     *)
(* Only whether that id is still the newest matters, so that a queued      *)
(* handler has a flag `current` in place of the number.                    *)
(*                                                                         *)
(* Time has two units a slot: an even time is the beginning of a slot, an  *)
(* odd one its last tenth (start_block does not begin a block with less    *)
(* than that left).  The schedule does not change.  The chain is its head: *)
(* a number and a slot.  A received block extends it, makes the controller *)
(* switch to another branch, is stored without becoming the head, or is    *)
(* rejected.                                                               *)
(***************************************************************************)
EXTENDS Integers, Sequences, FiniteSets

CONSTANTS Schedule,     \* active_schedule.producers
          Reps,         \* config::producer_repetitions
          Local,        \* _producers
          Future,       \* slots a received block may be ahead of the clock
          MaxSlot,      \* bound: last slot
          MaxReceived,  \* bound: blocks received
          MaxFailures,  \* bound: blocks that cannot be started or signed
          MaxSwitches   \* bound: pausing, changes of the policy

ASSUME ProducerLoopAssumption ==
  /\ Schedule \in Seq(STRING) /\ Len(Schedule) > 0
  /\ \A i, j \in DOMAIN Schedule : Schedule[i] = Schedule[j] => i = j
  /\ Local \subseteq {Schedule[i] : i \in DOMAIN Schedule}
  /\ Reps \in Nat \ {0} /\ Future \in Nat
  /\ MaxSlot \in Nat \ {0}
  /\ MaxReceived \in Nat /\ MaxFailures \in Nat /\ MaxSwitches \in Nat

VARIABLES
  time,       \* the clock
  head,       \* the head block: [num, slot]
  pending,    \* the pending block: its slot, how many blocks it confirms, whether it
              \* is full, and the head it was begun on; NoPending if there is none
  mode,       \* _pending_block_mode
  timer,      \* the timer's handler and when it expires, or none
  queued,     \* handlers of expired timers, on the event loop
  watermark,  \* _producer_watermarks; 0 if there is none
  enabled,    \* _production_enabled
  paused,     \* _pause_production
  lib_old,    \* the irreversible block is older than _max_irreversible_block_age_us
  confirmed,  \* history: the numbers each producer has confirmed in its blocks
  made,       \* history: the slots blocks were made for
  excused,    \* history: slots that there was a reason not to make a block for
  left        \* what the bounds still allow

flags == <<enabled, paused, lib_old>>
vars == <<time, head, pending, mode, timer, queued, watermark, flags, confirmed,
          made, excused, left>>

Slot == time \div 2
Late == time % 2 = 1
NoTimer == [kind |-> "none", due |-> 0]
NoBase == [num |-> 0, slot |-> 0]
NoPending == [slot |-> 0, confirms |-> 0, full |-> FALSE, base |-> NoBase]

Max(m, n) == IF m > n THEN m ELSE n

-------------------------------------------------------------------------------
(* get_scheduled_producer *)
Index(slot) == (slot % (Len(Schedule) * Reps)) \div Reps
scheduled(slot) == Schedule[Index(slot) + 1]
Ours(slot) == scheduled(slot) \in Local

production_disabled_by_policy(en, pa, ol) == ~en \/ pa \/ ol

(* The slot of the block that start_block begins on head h. *)
block_slot(h) ==
  LET next == Max(Slot, h.slot) + 1
  IN IF Late /\ next = Slot + 1 THEN next + 1 ELSE next

(* Mutant: a block of the watermark's own number may be made. *)
may_produce_again(h, slot, en, pa, ol) ==
  /\ ~production_disabled_by_policy(en, pa, ol)
  /\ Ours(slot)
  /\ watermark'[scheduled(slot)] <= h.num + 1

may_produce(h, slot, en, pa, ol) ==
  /\ ~production_disabled_by_policy(en, pa, ol)
  /\ Ours(slot)
  /\ watermark'[scheduled(slot)] < h.num + 1

blocks_to_confirm(h, p) ==
  IF watermark'[p] # 0 /\ watermark'[p] < h.num THEN h.num - watermark'[p] ELSE 0

(* Mutant: slots are not aligned to the runs of a producer. *)
next_block_slot_unaligned(p, pend, num) ==
  LET offset == IF watermark'[p] > num THEN watermark'[p] - num + 1 ELSE 1
      first == pend + offset
      mine == CHOOSE i \in 0..(Len(Schedule) - 1) : Schedule[i + 1] = p
      distance == (mine + Len(Schedule) - Index(first)) % Len(Schedule)
  IN first + distance * Reps

(* calculate_next_block_time, for a pending block of slot pend and number  *)
(* num.                                                                    *)
next_block_slot(p, pend, num) ==
  LET offset == IF watermark'[p] > num THEN watermark'[p] - num + 1 ELSE 1
      first == pend + offset
      mine == CHOOSE i \in 0..(Len(Schedule) - 1) : Schedule[i + 1] = p
      distance == IF mine >= Index(first) THEN mine - Index(first)
                  ELSE mine - Index(first) + Len(Schedule)
  IN IF distance = 0 THEN first ELSE first - (first % Reps) + distance * Reps

(* A block interval before the first slot of a local producer. *)
wake_up_slot(pend, num) ==
  LET slots == {next_block_slot(p, pend, num) : p \in Local}
  IN CHOOSE s \in slots : \A r \in slots : s <= r

(* ++_timer_corelation_id: the handlers in the queue are outdated. *)
superseded(handlers) == {[x EXCEPT !.current = FALSE] : x \in handlers}

(* schedule_production_loop, with its start_block, on head h and with the  *)
(* given flags; the handlers in `others` are left in the queue.  A new     *)
(* async_wait has a new correlation id, and older handlers are outdated;   *)
(* without one they are not.  Slots `why` may be missed.                   *)
schedule_production_loop(h, others, en, pa, ol, bounds, why) ==
  LET slot == block_slot(h)
      produces == may_produce(h, slot, en, pa, ol)
      block(confirms, full) ==
        [slot |-> slot, confirms |-> confirms, full |-> full, base |-> h]
      async_wait(kind, due) ==
        /\ timer' = [kind |-> kind, due |-> due]
        /\ queued' = superseded(others)
  IN /\ mode' = IF produces THEN "producing" ELSE "speculating"
     /\ \/ \* start_block fails: try again after a tenth of a slot
           /\ bounds.failures > 0
           /\ pending' = NoPending
           /\ async_wait("retry", time + 1)
           /\ left' = [bounds EXCEPT !.failures = @ - 1]
           /\ excused' = excused \cup why \cup {Slot + 1, Slot + 2}
        \/ \* our slot: ship the block at its time, or at once if it is full
           /\ produces
           /\ \E full \in (IF slot <= MaxSlot THEN BOOLEAN ELSE {FALSE}) :
                /\ pending' = block(blocks_to_confirm(h, scheduled(slot)), full)
                /\ async_wait("produce", IF full THEN time ELSE 2 * slot)
           /\ left' = bounds /\ excused' = excused \cup why
        \/ \* not our slot: wake up in time for the next one that is
           /\ ~produces
           /\ pending' = block(0, FALSE)
           /\ IF Local = {} \/ production_disabled_by_policy(en, pa, ol)
              THEN timer' = NoTimer /\ queued' = others
              ELSE async_wait("wake", 2 * (wake_up_slot(slot, h.num + 1) - 1))
           /\ left' = bounds /\ excused' = excused \cup why \cup {slot}

-------------------------------------------------------------------------------
(* plugin_startup calls schedule_production_loop: a handler that is due. *)
Init ==
  /\ time = 2 /\ head = [num |-> 1, slot |-> 1]
  /\ pending = NoPending /\ mode = "speculating"
  /\ timer = [kind |-> "retry", due |-> 2] /\ queued = {}
  /\ watermark = [p \in Local |-> 0]
  /\ enabled \in BOOLEAN /\ paused = FALSE /\ lib_old = FALSE
  /\ confirmed = [p \in Local |-> {}] /\ made = {} /\ excused = {1}
  /\ left = [received |-> MaxReceived, failures |-> MaxFailures, switches |-> MaxSwitches]

Disabled == production_disabled_by_policy(enabled, paused, lib_old)

(* Time passes, unless a timer is due or its handler waits: the event loop *)
(* is not overloaded.  While production is off, or a watermark stands      *)
(* against it, slots may be missed; so may those at or before the head.    *)
Tick ==
  /\ time < 2 * MaxSlot
  /\ timer.kind # "none" => timer.due > time
  /\ \A h \in queued : ~h.current
  /\ time' = time + 1
  /\ excused' = excused \cup {s \in 1..(Slot + 2) :
       \/ s <= head.slot
       \/ s > Slot /\ (Disabled \/ (Ours(s) /\ watermark[scheduled(s)] > head.num))}
  /\ UNCHANGED <<head, pending, mode, timer, queued, watermark, flags, confirmed, made, left>>

(* A timer expires: its handler can no longer be cancelled. *)
Expire ==
  /\ timer.kind # "none" /\ timer.due <= time
  /\ queued' = queued \cup {[kind |-> timer.kind, current |-> TRUE]}
  /\ timer' = NoTimer
  /\ UNCHANGED <<time, head, pending, mode, watermark, flags, confirmed, made, excused, left>>

(* A handler that is outdated does nothing. *)
Outdated(h) ==
  /\ h \in queued /\ ~h.current
  /\ queued' = queued \ {h}
  /\ UNCHANGED <<time, head, pending, mode, timer, watermark, flags, confirmed, made,
                 excused, left>>

(* The handlers that start the loop again. *)
Wake(h) ==
  /\ h \in queued /\ h.current /\ h.kind \in {"wake", "retry"}
  /\ UNCHANGED <<time, head, watermark, flags, confirmed, made>>
  /\ schedule_production_loop(head, queued \ {h}, enabled, paused, lib_old, left, {})

(* produce_block: finalize, sign and commit the pending block, and take    *)
(* note of it.  The schedule does not change here, so that there are no    *)
(* newly installed producers to give a watermark to.                       *)
Produced(h) ==
  LET p == scheduled(pending.slot)
      num == pending.base.num + 1
  IN /\ mode = "producing" /\ pending # NoPending
     /\ head' = [num |-> num, slot |-> pending.slot]
     /\ watermark' = [watermark EXCEPT ![p] = num]
     /\ confirmed' = [confirmed EXCEPT ![p] = @ \cup (num - pending.confirms)..num]
     /\ made' = made \cup {pending.slot}
     /\ lib_old' \in {lib_old, FALSE}
     /\ UNCHANGED <<time, enabled, paused>>
     /\ schedule_production_loop(head', queued \ {h}, enabled, paused, lib_old', left, {})

(* Mutant: the handler does not look at its correlation id. *)
Ship_any(h) ==
  /\ h \in queued /\ h.kind = "produce"
  /\ Produced(h)

(* maybe_produce_block.  produce_block refuses if the mode has changed,    *)
(* and may fail; the pending block is then aborted.                        *)
Ship(h) ==
  /\ h \in queued /\ h.current /\ h.kind = "produce"
  /\ \/ Produced(h)
     \/ /\ mode = "producing" => left.failures > 0
        /\ UNCHANGED <<time, head, watermark, flags, confirmed, made>>
        /\ schedule_production_loop(head, queued \ {h}, enabled, paused, lib_old,
             IF mode = "producing" THEN [left EXCEPT !.failures = @ - 1] ELSE left,
             {pending.slot})

(* What a call that aborts the pending block may cost: the slot that is    *)
(* due, or in its last tenth the next one.                                 *)
Cost == IF Late THEN {Slot + 1} ELSE {Slot}

(* The heads a received block may lead to.  It was not made by this node,  *)
(* and its time is not too far in the future.                              *)
NewHeads ==
  {h \in [num : 1..(head.num + 1), slot : 2..(Slot + Future)] :
     /\ ~Ours(h.slot)
     /\ h.slot >= h.num}

(* on_incoming_block, for a block that is not known and not from the       *)
(* future; h is the head after push_block.                                 *)
on_incoming_block(h, accepted) ==
  /\ left.received > 0
  /\ head' = h
  /\ enabled' = (enabled \/ (accepted /\ 2 * (h.slot + 1) >= time))
  /\ lib_old' \in (IF accepted THEN {lib_old, FALSE} ELSE {lib_old})
  /\ UNCHANGED <<time, watermark, paused, confirmed, made>>
  /\ schedule_production_loop(h, queued, enabled', paused, lib_old',
       [left EXCEPT !.received = @ - 1], Cost)

Switched == [left EXCEPT !.switches = @ - 1]

pause ==
  /\ left.switches > 0 /\ ~paused
  /\ paused' = TRUE /\ left' = Switched
  /\ UNCHANGED <<time, head, pending, mode, timer, queued, watermark, enabled, lib_old,
                 confirmed, made, excused>>

(* Mutant: the loop is not started again. *)
resume_only ==
  /\ paused
  /\ paused' = FALSE
  /\ UNCHANGED <<time, head, pending, mode, timer, queued, watermark, enabled, lib_old,
                 confirmed, made, excused, left>>

resume ==
  /\ paused
  /\ paused' = FALSE
  /\ UNCHANGED <<time, head, watermark, enabled, lib_old, confirmed, made>>
  /\ IF mode = "speculating"
     THEN schedule_production_loop(head, queued, enabled, FALSE, lib_old, left, Cost)
     ELSE UNCHANGED <<pending, mode, timer, queued, excused, left>>

(* update_runtime_options with a max_irreversible_block_age that the       *)
(* irreversible block does, or does not, exceed.                           *)
update_runtime_options(exceeded) ==
  /\ left.switches > 0
  /\ lib_old' = exceeded
  /\ UNCHANGED <<time, head, watermark, enabled, paused, confirmed, made>>
  /\ IF mode = "speculating"
     THEN schedule_production_loop(head, queued, enabled, paused, exceeded, Switched, Cost)
     ELSE left' = Switched /\ UNCHANGED <<pending, mode, timer, queued, excused>>

(* The irreversible block grows older than the policy allows. *)
LibAges ==
  /\ left.switches > 0 /\ ~lib_old
  /\ lib_old' = TRUE /\ left' = Switched
  /\ UNCHANGED <<time, head, pending, mode, timer, queued, watermark, enabled, paused,
                 confirmed, made, excused>>

Next ==
  \/ Tick \/ Expire
  \/ \E h \in queued : Outdated(h) \/ Wake(h) \/ Ship(h)
  \/ \E h \in NewHeads : on_incoming_block(h, TRUE)
  \/ \E accepted \in BOOLEAN : on_incoming_block(head, accepted)
  \/ pause \/ resume \/ LibAges
  \/ \E exceeded \in BOOLEAN : update_runtime_options(exceeded)

Spec == Init /\ [][Next]_vars

-------------------------------------------------------------------------------
Blocks == [num : Nat, slot : Nat]

(* Type correctness. *)
TypeOK ==
  /\ time \in 2..(2 * MaxSlot) /\ head \in Blocks
  /\ pending \in [slot : Nat, confirms : Nat, full : BOOLEAN, base : Blocks]
  /\ mode \in {"producing", "speculating"}
  /\ timer \in [kind : {"none", "wake", "retry", "produce"}, due : Nat]
  /\ queued \subseteq [kind : {"wake", "retry", "produce"}, current : BOOLEAN]
  /\ Cardinality({h \in queued : h.current}) <= 1
  /\ watermark \in [Local -> Nat]
  /\ enabled \in BOOLEAN /\ paused \in BOOLEAN /\ lib_old \in BOOLEAN

(* A block that is shipped extends the head, and its time has come, unless *)
(* it is full: a timer that was set for an earlier pending block, and      *)
(* could not be cancelled, never ships the present one.                    *)
ShipsWhenDue ==
  [][made' # made => /\ pending.base = head
                     /\ pending.full \/ time = 2 * pending.slot]_vars

(* A producer confirms each block number at most once, whichever forks its *)
(* blocks are on: what a block confirms, itself included, is above all     *)
(* that the producer confirmed before.  Irreversibility of blocks rests on *)
(* it.                                                                     *)
ConfirmsOnce ==
  [][made' # made =>
       LET p == scheduled(pending.slot)
           num == pending.base.num + 1
       IN \A n \in confirmed[p] : n < num - pending.confirms]_vars

(* While production is not off, a timer or a handler that is not outdated  *)
(* will run the loop again; and only while it is to try again after a      *)
(* failure is there no pending block, which on_incoming_transaction_async  *)
(* does not allow for.                                                     *)
Alive(kinds) == timer.kind \in kinds \/ \E h \in queued : h.current /\ h.kind \in kinds

LoopArmed ==
  /\ ~Disabled /\ Local # {} => Alive({"wake", "retry", "produce"})
  /\ pending = NoPending => Alive({"retry"})
  /\ mode = "producing" => Alive({"retry", "produce"})

(* No slot of a local producer is slept through: a block was made for it,  *)
(* or production was off, a watermark stood against it, the chain was      *)
(* ahead, a block could not be started or signed, or a call aborted the    *)
(* pending block when it was due or too late to begin it again.            *)
NoSlotMissed == \A s \in 1..MaxSlot : Ours(s) /\ 2 * s < time => s \in made \cup excused
===============================================================================
