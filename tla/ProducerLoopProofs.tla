-------------------------- MODULE ProducerLoopProofs --------------------------
(***************************************************************************)
(* Proofs about the production loop, for every schedule, every set of      *)
(* local producers and every bound: the types, that the loop is armed      *)
(* (LoopArmed), that no outdated timer ships a block (ShipsWhenDue), that  *)
(* a producer confirms each number once (ConfirmsOnce), and that no slot   *)
(* of a local producer is slept through (NoSlotMissed).                    *)
(*                                                                         *)
(* The argument.  Every action that changes the head, the pending block or *)
(* the watermarks ends in schedule_production_loop, so that one lemma      *)
(* about it (Scheduled) serves all of them.  What it leaves behind is      *)
(* OneCurrent, PendingInv and DueInv; the other actions only move a timer  *)
(* into the queue, or time, or the flags.  For NoSlotMissed the lemma is   *)
(* SlotsScheduled: whatever timer is set goes off in time for every slot   *)
(* that is not handled yet (InTime), since calculate_next_block_time       *)
(* passes over none that the watermark allows (NoneBefore).                *)
(***************************************************************************)
EXTENDS ProducerLoop, FiniteSetTheorems, WellFoundedInduction, TLAPS

(* Of all timers and handlers at most one is not outdated. *)
OneCurrent ==
  /\ timer.kind # "none" => \A x \in queued : ~x.current
  /\ \A x, y \in queued : x.current /\ y.current => x = y

(* The block that is being produced is on the head, in a slot of a local   *)
(* producer whose watermark allows it, and confirms the blocks since that  *)
(* watermark.                                                              *)
Begun ==
  LET wm == watermark[scheduled(pending.slot)]
  IN /\ pending.base = head
     /\ Ours(pending.slot)
     /\ wm <= head.num
     /\ pending.confirms = IF wm # 0 /\ wm < head.num THEN head.num - wm ELSE 0

PendingInv == mode = "producing" /\ pending # NoPending => Begun

(* The timer of that block is set for its slot, and has not been passed;   *)
(* or for at once, if the block is full.                                   *)
DueInv ==
  /\ mode = "producing" /\ timer.kind = "produce" =>
       time <= timer.due /\ (pending.full \/ timer.due = 2 * pending.slot)
  /\ \A x \in queued :
       mode = "producing" /\ x.current /\ x.kind = "produce" =>
         pending.full \/ time = 2 * pending.slot

(* The watermark of a producer is the highest number it has confirmed. *)
ConfirmedInv ==
  /\ confirmed \in [Local -> SUBSET Int]
  /\ \A p \in Local : \A n \in confirmed[p] : watermark[p] # 0 /\ n <= watermark[p]

Pendings == [slot : Nat, confirms : Nat, full : BOOLEAN, base : Blocks]
Timers == [kind : {"none", "wake", "retry", "produce"}, due : Nat]
Handlers == [kind : {"wake", "retry", "produce"}, current : BOOLEAN]

(* What schedule_production_loop leaves behind, whatever it did. *)
Rearmed ==
  /\ pending \in Pendings /\ mode \in {"producing", "speculating"}
  /\ timer \in Timers /\ queued \in SUBSET Handlers
  /\ OneCurrent /\ PendingInv /\ DueInv /\ LoopArmed

(* The inductive invariant. *)
IInv ==
  /\ time \in 2..(2 * MaxSlot) /\ head \in Blocks /\ watermark \in [Local -> Nat]
  /\ enabled \in BOOLEAN /\ paused \in BOOLEAN /\ lib_old \in BOOLEAN
  /\ Rearmed /\ ConfirmedInv

-------------------------------------------------------------------------------
(* A slot has two units of time. *)
LEMMA SlotFacts ==
  ASSUME time \in Nat
  PROVE  /\ Slot \in Nat /\ 2 * Slot <= time /\ time <= 2 * Slot + 1
         /\ Late => time = 2 * Slot + 1
BY DEF Slot, Late

(* A block is begun for a slot that has not begun. *)
LEMMA BlockSlot ==
  ASSUME time \in Nat, NEW h \in Blocks
  PROVE  /\ block_slot(h) \in Nat /\ block_slot(h) >= 1
         /\ time <= 2 * block_slot(h)
<1>1. Slot \in Nat /\ time <= 2 * Slot + 1
  BY SlotFacts
<1>2. h.slot \in Nat
  BY DEF Blocks
<1> QED
  BY <1>1, <1>2 DEF block_slot, Max

LEMMA Times ==
  ASSUME NEW m \in Nat, NEW n \in Nat, n >= 1
  PROVE  n * m \in Nat /\ n * m >= m
<1>1. n - 1 \in Nat /\ n * m = (n - 1) * m + m
  OBVIOUS
<1>2. (n - 1) * m \in Nat
  BY <1>1
<1> QED
  BY <1>1, <1>2

(* get_scheduled_producer stays within the schedule. *)
LEMMA IndexRange ==
  ASSUME NEW slot \in Nat
  PROVE  Index(slot) \in 0..(Len(Schedule) - 1)
<1> DEFINE L == Len(Schedule)
           x == slot % (L * Reps)
           q == x \div Reps
<1>1. L \in Nat \ {0} /\ Reps \in Nat \ {0}
  BY ProducerLoopAssumption
<1>2. L * Reps \in Nat \ {0}
  BY <1>1, Times
<1>3. x \in 0..(L * Reps - 1)
  BY <1>2
<1>4. q \in Nat /\ q * Reps <= x
  BY <1>1, <1>3
<1>5. ASSUME q >= L PROVE FALSE
  <2>1. q - L \in Nat /\ q * Reps = L * Reps + (q - L) * Reps
    BY <1>1, <1>4, <1>5
  <2>2. (q - L) * Reps \in Nat
    BY <2>1, <1>1
  <2> QED
    BY <1>2, <1>3, <1>4, <2>1, <2>2
<1> QED
  BY <1>1, <1>4, <1>5 DEF Index

(* calculate_next_block_time finds a later slot. *)
LEMMA NextBlockSlot ==
  ASSUME NEW p \in Local, NEW pend \in Nat, NEW num \in Nat,
         watermark' \in [Local -> Nat]
  PROVE  next_block_slot(p, pend, num) \in Nat /\ next_block_slot(p, pend, num) > pend
<1> DEFINE offset == IF watermark'[p] > num THEN watermark'[p] - num + 1 ELSE 1
           first == pend + offset
           mine == CHOOSE i \in 0..(Len(Schedule) - 1) : Schedule[i + 1] = p
           distance == IF mine >= Index(first) THEN mine - Index(first)
                       ELSE mine - Index(first) + Len(Schedule)
<1>1. offset \in Nat /\ offset >= 1
  BY watermark'[p] \in Nat
<1>2. first \in Nat /\ first > pend
  BY <1>1
<1>3. Len(Schedule) \in Nat \ {0} /\ Reps \in Nat \ {0}
  BY ProducerLoopAssumption
<1>4. mine \in 0..(Len(Schedule) - 1)
  <2>1. PICK j \in DOMAIN Schedule : Schedule[j] = p
    BY ProducerLoopAssumption
  <2>2. j \in 1..Len(Schedule)
    BY <2>1, ProducerLoopAssumption
  <2>3. j - 1 \in 0..(Len(Schedule) - 1) /\ (j - 1) + 1 = j
    BY <2>2, <1>3
  <2>4. \E i \in 0..(Len(Schedule) - 1) : Schedule[i + 1] = p
    BY <2>1, <2>3
  <2> QED
    BY <2>4
<1>5. Index(first) \in 0..(Len(Schedule) - 1)
  BY <1>2, IndexRange
<1>6. distance \in Nat
  BY <1>3, <1>4, <1>5
<1>7. CASE distance = 0
  BY <1>2, <1>7 DEF next_block_slot
<1>8. CASE distance # 0
  <2>1. distance * Reps \in Nat /\ distance * Reps >= Reps
    <3> HIDE DEF distance
    <3>1. distance >= 1
      BY <1>6, <1>8
    <3> QED
      BY <1>3, <1>6, <3>1, Times
  <2>2. first % Reps \in 0..(Reps - 1)
    BY <1>2, <1>3, SMTT(60)
  <2>3. next_block_slot(p, pend, num) = first - (first % Reps) + distance * Reps
    BY <1>8 DEF next_block_slot
  <2> HIDE DEF first, distance
  <2> QED
    BY <1>2, <1>3, <2>1, <2>2, <2>3
<1> QED
  BY <1>7, <1>8

(* A set of naturals has a least element. *)
LEMMA Least ==
  ASSUME NEW S \in SUBSET Nat, S # {}
  PROVE  \E m \in S : \A n \in S : m <= n
<1>1. IsWellFoundedOn(OpToRel(<, Nat), Nat)
  BY NatLessThanWellFounded
<1>2. PICK m \in S : \A n \in S : ~(<<n, m>> \in OpToRel(<, Nat))
  BY <1>1, WFMin
<1>3. ASSUME NEW n \in S PROVE m <= n
  <2>1. ~(n < m)
    BY <1>2 DEF OpToRel
  <2> QED
    BY <2>1
<1> QED
  BY <1>3

LEMMA WakeUpSlot ==
  ASSUME Local # {}, NEW pend \in Nat, NEW num \in Nat, watermark' \in [Local -> Nat]
  PROVE  wake_up_slot(pend, num) \in Nat /\ wake_up_slot(pend, num) > pend
<1> DEFINE slots == {next_block_slot(p, pend, num) : p \in Local}
<1>1. \A s \in slots : s \in Nat /\ s > pend
  BY NextBlockSlot
<1>2. slots \in SUBSET Nat /\ slots # {}
  BY <1>1
<1>3. \E m \in slots : \A n \in slots : m <= n
  <2> HIDE DEF slots
  <2> QED BY <1>2, Least
<1>4. wake_up_slot(pend, num) \in slots
  <2>1. wake_up_slot(pend, num) = CHOOSE s \in slots : \A r \in slots : s <= r
    BY Zenon DEF wake_up_slot
  <2> HIDE DEF slots
  <2> QED BY <1>3, <2>1
<1> QED
  BY <1>1, <1>4

-------------------------------------------------------------------------------
LEMMA DivMod ==
  ASSUME NEW s \in Nat, NEW n \in Nat \ {0}
  PROVE  /\ s % n \in 0..(n - 1) /\ s \div n \in Nat
         /\ s = (s \div n) * n + (s % n)
<1>1. s % n \in 0..(n - 1)
  BY SMTT(60)
<1>2. s \div n \in Nat
  BY SMTT(60)
<1>3. s = (s \div n) * n + (s % n)
  BY SMTT(60)
<1> QED
  BY <1>1, <1>2, <1>3

(* Multiples of n are in the order of their factors. *)
LEMMA Multiples ==
  ASSUME NEW n \in Nat \ {0}, NEW a \in Nat, NEW b \in Nat, NEW c \in Nat, NEW d \in 0..(n - 1)
  PROVE  /\ a * n \in Nat
         /\ a < b => a * n + n <= b * n
         /\ a <= b => a * n <= b * n
         /\ a * n <= b * n + d => a <= b
         /\ a * n + d < b * n => a < b
<1>1. a * n \in Nat /\ b * n \in Nat
  OBVIOUS
<1>2. ASSUME NEW i \in Nat, NEW j \in Nat, i < j PROVE i * n + n <= j * n
  <2>1. j - i \in Nat /\ j - i >= 1
    BY <1>2
  <2>2. (j - i) * n >= n
    BY <2>1, Times
  <2>3. (j - i) * n = j * n - i * n
    OBVIOUS
  <2>4. i * n \in Int /\ j * n \in Int
    OBVIOUS
  <2> QED BY <2>2, <2>3, <2>4
<1>3. a < b => a * n + n <= b * n
  BY <1>2
<1>4. b < a => b * n + n <= a * n
  BY <1>2
<1>5. a = b => a * n = b * n
  OBVIOUS
<1>6. PICK x \in Nat : x = a * n
  BY <1>1
<1>7. PICK y \in Nat : y = b * n
  BY <1>1
<1> QED
  BY <1>3, <1>4, <1>5, <1>6, <1>7

(* A slot is in some place of a turn of a producer; turns follow each      *)
(* other in the order of the schedule, round after round.                  *)
LEMMA Turns ==
  ASSUME NEW s \in Nat
  PROVE  \E q \in Nat, b \in 0..(Reps - 1) :
           /\ s = (q * Len(Schedule) + Index(s)) * Reps + b
           /\ q * Len(Schedule) + Index(s) \in Nat
<1> DEFINE L == Len(Schedule)
           x == s % (L * Reps)
           q == s \div (L * Reps)
           i == x \div Reps
           b == x % Reps
<1>1. L \in Nat \ {0} /\ Reps \in Nat \ {0}
  BY ProducerLoopAssumption
<1>2. L * Reps \in Nat \ {0}
  BY <1>1, Times
<1>3. x \in Nat /\ q \in Nat /\ s = q * (L * Reps) + x
  <2> DEFINE n == L * Reps
  <2>1. n \in Nat \ {0}
    BY <1>2
  <2> HIDE DEF n
  <2>2. /\ s % n \in 0..(n - 1) /\ s \div n \in Nat
        /\ s = (s \div n) * n + (s % n)
    BY <2>1, DivMod
  <2>3. s % n \in Nat
    BY <2>1, <2>2
  <2> QED
    BY <2>2, <2>3 DEF n
<1>4. i \in Nat /\ b \in 0..(Reps - 1) /\ x = i * Reps + b
  <2> HIDE DEF x
  <2> QED BY <1>1, <1>3, DivMod
<1>5. Index(s) = i
  BY DEF Index
<1> HIDE DEF x, q, i, b, L
<1>6. q * (L * Reps) = (q * L) * Reps /\ q * L \in Nat
  BY <1>1, <1>3
<1>7. (q * L + i) * Reps = (q * L) * Reps + i * Reps
  <2>1. PICK n \in Nat : n = q * L
    BY <1>6
  <2> QED BY <1>1, <1>4, <2>1
<1>8. s = (q * L + i) * Reps + b
  <2>1. (q * L) * Reps \in Nat /\ i * Reps \in Nat
    BY <1>1, <1>4, <1>6
  <2> QED BY <1>3, <1>4, <1>6, <1>7, <2>1
<1> QED
  BY <1>3, <1>4, <1>5, <1>6, <1>8 DEF L

(* A number is in one place of one turn. *)
LEMMA OnePlace ==
  ASSUME NEW n \in Nat \ {0}, NEW a \in Nat, NEW b \in 0..(n - 1)
  PROVE  (a * n + b) % n = b
<1> DEFINE s == a * n + b
           q == s \div n
           r == s % n
<1>1. a * n \in Nat
  OBVIOUS
<1>2. s \in Nat
  BY <1>1
<1>3. r \in 0..(n - 1) /\ q \in Nat /\ s = q * n + r
  <2> HIDE DEF s
  <2> QED BY <1>2, DivMod
<1> HIDE DEF q, r
<1>4. PICK x \in Nat : x = a * n
  BY <1>1
<1>5. PICK y \in Nat : y = q * n
  BY <1>3
<1>6. /\ a < q => a * n + n <= q * n
      /\ q < a => q * n + n <= a * n
  BY <1>3, Multiples
<1>7. x + b = y + r
  BY <1>3, <1>4, <1>5
<1>8. ~(a < q) /\ ~(q < a)
  BY <1>3, <1>4, <1>5, <1>6, <1>7
<1>9. a = q
  BY <1>3, <1>8
<1> QED
  BY <1>3, <1>4, <1>5, <1>7, <1>9 DEF r

(* A producer has one place in the schedule. *)
LEMMA MyPlace ==
  ASSUME NEW s \in Nat
  PROVE  Index(s) = CHOOSE i \in 0..(Len(Schedule) - 1) : Schedule[i + 1] = scheduled(s)
<1> DEFINE P(i) == i \in 0..(Len(Schedule) - 1) /\ Schedule[i + 1] = scheduled(s)
           m == CHOOSE i \in 0..(Len(Schedule) - 1) : Schedule[i + 1] = scheduled(s)
<1>1. P(Index(s))
  BY IndexRange DEF scheduled
<1>2. P(m)
  BY <1>1
<1>3. Len(Schedule) \in Nat /\ DOMAIN Schedule = 1..Len(Schedule)
  BY ProducerLoopAssumption
<1> HIDE DEF m
<1>4. m \in Int /\ Index(s) \in Int /\ m + 1 \in DOMAIN Schedule /\ Index(s) + 1 \in DOMAIN Schedule
  BY <1>1, <1>2, <1>3
<1>5. m + 1 = Index(s) + 1
  BY <1>1, <1>2, <1>4, ProducerLoopAssumption
<1>6. m = Index(s)
  BY <1>4, <1>5
<1> QED
  BY <1>6 DEF m

(* calculate_next_block_time passes over no slot of the producer that the  *)
(* producer's watermark allows.                                            *)
LEMMA NoneBefore ==
  ASSUME NEW p \in Local, NEW pend \in Nat, NEW num \in Nat,
         watermark' \in [Local -> Nat],
         NEW s \in Nat, s > pend, s < next_block_slot(p, pend, num), scheduled(s) = p
  PROVE  watermark'[p] > num
<1> SUFFICES ASSUME ~(watermark'[p] > num) PROVE FALSE
  OBVIOUS
<1> DEFINE L == Len(Schedule)
           first == pend + 1
           m == Index(s)
           i == Index(first)
           d == IF m >= i THEN m - i ELSE m - i + L
<1>1. next_block_slot(p, pend, num) =
        IF d = 0 THEN first ELSE first - (first % Reps) + d * Reps
  <2> DEFINE offset == IF watermark'[p] > num THEN watermark'[p] - num + 1 ELSE 1
             mine == CHOOSE k \in 0..(Len(Schedule) - 1) : Schedule[k + 1] = p
             start == pend + offset
             distance == IF mine >= Index(start) THEN mine - Index(start)
                         ELSE mine - Index(start) + Len(Schedule)
  <2>1. next_block_slot(p, pend, num) =
          IF distance = 0 THEN start ELSE start - (start % Reps) + distance * Reps
    BY DEF next_block_slot
  <2>2. start = first
    OBVIOUS
  <2>3. mine = m
    BY MyPlace
  <2> HIDE DEF start, mine, first, m
  <2> QED
    BY <2>1, <2>2, <2>3
<1>2. L \in Nat \ {0} /\ Reps \in Nat \ {0}
  BY ProducerLoopAssumption
<1>3. first \in Nat /\ first <= s
  OBVIOUS
<1>4. m \in 0..(L - 1) /\ i \in 0..(L - 1)
  BY <1>3, IndexRange
<1>5. PICK q \in Nat, b \in 0..(Reps - 1) :
        first = (q * L + i) * Reps + b /\ q * L + i \in Nat
  BY <1>3, Turns
<1>6. PICK r \in Nat, c \in 0..(Reps - 1) :
        s = (r * L + m) * Reps + c /\ r * L + m \in Nat
  BY Turns
<1> HIDE DEF L, first, m, i
<1>7. d \in Nat
  BY <1>2, <1>4
<1>8. s < first - (first % Reps) + d * Reps
  <2>1. d # 0
    BY <1>1, <1>3
  <2> QED
    BY <1>1, <2>1
<1>9. PICK x \in Nat : x = q * L
  BY <1>2, <1>5
<1>10. PICK y \in Nat : y = r * L
  BY <1>2, <1>6
<1> DEFINE A == x + i
           B == y + m
<1>11. A \in Nat /\ B \in Nat /\ first = A * Reps + b /\ s = B * Reps + c
  BY <1>4, <1>5, <1>6, <1>9, <1>10
<1> HIDE DEF A, B, d
<1>12. first % Reps = b
  BY <1>2, <1>5, <1>11, OnePlace
<1>13. A * Reps \in Nat /\ B * Reps \in Nat /\ d * Reps \in Nat
  BY <1>2, <1>7, <1>11
<1>14. (A + d) * Reps = A * Reps + d * Reps
  BY <1>2, <1>7, <1>11
<1>15. A <= B
  <2>1. A * Reps <= B * Reps + c
    BY <1>3, <1>5, <1>6, <1>11, <1>13
  <2> QED
    BY <2>1, <1>2, <1>6, <1>11, Multiples
<1>16. B < A + d
  <2>1. B * Reps + c < (A + d) * Reps
    BY <1>5, <1>6, <1>8, <1>11, <1>12, <1>13, <1>14
  <2>2. A + d \in Nat
    BY <1>7, <1>11
  <2> QED
    BY <2>1, <2>2, <1>2, <1>6, <1>11, Multiples
<1>17. x + i <= y + m /\ y + m < x + i + d
  BY <1>15, <1>16 DEF A, B
<1>18. CASE m >= i
  <2>1. y < x
    BY <1>4, <1>9, <1>10, <1>17, <1>18, <1>2 DEF d
  <2>2. r < q
    <3>1. r * L + 0 < q * L /\ 0 \in 0..(L - 1)
      BY <2>1, <1>2, <1>9, <1>10
    <3> QED
      BY <3>1, <1>2, <1>5, <1>6, Multiples
  <2>3. y + L <= x
    BY <2>2, <1>2, <1>5, <1>6, <1>9, <1>10, Multiples
  <2> QED
    BY <2>3, <1>2, <1>4, <1>9, <1>10, <1>17
<1>19. CASE m < i
  <2>1. y < x + L
    BY <1>4, <1>9, <1>10, <1>17, <1>19, <1>2 DEF d
  <2>2. q + 1 \in Nat /\ (q + 1) * L = x + L
    BY <1>2, <1>5, <1>9
  <2>3. r < q + 1
    <3>1. r * L + 0 < (q + 1) * L /\ 0 \in 0..(L - 1)
      BY <2>1, <2>2, <1>2, <1>9, <1>10
    <3> QED
      BY <3>1, <2>2, <1>2, <1>5, <1>6, Multiples
  <2>4. r <= q
    BY <2>3, <1>5, <1>6
  <2>5. y <= x
    BY <2>4, <1>2, <1>5, <1>6, <1>9, <1>10, Multiples
  <2> QED
    BY <2>5, <1>2, <1>4, <1>9, <1>10, <1>17, <1>19
<1> QED
  BY <1>4, <1>18, <1>19

(* The wake-up is not after the next slot of any local producer. *)
LEMMA WakeUpFirst ==
  ASSUME NEW p \in Local, NEW pend \in Nat, NEW num \in Nat, watermark' \in [Local -> Nat]
  PROVE  wake_up_slot(pend, num) <= next_block_slot(p, pend, num)
<1> DEFINE slots == {next_block_slot(q, pend, num) : q \in Local}
<1>1. slots \in SUBSET Nat /\ next_block_slot(p, pend, num) \in slots
  BY NextBlockSlot
<1>2. wake_up_slot(pend, num) = CHOOSE s \in slots : \A r \in slots : s <= r
  BY Zenon DEF wake_up_slot
<1> HIDE DEF slots
<1>3. \E n \in slots : \A r \in slots : n <= r
  BY <1>1, Least
<1> QED
  BY <1>1, <1>2, <1>3

-------------------------------------------------------------------------------
LEMMA Superseded ==
  ASSUME NEW others \in SUBSET Handlers
  PROVE  superseded(others) \in SUBSET Handlers /\ \A x \in superseded(others) : ~x.current
BY DEF superseded, Handlers

LEMMA Scheduled ==
  ASSUME NEW h \in Blocks, NEW others \in SUBSET Handlers,
         NEW en \in BOOLEAN, NEW pa \in BOOLEAN, NEW ol \in BOOLEAN,
         NEW bounds, NEW why,
         time \in Nat, time' = time, head' = h, watermark' \in [Local -> Nat],
         enabled' = en, paused' = pa, lib_old' = ol,
         \A x, y \in others : x.current /\ y.current => x = y,
         schedule_production_loop(h, others, en, pa, ol, bounds, why)
  PROVE  Rearmed'
<1> DEFINE slot == block_slot(h)
           produces == may_produce(h, slot, en, pa, ol)
           block(confirms, full) ==
             [slot |-> slot, confirms |-> confirms, full |-> full, base |-> h]
           async_wait(kind, due) ==
             /\ timer' = [kind |-> kind, due |-> due]
             /\ queued' = superseded(others)
<1>1. slot \in Nat /\ slot >= 1 /\ time <= 2 * slot
  BY BlockSlot
<1>2. h.num \in Nat /\ h.slot \in Nat
  BY DEF Blocks
<1>3. NoPending \in Pendings /\ NoPending.slot = 0 /\ NoTimer \in Timers
  BY DEF NoPending, NoBase, Pendings, Blocks, NoTimer, Timers
<1>4. mode' = IF produces THEN "producing" ELSE "speculating"
  BY DEF schedule_production_loop
<1>5. \/ pending' = NoPending /\ async_wait("retry", time + 1)
      \/ /\ produces
         /\ \E full \in BOOLEAN :
              /\ pending' = block(blocks_to_confirm(h, scheduled(slot)), full)
              /\ async_wait("produce", IF full THEN time ELSE 2 * slot)
      \/ /\ ~produces
         /\ pending' = block(0, FALSE)
         /\ IF Local = {} \/ production_disabled_by_policy(en, pa, ol)
            THEN timer' = NoTimer /\ queued' = others
            ELSE async_wait("wake", 2 * (wake_up_slot(slot, h.num + 1) - 1))
  BY DEF schedule_production_loop
<1>6. \A kind \in {"wake", "retry", "produce"}, due \in Nat :
        async_wait(kind, due) =>
          /\ timer' \in Timers /\ timer'.kind = kind /\ timer'.due = due
          /\ queued' \in SUBSET Handlers /\ \A x \in queued' : ~x.current
  BY Superseded DEF Timers
<1> HIDE DEF slot, async_wait
<1>7. CASE pending' = NoPending /\ async_wait("retry", time + 1)
  <2>1. /\ timer' \in Timers /\ timer'.kind = "retry"
        /\ queued' \in SUBSET Handlers /\ \A x \in queued' : ~x.current
    BY <1>6, <1>7
  <2>2. pending' \in Pendings /\ mode' \in {"producing", "speculating"}
    BY <1>3, <1>4, <1>7
  <2>3. OneCurrent'
    BY <2>1 DEF OneCurrent
  <2>4. PendingInv'
    BY <1>7 DEF PendingInv, NoPending, NoBase
  <2>5. DueInv'
    BY <2>1 DEF DueInv
  <2>6. LoopArmed'
    BY <2>1 DEF LoopArmed, Alive
  <2> QED
    BY <2>1, <2>2, <2>3, <2>4, <2>5, <2>6 DEF Rearmed
<1>8. ASSUME produces, NEW full \in BOOLEAN,
             pending' = block(blocks_to_confirm(h, scheduled(slot)), full),
             async_wait("produce", IF full THEN time ELSE 2 * slot)
      PROVE  Rearmed'
  <2> DEFINE wm == watermark'[scheduled(slot)]
  <2>1. /\ timer' \in Timers /\ timer'.kind = "produce"
        /\ timer'.due = IF full THEN time ELSE 2 * slot
        /\ queued' \in SUBSET Handlers /\ \A x \in queued' : ~x.current
    <3>1. (IF full THEN time ELSE 2 * slot) \in Nat
      BY <1>1
    <3> QED
      BY <1>6, <1>8, <3>1
  <2>2. Ours(slot) /\ wm < h.num + 1 /\ wm \in Nat
    <3>1. Ours(slot) /\ wm < h.num + 1
      BY <1>8 DEF may_produce
    <3>2. scheduled(slot) \in Local
      BY <3>1 DEF Ours
    <3> QED
      BY <3>1, <3>2
  <2>3. /\ blocks_to_confirm(h, scheduled(slot)) \in Nat
        /\ blocks_to_confirm(h, scheduled(slot)) =
             IF wm # 0 /\ wm < h.num THEN h.num - wm ELSE 0
    BY <1>2, <2>2 DEF blocks_to_confirm
  <2>4. /\ pending'.slot = slot /\ pending'.full = full /\ pending'.base = h
        /\ pending'.confirms = IF wm # 0 /\ wm < h.num THEN h.num - wm ELSE 0
        /\ pending' \in Pendings
    BY <1>1, <1>8, <2>3 DEF Pendings
  <2>5. mode' = "producing"
    BY <1>4, <1>8
  <2>6. pending' # NoPending'
    BY <1>1, <2>4 DEF NoPending
  <2>7. OneCurrent'
    BY <2>1 DEF OneCurrent
  <2>8. PendingInv'
    <3>1. Begun'
      BY <1>2, <2>2, <2>4 DEF Begun, Ours
    <3> QED
      BY <3>1 DEF PendingInv
  <2>9. DueInv'
    <3>1. time' <= timer'.due /\ (pending'.full \/ timer'.due = 2 * pending'.slot)
      BY <1>1, <2>1, <2>4
    <3> QED
      BY <2>1, <3>1 DEF DueInv
  <2>10. LoopArmed'
    BY <2>1, <2>6 DEF LoopArmed, Alive
  <2> QED
    BY <2>1, <2>4, <2>5, <2>7, <2>8, <2>9, <2>10 DEF Rearmed
<1>9. ASSUME ~produces, pending' = block(0, FALSE),
             IF Local = {} \/ production_disabled_by_policy(en, pa, ol)
             THEN timer' = NoTimer /\ queued' = others
             ELSE async_wait("wake", 2 * (wake_up_slot(slot, h.num + 1) - 1))
      PROVE  Rearmed'
  <2>1. mode' = "speculating"
    BY <1>4, <1>9
  <2>2. pending' \in Pendings /\ pending' # NoPending'
    BY <1>1, <1>9 DEF Pendings, NoPending
  <2>3. PendingInv' /\ DueInv'
    BY <2>1 DEF PendingInv, DueInv
  <2>4. CASE Local = {} \/ production_disabled_by_policy(en, pa, ol)
    <3>1. timer' = NoTimer /\ queued' = others
      BY <1>9, <2>4
    <3>2. OneCurrent'
      BY <3>1 DEF OneCurrent, NoTimer
    <3>3. LoopArmed'
      BY <2>1, <2>2, <2>4 DEF LoopArmed, Disabled
    <3> QED
      BY <1>3, <2>1, <2>2, <2>3, <3>1, <3>2, <3>3 DEF Rearmed
  <2>5. CASE ~(Local = {} \/ production_disabled_by_policy(en, pa, ol))
    <3>1. 2 * (wake_up_slot(slot, h.num + 1) - 1) \in Nat
      <4>1. wake_up_slot(slot, h.num + 1) \in Nat /\ wake_up_slot(slot, h.num + 1) > slot
        <5>1. Local # {} /\ slot \in Nat /\ h.num + 1 \in Nat
          BY <1>1, <1>2, <2>5
        <5> HIDE DEF slot
        <5> QED
          BY <5>1, WakeUpSlot
      <4> QED
        BY <1>1, <4>1
    <3>2. /\ timer' \in Timers /\ timer'.kind = "wake"
          /\ queued' \in SUBSET Handlers /\ \A x \in queued' : ~x.current
      BY <1>6, <1>9, <2>5, <3>1
    <3>3. OneCurrent'
      BY <3>2 DEF OneCurrent
    <3>4. LoopArmed'
      BY <2>1, <2>2, <3>2 DEF LoopArmed, Alive
    <3> QED
      BY <2>1, <2>2, <2>3, <3>2, <3>3, <3>4 DEF Rearmed
  <2> QED
    BY <2>4, <2>5
<1> QED
  BY <1>5, <1>7, <1>8, <1>9


-------------------------------------------------------------------------------
LEMMA TypesFollow == IInv => TypeOK
<1> SUFFICES ASSUME IInv PROVE TypeOK
  OBVIOUS
<1> DEFINE C == {x \in queued : x.current}
<1>1. CASE C = {}
  <2>1. Cardinality(C) = 0
    <3> HIDE DEF C
    <3> QED BY <1>1, FS_EmptySet
  <2> QED
    BY <2>1 DEF IInv, Rearmed, TypeOK, Pendings, Timers, Handlers
<1>2. CASE C # {}
  <2>1. PICK x \in C : TRUE
    BY <1>2
  <2>2. C = {x}
    BY <2>1 DEF IInv, Rearmed, OneCurrent
  <2>3. Cardinality(C) = 1
    <3> HIDE DEF C
    <3> QED BY <2>2, FS_Singleton
  <2> QED
    BY <2>3 DEF IInv, Rearmed, TypeOK, Pendings, Timers, Handlers
<1> QED
  BY <1>1, <1>2

LEMMA InitInv == Init => IInv
<1> SUFFICES ASSUME Init PROVE IInv
  OBVIOUS
<1>1. time \in 2..(2 * MaxSlot) /\ head \in Blocks /\ watermark \in [Local -> Nat]
  BY ProducerLoopAssumption DEF Init, Blocks
<1>2. pending \in Pendings /\ timer \in Timers /\ queued \in SUBSET Handlers
  BY DEF Init, NoPending, NoBase, Pendings, Timers, Blocks
<1>3. OneCurrent /\ PendingInv /\ DueInv /\ LoopArmed
  BY DEF Init, OneCurrent, PendingInv, DueInv, LoopArmed, Alive
<1>4. ConfirmedInv
  BY DEF Init, ConfirmedInv
<1>5. Rearmed
  BY <1>2, <1>3 DEF Init, Rearmed
<1> QED
  BY <1>1, <1>4, <1>5  DEF Init, IInv

(* The actions that end in schedule_production_loop. *)
LEMMA LoopInv ==
  ASSUME IInv, NEW h \in Blocks, NEW others \in SUBSET queued,
         NEW en \in BOOLEAN, NEW pa \in BOOLEAN, NEW ol \in BOOLEAN,
         NEW bounds, NEW why,
         time' = time, head' = h, watermark' \in [Local -> Nat],
         enabled' = en, paused' = pa, lib_old' = ol, ConfirmedInv',
         schedule_production_loop(h, others, en, pa, ol, bounds, why)
  PROVE  IInv'
<1>1. time \in 2..(2 * MaxSlot) /\ time \in Nat
  BY ProducerLoopAssumption DEF IInv
<1>2. others \in SUBSET Handlers /\ \A x, y \in others : x.current /\ y.current => x = y
  BY DEF IInv, Rearmed, OneCurrent
<1>3. Rearmed'
  BY <1>1, <1>2, Scheduled
<1> QED
  BY <1>1, <1>3 DEF IInv

LEMMA WakeInv ==
  ASSUME IInv, NEW x \in queued, Wake(x)
  PROVE  IInv'
<1>1. /\ time' = time /\ head' = head /\ watermark' = watermark /\ enabled' = enabled
      /\ paused' = paused /\ lib_old' = lib_old /\ confirmed' = confirmed
      /\ schedule_production_loop(head, queued \ {x}, enabled, paused, lib_old, left, {})
  BY DEF Wake, flags
<1>2. head \in Blocks /\ enabled \in BOOLEAN /\ paused \in BOOLEAN /\ lib_old \in BOOLEAN
      /\ queued \ {x} \in SUBSET queued /\ watermark' \in [Local -> Nat] /\ ConfirmedInv'
  BY <1>1 DEF IInv, ConfirmedInv
<1> QED
  BY <1>1, <1>2, LoopInv

(* What a block that is shipped confirms is above the watermark. *)
LEMMA AboveWatermark ==
  ASSUME IInv, mode = "producing", pending # NoPending
  PROVE  LET p == scheduled(pending.slot)
             num == pending.base.num + 1
         IN /\ p \in Local /\ pending.base = head /\ num \in Nat /\ num > 0
            /\ num - pending.confirms \in Int
            /\ watermark[p] < num
            /\ \A n \in confirmed[p] : n < num - pending.confirms
<1> DEFINE p == scheduled(pending.slot)
           num == pending.base.num + 1
           wm == watermark[p]
<1>1. Begun
  BY DEF IInv, Rearmed, PendingInv
<1>2. p \in Local /\ pending.base = head
  BY <1>1 DEF Begun, Ours
<1>3. head.num \in Nat /\ wm \in Nat
  BY <1>2 DEF IInv, Blocks
<1>4. wm <= head.num /\ pending.confirms = IF wm # 0 /\ wm < head.num THEN head.num - wm ELSE 0
  BY <1>1 DEF Begun
<1>5. ASSUME NEW n \in confirmed[p] PROVE n \in Int /\ wm # 0 /\ n <= wm
  BY <1>2 DEF IInv, ConfirmedInv
<1>6. pending.confirms \in Int /\ num = head.num + 1
  BY <1>2, <1>3, <1>4
<1> HIDE DEF p, num, wm
<1>7. ASSUME NEW n \in confirmed[p] PROVE n < num - pending.confirms
  BY <1>3, <1>4, <1>5, <1>6
<1>8. num \in Nat /\ num > 0 /\ num - pending.confirms \in Int /\ wm < num
  BY <1>3, <1>4, <1>6
<1> QED
  BY <1>2, <1>7, <1>8 DEF p, num, wm

LEMMA ProducedInv ==
  ASSUME IInv, NEW x \in queued, Produced(x)
  PROVE  IInv'
<1> DEFINE p == scheduled(pending.slot)
           num == pending.base.num + 1
           h == [num |-> num, slot |-> pending.slot]
<1>1. mode = "producing" /\ pending # NoPending
  BY DEF Produced
<1>2. p \in Local /\ num \in Nat /\ num > 0 /\ num - pending.confirms \in Int /\ watermark[p] < num
      /\ watermark \in [Local -> Nat]
  BY <1>1, AboveWatermark DEF IInv
<1>3. pending.slot \in Nat
  BY DEF IInv, Rearmed, Pendings
<1>4. head' = h /\ h \in Blocks
  BY <1>2, <1>3 DEF Produced, Blocks
<1>5. /\ watermark' = [watermark EXCEPT ![p] = num]
      /\ confirmed' = [confirmed EXCEPT ![p] = @ \cup (num - pending.confirms)..num]
      /\ time' = time /\ enabled' = enabled /\ paused' = paused
  BY DEF Produced
<1>6. watermark' \in [Local -> Nat]
  BY <1>2, <1>5
<1>7. ConfirmedInv'
  <2> HIDE DEF p, num
  <2>1. confirmed \in [Local -> SUBSET Int]
        /\ \A q \in Local : \A n \in confirmed[q] : watermark[q] # 0 /\ n <= watermark[q]
    BY DEF IInv, ConfirmedInv
  <2>2. (num - pending.confirms)..num \in SUBSET Int
    BY <1>2
  <2>3. confirmed' \in [Local -> SUBSET Int]
    BY <1>5, <2>1, <2>2
  <2>4. ASSUME NEW q \in Local, NEW n \in confirmed'[q]
        PROVE  watermark'[q] # 0 /\ n <= watermark'[q]
    <3>1. CASE q = p
      <4>1. watermark'[q] = num /\ confirmed'[q] = confirmed[p] \cup (num - pending.confirms)..num
        BY <1>2, <1>5, <2>1, <3>1
      <4>2. CASE n \in confirmed[p]
        BY <1>2, <2>1, <4>1, <4>2
      <4>3. CASE n \in (num - pending.confirms)..num
        BY <1>2, <4>1, <4>3
      <4> QED
        BY <4>1, <4>2, <4>3
    <3>2. CASE q # p
      BY <1>5, <1>2, <2>1, <3>2
    <3> QED
      BY <3>1, <3>2
  <2> QED
    BY <2>3, <2>4 DEF ConfirmedInv
<1>8. PICK ol \in BOOLEAN : lib_old' = ol
  BY DEF Produced, IInv
<1>9. schedule_production_loop(h, queued \ {x}, enabled, paused, ol, left, {})
  BY <1>4, <1>8 DEF Produced
<1>10. enabled \in BOOLEAN /\ paused \in BOOLEAN /\ queued \ {x} \in SUBSET queued
  BY DEF IInv
<1> HIDE DEF h
<1> QED
  BY <1>4, <1>5, <1>6, <1>7, <1>8, <1>9, <1>10, LoopInv

LEMMA ShipInv ==
  ASSUME IInv, NEW x \in queued, Ship(x)
  PROVE  IInv'
<1>1. CASE Produced(x)
  BY <1>1, ProducedInv
<1>2. CASE ~Produced(x)
  <2>1. /\ time' = time /\ head' = head /\ watermark' = watermark /\ enabled' = enabled
        /\ paused' = paused /\ lib_old' = lib_old /\ confirmed' = confirmed
        /\ schedule_production_loop(head, queued \ {x}, enabled, paused, lib_old,
             IF mode = "producing" THEN [left EXCEPT !.failures = @ - 1] ELSE left,
             {pending.slot})
    BY <1>2 DEF Ship, flags
  <2>2. head \in Blocks /\ enabled \in BOOLEAN /\ paused \in BOOLEAN /\ lib_old \in BOOLEAN
        /\ queued \ {x} \in SUBSET queued /\ watermark' \in [Local -> Nat] /\ ConfirmedInv'
    BY <2>1 DEF IInv, ConfirmedInv
  <2> QED
    BY <2>1, <2>2, LoopInv
<1> QED
  BY <1>1, <1>2

LEMMA IncomingInv ==
  ASSUME IInv, NEW h \in Blocks, NEW accepted \in BOOLEAN, on_incoming_block(h, accepted)
  PROVE  IInv'
<1>1. PICK ol \in BOOLEAN : lib_old' = ol
  BY DEF on_incoming_block, IInv
<1>2. PICK en \in BOOLEAN : enabled' = en
  BY DEF on_incoming_block
<1>3. /\ time' = time /\ head' = h /\ watermark' = watermark /\ paused' = paused
      /\ confirmed' = confirmed
      /\ schedule_production_loop(h, queued, en, paused, ol,
           [left EXCEPT !.received = @ - 1], Cost)
  BY <1>1, <1>2 DEF on_incoming_block
<1>4. paused \in BOOLEAN /\ queued \in SUBSET queued /\ watermark' \in [Local -> Nat] /\ ConfirmedInv'
  BY <1>3 DEF IInv, ConfirmedInv
<1> QED
  BY <1>1, <1>2, <1>3, <1>4, LoopInv

LEMMA NewHeadsAreBlocks == ASSUME IInv PROVE NewHeads \subseteq Blocks
<1>1. Slot \in Nat /\ head.num \in Nat
  BY ProducerLoopAssumption, SlotFacts DEF IInv, Blocks
<1> QED
  BY <1>1, ProducerLoopAssumption DEF NewHeads, Blocks


(* The flags may change without the loop being started again only if       *)
(* production is off afterwards, or a block is being produced.             *)
LEMMA FlagsInv ==
  ASSUME IInv, enabled' \in BOOLEAN, paused' \in BOOLEAN, lib_old' \in BOOLEAN,
         Disabled' \/ mode = "producing",
         UNCHANGED <<time, head, pending, mode, timer, queued, watermark, confirmed>>
  PROVE  IInv'
<1>1. OneCurrent' /\ PendingInv' /\ DueInv' /\ ConfirmedInv'
  BY DEF IInv, Rearmed, OneCurrent, PendingInv, Begun, DueInv, ConfirmedInv
<1>2. LoopArmed'
  <2>1. \A kinds : Alive(kinds)' <=> Alive(kinds)
    BY DEF Alive
  <2>2. Alive({"retry", "produce"}) => Alive({"wake", "retry", "produce"})
    BY DEF Alive
  <2>3. (pending = NoPending => Alive({"retry"}))
        /\ (mode = "producing" => Alive({"retry", "produce"}))
    BY DEF IInv, Rearmed, LoopArmed
  <2> QED
    BY <2>1, <2>2, <2>3 DEF LoopArmed, NoPending, NoBase
<1> QED
  BY <1>1, <1>2 DEF IInv, Rearmed

LEMMA ResumeInv == ASSUME IInv, resume PROVE IInv'
<1>1. /\ time' = time /\ head' = head /\ watermark' = watermark /\ enabled' = enabled
      /\ paused' = FALSE /\ lib_old' = lib_old /\ confirmed' = confirmed
  BY DEF resume
<1>2. head \in Blocks /\ enabled \in BOOLEAN /\ lib_old \in BOOLEAN
      /\ queued \in SUBSET queued /\ watermark' \in [Local -> Nat] /\ ConfirmedInv'
      /\ mode \in {"producing", "speculating"}
  BY <1>1 DEF IInv, Rearmed, ConfirmedInv
<1>3. CASE mode = "speculating"
  <2>1. schedule_production_loop(head, queued, enabled, FALSE, lib_old, left, Cost)
    BY <1>3 DEF resume
  <2> QED
    BY <1>1, <1>2, <2>1, LoopInv
<1>4. CASE mode = "producing"
  BY <1>1, <1>2, <1>4, FlagsInv DEF resume
<1> QED
  BY <1>2, <1>3, <1>4

LEMMA OptionsInv ==
  ASSUME IInv, NEW exceeded \in BOOLEAN, update_runtime_options(exceeded)
  PROVE  IInv'
<1>1. /\ time' = time /\ head' = head /\ watermark' = watermark /\ enabled' = enabled
      /\ paused' = paused /\ lib_old' = exceeded /\ confirmed' = confirmed
  BY DEF update_runtime_options
<1>2. head \in Blocks /\ enabled \in BOOLEAN /\ paused \in BOOLEAN
      /\ queued \in SUBSET queued /\ watermark' \in [Local -> Nat] /\ ConfirmedInv'
      /\ mode \in {"producing", "speculating"}
  BY <1>1 DEF IInv, Rearmed, ConfirmedInv
<1>3. CASE mode = "speculating"
  <2>1. schedule_production_loop(head, queued, enabled, paused, exceeded, Switched, Cost)
    BY <1>3 DEF update_runtime_options
  <2> QED
    BY <1>1, <1>2, <2>1, LoopInv
<1>4. CASE mode = "producing"
  BY <1>1, <1>2, <1>4, FlagsInv DEF update_runtime_options
<1> QED
  BY <1>2, <1>3, <1>4

LEMMA SwitchesInv == ASSUME IInv, pause \/ LibAges PROVE IInv'
<1>1. /\ UNCHANGED <<time, head, pending, mode, timer, queued, watermark, confirmed>>
      /\ enabled' \in BOOLEAN /\ paused' \in BOOLEAN /\ lib_old' \in BOOLEAN
      /\ paused' = TRUE \/ lib_old' = TRUE
  BY DEF pause, LibAges, IInv
<1>2. Disabled'
  BY <1>1 DEF Disabled, production_disabled_by_policy
<1> QED
  BY <1>1, <1>2, FlagsInv

(* The actions of time and the queue. *)
LEMMA TickInv == ASSUME IInv, Tick PROVE IInv'
<1>1. /\ time' = time + 1 /\ time < 2 * MaxSlot
      /\ timer.kind # "none" => timer.due > time
      /\ \A x \in queued : ~x.current
      /\ UNCHANGED <<head, pending, mode, timer, queued, watermark, flags, confirmed>>
  BY DEF Tick
<1>2. time' \in 2..(2 * MaxSlot)
  BY <1>1, ProducerLoopAssumption DEF IInv
<1>3. OneCurrent' /\ PendingInv' /\ ConfirmedInv'
  BY <1>1 DEF IInv, Rearmed, OneCurrent, PendingInv, Begun, ConfirmedInv
<1>4. DueInv'
  <2>1. time \in Int /\ timer.due \in Int
    BY ProducerLoopAssumption DEF IInv, Rearmed, Timers
  <2> QED
    BY <1>1, <2>1 DEF IInv, Rearmed, DueInv
<1>5. LoopArmed'
  BY <1>1 DEF IInv, Rearmed, LoopArmed, Alive, Disabled, flags
<1> QED
  BY <1>1, <1>2, <1>3, <1>4, <1>5 DEF IInv, Rearmed, flags

LEMMA ExpireInv == ASSUME IInv, Expire PROVE IInv'
<1>1. /\ timer.kind # "none" /\ timer.due <= time
      /\ queued' = queued \cup {[kind |-> timer.kind, current |-> TRUE]}
      /\ timer' = NoTimer
      /\ UNCHANGED <<time, head, pending, mode, watermark, flags, confirmed>>
  BY DEF Expire
<1>2. time \in Int /\ timer.due \in Int /\ timer.kind \in {"wake", "retry", "produce"}
  BY <1>1, ProducerLoopAssumption DEF IInv, Rearmed, Timers
<1>3. queued' \in SUBSET Handlers /\ timer' \in Timers
  <2>1. [kind |-> timer.kind, current |-> TRUE] \in Handlers
    BY <1>2 DEF Handlers
  <2>2. queued \in SUBSET Handlers
    BY DEF IInv, Rearmed
  <2>3. NoTimer \in Timers
    BY DEF Timers, NoTimer
  <2> QED
    BY <1>1, <2>1, <2>2, <2>3
<1>4. \A x \in queued : ~x.current
  BY <1>1 DEF IInv, Rearmed, OneCurrent
<1>5. OneCurrent'
  BY <1>1, <1>4 DEF OneCurrent, NoTimer
<1>6. PendingInv' /\ ConfirmedInv'
  BY <1>1 DEF IInv, Rearmed, PendingInv, Begun, ConfirmedInv
<1>7. DueInv'
  <2>1. timer'.kind = "none"
    BY <1>1 DEF NoTimer
  <2>2. mode = "producing" /\ timer.kind = "produce" =>
          time = timer.due /\ (pending.full \/ timer.due = 2 * pending.slot)
    BY <1>1, <1>2 DEF IInv, Rearmed, DueInv
  <2>3. \A x \in queued' : x.current => x.kind = timer.kind
    BY <1>1, <1>4
  <2> QED
    BY <1>1, <2>1, <2>2, <2>3 DEF DueInv
<1>8. LoopArmed'
  <2>1. ASSUME NEW kinds, Alive(kinds), "none" \notin kinds PROVE Alive(kinds)'
    <3> DEFINE x == [kind |-> timer.kind, current |-> TRUE]
    <3>1. timer.kind \in kinds
      BY <1>4, <2>1 DEF Alive
    <3>2. x.current /\ x.kind = timer.kind /\ x \in queued'
      BY <1>1
    <3> HIDE DEF x
    <3> QED
      BY <3>1, <3>2 DEF Alive
  <2>2. Disabled' <=> Disabled
    BY <1>1 DEF Disabled, flags
  <2> QED
    BY <1>1, <2>1, <2>2 DEF IInv, Rearmed, LoopArmed, NoPending, NoBase
<1> QED
  BY <1>1, <1>3, <1>5, <1>6, <1>7, <1>8 DEF IInv, Rearmed, flags

LEMMA OutdatedInv == ASSUME IInv, NEW x \in queued, Outdated(x) PROVE IInv'
<1>1. /\ ~x.current /\ queued' = queued \ {x}
      /\ UNCHANGED <<time, head, pending, mode, timer, watermark, flags, confirmed>>
  BY DEF Outdated
<1>2. OneCurrent' /\ PendingInv' /\ DueInv' /\ ConfirmedInv'
  BY <1>1 DEF IInv, Rearmed, OneCurrent, PendingInv, Begun, DueInv, ConfirmedInv
<1>3. LoopArmed'
  <2>1. ASSUME NEW kinds, Alive(kinds) PROVE Alive(kinds)'
    BY <1>1, <2>1 DEF Alive
  <2>2. Disabled' <=> Disabled
    BY <1>1 DEF Disabled, flags
  <2> QED
    BY <1>1, <2>1, <2>2 DEF IInv, Rearmed, LoopArmed, NoPending, NoBase
<1> QED
  BY <1>1, <1>2, <1>3 DEF IInv, Rearmed, flags

-------------------------------------------------------------------------------
LEMMA Invariance == Spec => []IInv
<1>1. Init => IInv
  BY InitInv
<1>2. IInv /\ [Next]_vars => IInv'
  <2> SUFFICES ASSUME IInv, [Next]_vars PROVE IInv'
    OBVIOUS
  <2>1. CASE Tick
    BY <2>1, TickInv
  <2>2. CASE Expire
    BY <2>2, ExpireInv
  <2>3. ASSUME NEW h \in queued, Outdated(h) \/ Wake(h) \/ Ship(h) PROVE IInv'
    BY <2>3, OutdatedInv, WakeInv, ShipInv
  <2>4. ASSUME NEW h \in NewHeads, on_incoming_block(h, TRUE) PROVE IInv'
    BY <2>4, NewHeadsAreBlocks, IncomingInv
  <2>5. ASSUME NEW accepted \in BOOLEAN, on_incoming_block(head, accepted) PROVE IInv'
    <3>1. head \in Blocks
      BY DEF IInv
    <3> QED
      BY <2>5, <3>1, IncomingInv
  <2>6. CASE pause \/ LibAges
    BY <2>6, SwitchesInv
  <2>7. CASE resume
    BY <2>7, ResumeInv
  <2>8. ASSUME NEW exceeded \in BOOLEAN, update_runtime_options(exceeded) PROVE IInv'
    BY <2>8, OptionsInv
  <2>9. CASE UNCHANGED vars
    <3>1. UNCHANGED <<time, head, pending, mode, timer, queued, watermark, flags, confirmed>>
      BY <2>9 DEF vars
    <3>2. OneCurrent' /\ PendingInv' /\ DueInv' /\ ConfirmedInv'
      BY <3>1 DEF IInv, Rearmed, OneCurrent, PendingInv, Begun, DueInv, ConfirmedInv
    <3>3. LoopArmed'
      BY <3>1 DEF IInv, Rearmed, LoopArmed, Alive, Disabled, flags
    <3> QED
      BY <3>1, <3>2, <3>3 DEF IInv, Rearmed, flags
  <2> QED
    BY <2>1, <2>2, <2>3, <2>4, <2>5, <2>6, <2>7, <2>8, <2>9 DEF Next
<1> QED
  BY <1>1, <1>2, PTL DEF Spec

(* Only a block that is shipped is made. *)
LEMMA MadeByShipping ==
  ASSUME IInv, Next, made' # made
  PROVE  \E x \in queued : x.current /\ x.kind = "produce" /\ Produced(x)
<1>1. PICK x \in queued : Ship(x)
  BY DEF Next, Tick, Expire, Outdated, Wake, on_incoming_block, pause, resume, LibAges,
         update_runtime_options
<1> QED
  BY <1>1 DEF Ship

(* Type correctness of the production loop: in particular at most one      *)
(* handler in the queue is not outdated.                                   *)
THEOREM TypeCorrect == Spec => []TypeOK
BY Invariance, TypesFollow, PTL

(* While production is on, a timer or a handler runs the loop again        *)
(* (schedule_production_loop).                                             *)
THEOREM AlwaysArmed == Spec => []LoopArmed
<1>1. IInv => LoopArmed
  BY DEF IInv, Rearmed
<1> QED
  BY <1>1, Invariance, PTL

(* maybe_produce_block ships a block on the present head only, and at its  *)
(* time: no expired timer of an earlier pending block does.                *)
THEOREM ShippedWhenDue == Spec => ShipsWhenDue
<1> DEFINE A == made' # made => /\ pending.base = head
                                /\ pending.full \/ time = 2 * pending.slot
<1>1. IInv /\ [Next]_vars => [A]_vars
  <2> SUFFICES ASSUME IInv, Next, made' # made PROVE A
    BY DEF vars
  <2>1. PICK x \in queued : x.current /\ x.kind = "produce" /\ Produced(x)
    BY MadeByShipping
  <2>2. mode = "producing" /\ pending # NoPending
    BY <2>1 DEF Produced
  <2>3. pending.base = head
    BY <2>2, AboveWatermark
  <2>4. pending.full \/ time = 2 * pending.slot
    BY <2>1, <2>2 DEF IInv, Rearmed, DueInv
  <2> QED
    BY <2>3, <2>4
<1> QED
  BY <1>1, Invariance, PTL DEF Spec, ShipsWhenDue

(* A producer confirms no block number twice, whichever forks it produces  *)
(* on (_producer_watermarks).                                              *)
THEOREM ConfirmedOnce == Spec => ConfirmsOnce
<1> DEFINE A == made' # made =>
                  LET p == scheduled(pending.slot)
                      num == pending.base.num + 1
                  IN \A n \in confirmed[p] : n < num - pending.confirms
<1>1. IInv /\ [Next]_vars => [A]_vars
  <2> SUFFICES ASSUME IInv, Next, made' # made PROVE A
    BY DEF vars
  <2>1. PICK x \in queued : x.current /\ x.kind = "produce" /\ Produced(x)
    BY MadeByShipping
  <2>2. mode = "producing" /\ pending # NoPending
    BY <2>1 DEF Produced
  <2> QED
    BY <2>2, AboveWatermark
<1> QED
  BY <1>1, Invariance, PTL DEF Spec, ConfirmsOnce

-------------------------------------------------------------------------------
Slots == Nat \ {0}

(* A block was made for the slot, or there was a reason not to, or the     *)
(* chain is ahead of it.                                                   *)
Handled(s) == s \in made \cup excused \/ s <= head.slot

(* Every slot whose block can no longer be begun at time t is handled. *)
Passed(t) == \A s \in Slots : Ours(s) /\ 2 * s <= t + 1 => Handled(s)

(* A block is being produced, and its timer or handler will ship it. *)
Producing == mode = "producing" /\ Alive({"produce"})

(* A watermark stands against the slot, which Tick has yet to take note of. *)
Held(s) == s > Slot + 1 /\ watermark[scheduled(s)] > head.num

ProducingInv ==
  Producing => /\ time <= 2 * pending.slot
               /\ \A s \in Slots : Ours(s) /\ s < pending.slot => Handled(s)

ShipInTime ==
  timer.kind = "produce" => mode = "producing" /\ timer.due <= 2 * pending.slot

RetryInTime == timer.kind = "retry" => time <= timer.due /\ Passed(timer.due)

WakeInTime ==
  timer.kind = "wake" =>
    \E w \in Slots : /\ timer.due = 2 * (w - 1) /\ time <= timer.due
                     /\ \A s \in Slots : Ours(s) /\ s < w => Handled(s) \/ Held(s)

NothingDue == timer.kind = "none" /\ ~Producing => Passed(time)

(* What is due while a slot is waited for: the loop runs in time for every *)
(* slot that is not handled.                                               *)
InTime == ProducingInv /\ ShipInTime /\ RetryInTime /\ WakeInTime /\ NothingDue

SlotsInv == NoSlotMissed /\ InTime

LEMMA SlotsScheduled ==
  ASSUME IInv, NoSlotMissed,
         NEW h \in Blocks, NEW others \in SUBSET Handlers,
         NEW en \in BOOLEAN, NEW pa \in BOOLEAN, NEW ol \in BOOLEAN,
         NEW bounds, NEW why,
         time' = time, head' = h, watermark' \in [Local -> Nat], made \subseteq made',
         \A s \in Slots : Ours(s) /\ 2 * s <= time + 1 =>
           s \in made' \cup excused \cup why \/ s <= h.slot,
         schedule_production_loop(h, others, en, pa, ol, bounds, why)
  PROVE  SlotsInv'
<1> DEFINE slot == block_slot(h)
           produces == may_produce(h, slot, en, pa, ol)
           block(confirms, full) ==
             [slot |-> slot, confirms |-> confirms, full |-> full, base |-> h]
           async_wait(kind, due) ==
             /\ timer' = [kind |-> kind, due |-> due]
             /\ queued' = superseded(others)
<1>1. time \in Nat /\ h.slot \in Nat /\ h.num \in Nat /\ Slot \in Nat
  BY SlotFacts, ProducerLoopAssumption DEF IInv, Blocks
<1>2. 2 * Slot <= time /\ time <= 2 * Slot + 1 /\ (Late => time = 2 * Slot + 1)
  BY <1>1, SlotFacts
<1>3. slot \in Nat /\ slot >= 1 /\ time <= 2 * slot /\ slot >= Slot + 1
  <2>1. slot >= Slot + 1
    BY <1>1 DEF block_slot, Max
  <2> QED
    BY <1>1, <2>1, BlockSlot
<1>4. excused \cup why \subseteq excused'
  BY DEF schedule_production_loop
<1>5. ASSUME NEW s \in Slots, Ours(s), 2 * s <= time + 1 PROVE Handled(s)'
  BY <1>4, <1>5 DEF Handled
<1>6. ASSUME NEW s \in Slots, Ours(s), s < slot PROVE Handled(s)'
  <2>1. s <= h.slot \/ s <= Slot \/ (Late /\ s = Slot + 1)
    BY <1>1, <1>6 DEF block_slot, Max, Slots
  <2>2. CASE s <= h.slot
    BY <2>2 DEF Handled
  <2>3. CASE s <= Slot \/ (Late /\ s = Slot + 1)
    <3>1. 2 * s <= time + 1
      BY <1>1, <1>2, <2>3 DEF Slots
    <3> QED
      BY <1>5, <1>6, <3>1
  <2> QED
    BY <2>1, <2>2, <2>3
<1>7. NoSlotMissed'
  BY <1>4 DEF NoSlotMissed
<1>8. mode' = IF produces THEN "producing" ELSE "speculating"
  BY DEF schedule_production_loop
<1>9. \/ /\ async_wait("retry", time + 1)
          /\ excused' = excused \cup why \cup {Slot + 1, Slot + 2}
       \/ /\ produces
          /\ \E full \in BOOLEAN :
               /\ pending' = block(blocks_to_confirm(h, scheduled(slot)), full)
               /\ async_wait("produce", IF full THEN time ELSE 2 * slot)
       \/ /\ ~produces
          /\ IF Local = {} \/ production_disabled_by_policy(en, pa, ol)
             THEN timer' = NoTimer
             ELSE async_wait("wake", 2 * (wake_up_slot(slot, h.num + 1) - 1))
          /\ excused' = excused \cup why \cup {slot}
  BY DEF schedule_production_loop
<1>10. \A x \in superseded(others) : ~x.current
  BY Superseded
<1> HIDE DEF slot, produces
<1>11. CASE /\ async_wait("retry", time + 1)
            /\ excused' = excused \cup why \cup {Slot + 1, Slot + 2}
  <2>1. timer'.kind = "retry" /\ timer'.due = time + 1 /\ \A x \in queued' : ~x.current
    BY <1>10, <1>11
  <2>2. ~Producing'
    BY <2>1 DEF Producing, Alive
  <2>3. ASSUME NEW s \in Slots, Ours(s), 2 * s <= time + 2 PROVE Handled(s)'
    <3>1. 2 * s <= time + 1 \/ s = Slot + 1
      BY <1>1, <1>2, <2>3 DEF Slots
    <3> QED
      BY <1>5, <1>11, <2>3, <3>1 DEF Handled
  <2>4. Passed(timer.due)'
    BY <1>1, <2>1, <2>3 DEF Passed
  <2>5. time' <= timer'.due
    BY <1>1, <2>1
  <2> QED
    BY <1>7, <2>1, <2>2, <2>4, <2>5
       DEF SlotsInv, InTime, ProducingInv, ShipInTime, RetryInTime, WakeInTime, NothingDue
<1>12. ASSUME produces, NEW full \in BOOLEAN,
              pending' = block(blocks_to_confirm(h, scheduled(slot)), full),
              async_wait("produce", IF full THEN time ELSE 2 * slot)
       PROVE  SlotsInv'
  <2>1. timer'.kind = "produce" /\ timer'.due = IF full THEN time ELSE 2 * slot
    BY <1>12
  <2>2. mode' = "producing" /\ pending'.slot = slot
    BY <1>8, <1>12
  <2>3. ProducingInv'
    BY <1>3, <1>6, <2>2 DEF ProducingInv
  <2>4. ShipInTime'
    BY <1>3, <2>1, <2>2 DEF ShipInTime
  <2> QED
    BY <1>7, <2>1, <2>3, <2>4 DEF SlotsInv, InTime, RetryInTime, WakeInTime, NothingDue
<1>13. ASSUME ~produces, timer' = NoTimer PROVE SlotsInv'
  <2>1. mode' = "speculating" /\ timer'.kind = "none"
    BY <1>8, <1>13 DEF NoTimer
  <2>2. Passed(time)'
    BY <1>5 DEF Passed
  <2> QED
    BY <1>7, <2>1, <2>2
       DEF SlotsInv, InTime, ProducingInv, Producing, ShipInTime, RetryInTime, WakeInTime, NothingDue
<1>14. ASSUME ~produces, Local # {},
              async_wait("wake", 2 * (wake_up_slot(slot, h.num + 1) - 1)),
              excused' = excused \cup why \cup {slot}
       PROVE  SlotsInv'
  <2> DEFINE w == wake_up_slot(slot, h.num + 1)
  <2>1. timer'.kind = "wake" /\ timer'.due = 2 * (w - 1)
    BY <1>14
  <2>2. mode' = "speculating"
    BY <1>8, <1>14
  <2>3. w \in Nat /\ w > slot
    <3>1. h.num + 1 \in Nat
      BY <1>1
    <3> QED
      BY <1>3, <1>14, <3>1, WakeUpSlot
  <2>4. ASSUME NEW s \in Slots, Ours(s), s < w PROVE Handled(s)' \/ Held(s)'
    <3>1. CASE s < slot
      BY <1>6, <2>4, <3>1
    <3>2. CASE s = slot
      BY <1>14, <3>2 DEF Handled
    <3>3. CASE s > slot
      <4> DEFINE p == scheduled(s)
      <4>1. p \in Local /\ s \in Nat /\ h.num + 1 \in Nat
        BY <1>1, <2>4 DEF Ours, Slots
      <4>2. w <= next_block_slot(p, slot, h.num + 1)
            /\ next_block_slot(p, slot, h.num + 1) \in Nat
        <5> HIDE DEF p
        <5> QED BY <1>3, <4>1, WakeUpFirst, NextBlockSlot
      <4>3. s < next_block_slot(p, slot, h.num + 1)
        BY <2>3, <2>4, <4>1, <4>2
      <4>4. watermark'[p] > h.num + 1
        BY <1>3, <3>3, <4>1, <4>3, NoneBefore
      <4>5. watermark'[p] > h.num
        <5>1. watermark'[p] \in Nat
          BY <4>1
        <5> HIDE DEF p
        <5> QED BY <1>1, <4>4, <5>1
      <4>6. s > Slot + 1 /\ Slot' = Slot
        BY <1>1, <1>3, <3>3, <4>1 DEF Slot
      <4> QED
        BY <4>5, <4>6 DEF Held
    <3> QED
      BY <1>3, <3>1, <3>2, <3>3 DEF Slots
  <2> HIDE DEF w
  <2>5. w \in Slots /\ time <= 2 * (w - 1)
    BY <1>1, <1>3, <2>3 DEF Slots
  <2>6. WakeInTime'
    <3>1. /\ timer'.due = 2 * (w - 1) /\ time' <= timer'.due
          /\ \A s \in Slots : Ours(s) /\ s < w => Handled(s)' \/ Held(s)'
      BY <2>1, <2>4, <2>5
    <3> QED
      BY <2>5, <3>1 DEF WakeInTime
  <2> QED
    BY <1>7, <2>1, <2>2, <2>6
       DEF SlotsInv, InTime, ProducingInv, Producing, ShipInTime, RetryInTime, NothingDue
<1> QED
  BY <1>9, <1>11, <1>12, <1>13, <1>14

(* A step that starts no loop and leaves time and the head alone keeps     *)
(* what is due.                                                            *)
LEMMA SlotsKeep ==
  ASSUME SlotsInv, Producing' <=> Producing,
         UNCHANGED <<time, head, pending, mode, timer, watermark, made, excused>>
  PROVE  SlotsInv'
<1>1. NoSlotMissed'
  BY DEF SlotsInv, NoSlotMissed
<1>2. \A s : Handled(s)' <=> Handled(s)
  BY DEF Handled
<1>3. \A s : Held(s)' <=> Held(s)
  BY DEF Held, Slot
<1>4. \A t : Passed(t)' <=> Passed(t)
  BY <1>2 DEF Passed
<1>5. ProducingInv' /\ ShipInTime'
  BY <1>2 DEF SlotsInv, InTime, ProducingInv, ShipInTime
<1>6. RetryInTime' /\ NothingDue'
  BY <1>4 DEF SlotsInv, InTime, RetryInTime, NothingDue
<1>7. WakeInTime'
  BY <1>2, <1>3 DEF SlotsInv, InTime, WakeInTime
<1> QED
  BY <1>1, <1>5, <1>6, <1>7 DEF SlotsInv, InTime

(* Of the slots that have begun, or cannot be produced for any more, only  *)
(* the one that a call costs may not be accounted for.                     *)
LEMMA CostCovers ==
  ASSUME IInv, NoSlotMissed, NEW s \in Slots, Ours(s), 2 * s <= time + 1
  PROVE  s \in made \cup excused \cup Cost
<1>1. time \in Nat /\ time <= 2 * MaxSlot /\ MaxSlot \in Nat
  BY ProducerLoopAssumption DEF IInv
<1>2. Slot \in Nat /\ 2 * Slot <= time /\ time <= 2 * Slot + 1 /\ (Late => time = 2 * Slot + 1)
      /\ (~Late => time = 2 * Slot)
  BY <1>1 DEF Slot, Late
<1>3. CASE 2 * s < time
  <2>1. s \in 1..MaxSlot
    BY <1>1, <1>3 DEF Slots
  <2> QED
    BY <1>3, <2>1 DEF NoSlotMissed
<1>4. CASE ~(2 * s < time)
  <2>1. IF Late THEN s = Slot + 1 ELSE s = Slot
    BY <1>1, <1>2, <1>4 DEF Slots
  <2> QED
    BY <2>1 DEF Cost
<1> QED
  BY <1>3, <1>4

(* Where a call aborts the pending block. *)
LEMMA SlotsInterrupted ==
  ASSUME IInv, SlotsInv, NEW h \in Blocks,
         NEW en \in BOOLEAN, NEW pa \in BOOLEAN, NEW ol \in BOOLEAN, NEW bounds,
         head' = h, UNCHANGED <<time, watermark, made>>,
         schedule_production_loop(h, queued, en, pa, ol, bounds, Cost)
  PROVE  SlotsInv'
<1>1. NoSlotMissed /\ queued \in SUBSET Handlers /\ watermark' \in [Local -> Nat]
  BY DEF SlotsInv, IInv, Rearmed
<1>2. \A s \in Slots : Ours(s) /\ 2 * s <= time + 1 =>
        s \in made' \cup excused \cup Cost \/ s <= h.slot
  BY <1>1, CostCovers
<1> QED
  BY <1>1, <1>2, SlotsScheduled

(* A handler that is not outdated is the only one: no timer is set. *)
LEMMA OnlyHandler ==
  ASSUME IInv, NEW x \in queued, x.current
  PROVE  /\ timer.kind = "none"
         /\ Alive({"produce"}) <=> x.kind = "produce"
BY DEF IInv, Rearmed, OneCurrent, Alive

LEMMA WakeSlots ==
  ASSUME IInv, SlotsInv, NEW x \in queued, Wake(x)
  PROVE  SlotsInv'
<1>1. /\ time' = time /\ head' = head /\ watermark' = watermark /\ made' = made
      /\ x.current /\ x.kind \in {"wake", "retry"}
      /\ schedule_production_loop(head, queued \ {x}, enabled, paused, lib_old, left, {})
  BY DEF Wake
<1>2. Passed(time)
  BY <1>1, OnlyHandler DEF SlotsInv, InTime, NothingDue, Producing
<1>3. \A s \in Slots : Ours(s) /\ 2 * s <= time + 1 =>
        s \in made' \cup excused \cup {} \/ s <= head.slot
  BY <1>1, <1>2 DEF Passed, Handled
<1>4. head \in Blocks /\ enabled \in BOOLEAN /\ paused \in BOOLEAN /\ lib_old \in BOOLEAN
      /\ queued \ {x} \in SUBSET Handlers /\ watermark' \in [Local -> Nat] /\ NoSlotMissed
  BY <1>1 DEF IInv, Rearmed, SlotsInv
<1> QED
  BY <1>1, <1>3, <1>4, SlotsScheduled

LEMMA ProducedSlots ==
  ASSUME IInv, SlotsInv, NEW x \in queued, x.current, x.kind = "produce", Produced(x)
  PROVE  SlotsInv'
<1> DEFINE p == scheduled(pending.slot)
           num == pending.base.num + 1
           h == [num |-> num, slot |-> pending.slot]
<1>1. mode = "producing" /\ pending # NoPending
  BY DEF Produced
<1>2. p \in Local /\ num \in Nat /\ pending.slot \in Nat /\ time \in Nat
  BY <1>1, AboveWatermark, ProducerLoopAssumption DEF IInv, Rearmed, Pendings
<1>3. head' = h /\ h \in Blocks /\ h.slot = pending.slot
  BY <1>2 DEF Produced, Blocks
<1>4. /\ watermark' = [watermark EXCEPT ![p] = num] /\ time' = time
      /\ made' = made \cup {pending.slot}
  BY DEF Produced
<1>5. watermark' \in [Local -> Nat]
  BY <1>2, <1>4 DEF IInv
<1>6. PICK ol \in BOOLEAN : lib_old' = ol
  BY DEF Produced, IInv
<1>7. schedule_production_loop(h, queued \ {x}, enabled, paused, ol, left, {})
  BY <1>3, <1>6 DEF Produced
<1>8. enabled \in BOOLEAN /\ paused \in BOOLEAN /\ queued \ {x} \in SUBSET Handlers /\ NoSlotMissed
  BY DEF IInv, Rearmed, SlotsInv
<1>9. time <= 2 * pending.slot
  BY <1>1, OnlyHandler DEF SlotsInv, InTime, ProducingInv, Producing
<1>10. \A s \in Slots : Ours(s) /\ 2 * s <= time + 1 =>
         s \in made' \cup excused \cup {} \/ s <= h.slot
  BY <1>2, <1>3, <1>9 DEF Slots
<1> HIDE DEF h
<1> QED
  BY <1>3, <1>4, <1>5, <1>7, <1>8, <1>10, SlotsScheduled

LEMMA ShipSlots ==
  ASSUME IInv, SlotsInv, NEW x \in queued, Ship(x)
  PROVE  SlotsInv'
<1>1. x.current /\ x.kind = "produce"
  BY DEF Ship
<1>2. CASE Produced(x)
  BY <1>1, <1>2, ProducedSlots
<1>3. CASE ~Produced(x)
  <2>1. /\ time' = time /\ head' = head /\ watermark' = watermark /\ made' = made
        /\ schedule_production_loop(head, queued \ {x}, enabled, paused, lib_old,
             IF mode = "producing" THEN [left EXCEPT !.failures = @ - 1] ELSE left,
             {pending.slot})
    BY <1>3 DEF Ship
  <2>2. head \in Blocks /\ enabled \in BOOLEAN /\ paused \in BOOLEAN /\ lib_old \in BOOLEAN
        /\ queued \ {x} \in SUBSET Handlers /\ watermark' \in [Local -> Nat] /\ NoSlotMissed
        /\ time \in Nat /\ pending.slot \in Nat
    BY <2>1, ProducerLoopAssumption DEF IInv, Rearmed, SlotsInv, Pendings
  <2>3. ASSUME NEW s \in Slots, Ours(s), 2 * s <= time + 1
        PROVE  s \in made' \cup excused \cup {pending.slot} \/ s <= head.slot
    <3>1. CASE Producing
      <4>1. time <= 2 * pending.slot /\ (s < pending.slot => Handled(s))
        BY <2>3, <3>1 DEF SlotsInv, InTime, ProducingInv
      <4>2. s < pending.slot \/ s = pending.slot
        BY <2>2, <2>3, <4>1 DEF Slots
      <4> QED
        BY <2>1, <4>1, <4>2 DEF Handled
    <3>2. CASE ~Producing
      <4>1. Handled(s)
        BY <1>1, <2>3, <3>2, OnlyHandler DEF SlotsInv, InTime, NothingDue, Passed
      <4> QED
        BY <2>1, <4>1 DEF Handled
    <3> QED
      BY <3>1, <3>2
  <2> QED
    BY <2>1, <2>2, <2>3, SlotsScheduled
<1> QED
  BY <1>2, <1>3

LEMMA IncomingSlots ==
  ASSUME IInv, SlotsInv, NEW h \in Blocks, NEW accepted \in BOOLEAN,
         on_incoming_block(h, accepted)
  PROVE  SlotsInv'
<1>1. PICK ol \in BOOLEAN : lib_old' = ol
  BY DEF on_incoming_block, IInv
<1>2. PICK en \in BOOLEAN : enabled' = en
  BY DEF on_incoming_block
<1>3. /\ head' = h /\ UNCHANGED <<time, watermark, made>>
      /\ schedule_production_loop(h, queued, en, paused, ol,
           [left EXCEPT !.received = @ - 1], Cost)
  BY <1>1, <1>2 DEF on_incoming_block
<1>4. paused \in BOOLEAN
  BY DEF IInv
<1> QED
  BY <1>3, <1>4, SlotsInterrupted

LEMMA FlagsSlots ==
  ASSUME SlotsInv,
         UNCHANGED <<time, head, pending, mode, timer, queued, watermark, made, excused>>
  PROVE  SlotsInv'
<1>1. Producing' <=> Producing
  BY DEF Producing, Alive
<1> QED
  BY <1>1, SlotsKeep

LEMMA ResumeSlots == ASSUME IInv, SlotsInv, resume PROVE SlotsInv'
<1>1. head' = head /\ UNCHANGED <<time, watermark, made>>
  BY DEF resume
<1>2. head \in Blocks /\ enabled \in BOOLEAN /\ lib_old \in BOOLEAN
  BY DEF IInv
<1>3. CASE mode = "speculating"
  <2>1. schedule_production_loop(head, queued, enabled, FALSE, lib_old, left, Cost)
    BY <1>3 DEF resume
  <2> QED
    BY <1>1, <1>2, <2>1, SlotsInterrupted
<1>4. CASE mode # "speculating"
  BY <1>1, <1>4, FlagsSlots DEF resume
<1> QED
  BY <1>3, <1>4

LEMMA OptionsSlots ==
  ASSUME IInv, SlotsInv, NEW exceeded \in BOOLEAN, update_runtime_options(exceeded)
  PROVE  SlotsInv'
<1>1. head' = head /\ UNCHANGED <<time, watermark, made>>
  BY DEF update_runtime_options
<1>2. head \in Blocks /\ enabled \in BOOLEAN /\ paused \in BOOLEAN
  BY DEF IInv
<1>3. CASE mode = "speculating"
  <2>1. schedule_production_loop(head, queued, enabled, paused, exceeded, Switched, Cost)
    BY <1>3 DEF update_runtime_options
  <2> QED
    BY <1>1, <1>2, <2>1, SlotsInterrupted
<1>4. CASE mode # "speculating"
  BY <1>1, <1>4, FlagsSlots DEF update_runtime_options
<1> QED
  BY <1>3, <1>4

LEMMA OutdatedSlots ==
  ASSUME SlotsInv, NEW x \in queued, Outdated(x)
  PROVE  SlotsInv'
<1>1. /\ ~x.current /\ queued' = queued \ {x}
      /\ UNCHANGED <<time, head, pending, mode, timer, watermark, made, excused>>
  BY DEF Outdated
<1>2. Producing' <=> Producing
  BY <1>1 DEF Producing, Alive
<1> QED
  BY <1>1, <1>2, SlotsKeep

LEMMA ExpireSlots == ASSUME IInv, SlotsInv, Expire PROVE SlotsInv'
<1> DEFINE x == [kind |-> timer.kind, current |-> TRUE]
<1>1. /\ timer.kind # "none" /\ timer.due <= time /\ timer'.kind = "none"
      /\ queued' = queued \cup {x}
      /\ UNCHANGED <<time, head, pending, mode, watermark, made, excused>>
  BY DEF Expire, NoTimer
<1>2. x.current /\ x.kind = timer.kind
  OBVIOUS
<1>3. time \in Nat /\ timer.due \in Nat /\ timer.kind \in {"wake", "retry", "produce"}
  BY <1>1, ProducerLoopAssumption DEF IInv, Rearmed, Timers
<1>4. \A y \in queued : ~y.current
  BY <1>1 DEF IInv, Rearmed, OneCurrent
<1> HIDE DEF x
<1>5. Producing' <=> Producing
  BY <1>1, <1>2, <1>4 DEF Producing, Alive
<1>6. \A s : Handled(s)' <=> Handled(s)
  BY <1>1 DEF Handled
<1>7. NoSlotMissed' /\ ProducingInv' /\ ShipInTime' /\ RetryInTime' /\ WakeInTime'
  BY <1>1, <1>5, <1>6 DEF SlotsInv, InTime, NoSlotMissed, ProducingInv, ShipInTime,
                          RetryInTime, WakeInTime
<1>8. NothingDue'
  <2> SUFFICES ASSUME ~Producing PROVE Passed(time)
    BY <1>1, <1>5, <1>6 DEF NothingDue, Passed
  <2>1. CASE timer.kind = "produce"
    BY <2>1 DEF SlotsInv, InTime, ShipInTime, Producing, Alive
  <2>2. CASE timer.kind = "retry"
    <3>1. time <= timer.due /\ Passed(timer.due)
      BY <2>2 DEF SlotsInv, InTime, RetryInTime
    <3>2. time = timer.due
      BY <1>1, <1>3, <3>1
    <3> QED
      BY <3>1, <3>2
  <2>3. CASE timer.kind = "wake"
    <3>1. PICK w \in Slots : /\ timer.due = 2 * (w - 1) /\ time <= timer.due
                             /\ \A s \in Slots : Ours(s) /\ s < w => Handled(s) \/ Held(s)
      BY <2>3 DEF SlotsInv, InTime, WakeInTime
    <3>2. time = 2 * (w - 1) /\ Slot = w - 1
      BY <1>1, <1>3, <3>1 DEF Slot, Slots
    <3>3. ASSUME NEW s \in Slots, Ours(s), 2 * s <= time + 1 PROVE Handled(s)
      <4>1. s < w /\ ~(s > Slot + 1)
        BY <3>2, <3>3 DEF Slots
      <4> QED
        BY <3>1, <3>3, <4>1 DEF Held
    <3> QED
      BY <3>3 DEF Passed
  <2> QED
    BY <1>3, <2>1, <2>2, <2>3
<1> QED
  BY <1>7, <1>8 DEF SlotsInv, InTime

LEMMA TickSlots == ASSUME IInv, SlotsInv, Tick PROVE SlotsInv'
<1>1. /\ time' = time + 1
      /\ timer.kind # "none" => timer.due > time
      /\ \A x \in queued : ~x.current
      /\ excused' = excused \cup {s \in 1..(Slot + 2) :
           \/ s <= head.slot
           \/ s > Slot /\ (Disabled \/ (Ours(s) /\ watermark[scheduled(s)] > head.num))}
      /\ UNCHANGED <<head, pending, mode, timer, queued, watermark, made>>
  BY DEF Tick
<1>2. time \in Nat /\ timer.due \in Nat /\ head.slot \in Nat /\ pending.slot \in Nat
      /\ timer.kind \in {"none", "wake", "retry", "produce"}
  BY ProducerLoopAssumption DEF IInv, Rearmed, Timers, Blocks, Pendings
<1>3. Slot \in Nat /\ 2 * Slot <= time /\ time <= 2 * Slot + 1
  BY <1>2, SlotFacts
<1>4. \A s : Handled(s) => Handled(s)'
  BY <1>1 DEF Handled
<1>5. \A t : Passed(t) => Passed(t)'
  BY <1>4 DEF Passed
<1>6. Producing' <=> Producing
  BY <1>1 DEF Producing, Alive
<1>7. Producing => timer.kind = "produce"
  BY <1>1 DEF Producing, Alive
<1>8. timer.kind = "produce" =>
        /\ Producing /\ time + 1 <= 2 * pending.slot
        /\ \A s \in Slots : Ours(s) /\ s < pending.slot => Handled(s)
  <2> SUFFICES ASSUME timer.kind = "produce"
               PROVE  /\ Producing /\ time + 1 <= 2 * pending.slot
                      /\ \A s \in Slots : Ours(s) /\ s < pending.slot => Handled(s)
    OBVIOUS
  <2>1. mode = "producing" /\ timer.due <= 2 * pending.slot
    BY DEF SlotsInv, InTime, ShipInTime
  <2>2. Producing
    BY <2>1 DEF Producing, Alive
  <2> QED
    BY <1>1, <1>2, <2>1, <2>2 DEF SlotsInv, InTime, ProducingInv
<1>9. ASSUME NEW s \in Slots, Ours(s), 2 * s <= time PROVE Handled(s)
  <2>1. CASE timer.kind = "none"
    <3>1. Passed(time)
      BY <1>7, <2>1 DEF SlotsInv, InTime, NothingDue
    <3> QED
      BY <1>2, <1>9, <3>1 DEF Passed, Slots
  <2>2. CASE timer.kind = "produce"
    <3>1. s < pending.slot
      BY <1>2, <1>8, <1>9, <2>2 DEF Slots
    <3> QED
      BY <1>8, <1>9, <2>2, <3>1
  <2>3. CASE timer.kind = "retry"
    <3>1. Passed(timer.due) /\ time < timer.due
      BY <1>1, <1>2, <2>3 DEF SlotsInv, InTime, RetryInTime
    <3> QED
      BY <1>2, <1>9, <3>1 DEF Passed, Slots
  <2>4. CASE timer.kind = "wake"
    <3>1. PICK w \in Slots : /\ timer.due = 2 * (w - 1)
                             /\ \A r \in Slots : Ours(r) /\ r < w => Handled(r) \/ Held(r)
      BY <2>4 DEF SlotsInv, InTime, WakeInTime
    <3>2. s < w /\ ~(s > Slot + 1)
      BY <1>1, <1>2, <1>3, <1>9, <2>4, <3>1 DEF Slots
    <3> QED
      BY <1>9, <3>1, <3>2 DEF Held
  <2> QED
    BY <1>2, <2>1, <2>2, <2>3, <2>4
<1>10. NoSlotMissed'
  <2> SUFFICES ASSUME NEW s \in 1..MaxSlot, Ours(s), 2 * s < time + 1
               PROVE  s \in made' \cup excused'
    BY <1>1 DEF NoSlotMissed
  <2>1. s \in Slots /\ 2 * s <= time /\ s \in 1..(Slot + 2)
    BY <1>2, <1>3, ProducerLoopAssumption DEF Slots
  <2>2. Handled(s)
    BY <1>9, <2>1
  <2> QED
    BY <1>1, <2>1, <2>2 DEF Handled
<1>11. ProducingInv' /\ ShipInTime'
  BY <1>1, <1>4, <1>6, <1>7, <1>8 DEF SlotsInv, InTime, ProducingInv, ShipInTime
<1>12. RetryInTime'
  <2>1. timer.kind = "retry" => time + 1 <= timer.due /\ Passed(timer.due)
    BY <1>1, <1>2 DEF SlotsInv, InTime, RetryInTime
  <2> QED
    BY <1>1, <1>5, <2>1 DEF RetryInTime
<1>13. WakeInTime'
  <2> SUFFICES ASSUME timer.kind = "wake" PROVE WakeInTime'
    BY <1>1 DEF WakeInTime
  <2>1. PICK w \in Slots : /\ timer.due = 2 * (w - 1)
                           /\ \A s \in Slots : Ours(s) /\ s < w => Handled(s) \/ Held(s)
    BY DEF SlotsInv, InTime, WakeInTime
  <2>2. ASSUME NEW s \in Slots, Ours(s), s < w PROVE Handled(s)' \/ Held(s)'
    <3>1. CASE Handled(s)
      BY <1>4, <3>1
    <3>2. CASE Held(s)
      <4>1. (time + 1) \div 2 = Slot \/ (time + 1) \div 2 = Slot + 1
        BY <1>2 DEF Slot
      <4>2. s > Slot + 1 /\ watermark[scheduled(s)] > head.num
        BY <3>2 DEF Held
      <4>3. CASE s > (time + 1) \div 2 + 1
        BY <1>1, <4>2, <4>3 DEF Held, Slot
      <4>4. CASE ~(s > (time + 1) \div 2 + 1)
        <5>1. s = Slot + 2 /\ s \in 1..(Slot + 2) /\ s > Slot
          BY <1>3, <4>1, <4>2, <4>4 DEF Slots
        <5> QED
          BY <1>1, <2>2, <4>2, <5>1 DEF Handled
      <4> QED
        BY <4>3, <4>4
    <3> QED
      BY <2>1, <2>2, <3>1, <3>2
  <2>3. timer'.due = 2 * (w - 1) /\ time' <= timer'.due
    BY <1>1, <1>2, <2>1
  <2> QED
    BY <2>1, <2>2, <2>3 DEF WakeInTime
<1>14. NothingDue'
  <2> SUFFICES ASSUME timer.kind = "none", NEW s \in Slots, Ours(s), 2 * s <= time + 2
               PROVE  Handled(s)'
    BY <1>1, <1>2 DEF NothingDue, Passed
  <2>1. CASE 2 * s <= time + 1
    <3>1. Handled(s)
      BY <1>7, <2>1 DEF SlotsInv, InTime, NothingDue, Passed
    <3> QED
      BY <1>4, <3>1
  <2>2. CASE ~(2 * s <= time + 1)
    <3>1. s \in 1..(Slot + 2) /\ s > Slot
      BY <1>2, <1>3, <2>2 DEF Slots
    <3>2. ~Alive({"wake", "retry", "produce"}) /\ Local # {}
      BY <1>1 DEF Alive, Ours
    <3>3. Disabled
      BY <3>2 DEF IInv, Rearmed, LoopArmed
    <3> QED
      BY <1>1, <3>1, <3>3 DEF Handled
  <2> QED
    BY <2>1, <2>2
<1> QED
  BY <1>10, <1>11, <1>12, <1>13, <1>14 DEF SlotsInv, InTime

LEMMA InitSlots == Init => SlotsInv
<1> SUFFICES ASSUME Init PROVE SlotsInv
  OBVIOUS
<1>1. time = 2 /\ timer.kind = "retry" /\ timer.due = 2 /\ mode = "speculating" /\ excused = {1}
  BY DEF Init
<1>2. \A s \in Nat \ {0} : 2 * s <= 3 => s = 1
  OBVIOUS
<1>3. Passed(2)
  BY <1>1, <1>2 DEF Passed, Handled, Slots
<1>4. NoSlotMissed
  BY <1>1, ProducerLoopAssumption DEF NoSlotMissed
<1> QED
  BY <1>1, <1>3, <1>4 DEF SlotsInv, InTime, ProducingInv, Producing, ShipInTime,
                          RetryInTime, WakeInTime, NothingDue

(* No slot of a local producer is slept through: calculate_next_block_time *)
(* passes over none, schedule_production_loop sets the timer for the first *)
(* of them in time, and no outdated or cancelled timer loses one.          *)
THEOREM SlotsKept == Spec => []NoSlotMissed
<1>1. Init => SlotsInv
  BY InitSlots
<1>2. IInv /\ SlotsInv /\ [Next]_vars => SlotsInv'
  <2> SUFFICES ASSUME IInv, SlotsInv, [Next]_vars PROVE SlotsInv'
    OBVIOUS
  <2>1. CASE Tick
    BY <2>1, TickSlots
  <2>2. CASE Expire
    BY <2>2, ExpireSlots
  <2>3. ASSUME NEW h \in queued, Outdated(h) \/ Wake(h) \/ Ship(h) PROVE SlotsInv'
    BY <2>3, OutdatedSlots, WakeSlots, ShipSlots
  <2>4. ASSUME NEW h \in NewHeads, on_incoming_block(h, TRUE) PROVE SlotsInv'
    BY <2>4, NewHeadsAreBlocks, IncomingSlots
  <2>5. ASSUME NEW accepted \in BOOLEAN, on_incoming_block(head, accepted) PROVE SlotsInv'
    <3>1. head \in Blocks
      BY DEF IInv
    <3> QED
      BY <2>5, <3>1, IncomingSlots
  <2>6. CASE pause \/ LibAges
    BY <2>6, FlagsSlots DEF pause, LibAges
  <2>7. CASE resume
    BY <2>7, ResumeSlots
  <2>8. ASSUME NEW exceeded \in BOOLEAN, update_runtime_options(exceeded) PROVE SlotsInv'
    BY <2>8, OptionsSlots
  <2>9. CASE UNCHANGED vars
    BY <2>9, FlagsSlots DEF vars
  <2> QED
    BY <2>1, <2>2, <2>3, <2>4, <2>5, <2>6, <2>7, <2>8, <2>9 DEF Next
<1>3. SlotsInv => NoSlotMissed
  BY DEF SlotsInv
<1> QED
  BY <1>1, <1>2, <1>3, Invariance, PTL DEF Spec
===============================================================================
