--------------------------- MODULE HeaderChainProofs ---------------------------
(***************************************************************************)
(* Proofs about the headers of a sub chain, for any producers, proposals,  *)
(* length of the chain and number of tracked blocks: that no producer's    *)
(* confirmation is counted twice (ConfirmationsDistinct), that the         *)
(* irreversible block stays behind the proposed one (LibBehindProposed),   *)
(* how the two move (LibAdvances), and that schedules are numbered in the  *)
(* order they take effect (ScheduleVersions), so that the assertion of     *)
(* set_new_producers never fails.                                          *)
(***************************************************************************)
EXTENDS HeaderChain, FiniteSetTheorems, SequenceTheorems, WellFoundedInduction, TLAPS

Schedules == [version : Nat, producers : SUBSET Producers]
ProducerMaps == UNION {[S -> Nat] : S \in SUBSET Producers}

HeaderStates ==
  [block_num : Nat \ {0},
   dpos_proposed_irreversible_blocknum : Nat,
   dpos_irreversible_blocknum : Nat,
   pending_schedule_lib_num : Nat,
   pending_schedule : Schedules,
   active_schedule : Schedules,
   producer_to_last_produced : ProducerMaps,
   producer_to_last_implied_irb : ProducerMaps,
   confirm_count : Seq(Nat)]

(* Tracked blocks are the newest ones, and newer than the proposed         *)
(* irreversible block; nobody implies more than that block.                *)
LibInv(h) ==
  /\ Len(h.confirm_count) < h.block_num
  /\ h.dpos_proposed_irreversible_blocknum + Len(h.confirm_count) <= h.block_num
  /\ h.dpos_irreversible_blocknum <= h.dpos_proposed_irreversible_blocknum
  /\ \A q \in DOMAIN h.producer_to_last_implied_irb :
       h.producer_to_last_implied_irb[q] <= h.dpos_proposed_irreversible_blocknum
  /\ \A q \in DOMAIN h.producer_to_last_produced :
       h.producer_to_last_produced[q] <= h.block_num

(* Who is in the maps: from the second block on, which promotes the        *)
(* genesis schedule, the active producers.                                 *)
MapsInv(h) ==
  /\ h.block_num = 1 =>
       /\ h.active_schedule.producers = {Founder} /\ h.pending_schedule.producers = {Founder}
       /\ h.pending_schedule_lib_num = 0
       /\ h.producer_to_last_implied_irb = [q \in {} |-> 0]
       /\ h.producer_to_last_produced = [q \in {} |-> 0]
       /\ h.confirm_count = <<>>
       /\ h.dpos_irreversible_blocknum = 0 /\ h.dpos_proposed_irreversible_blocknum = 0
  /\ h.block_num > 1 =>
       /\ DOMAIN h.producer_to_last_implied_irb = h.active_schedule.producers
       /\ h.active_schedule.producers \subseteq DOMAIN h.producer_to_last_produced
  /\ h.active_schedule.producers # {}

(* The irreversible number is the one the map gives, unless the map was    *)
(* made anew by the promotion.                                             *)
ImpliedInv(h, prom) ==
  h.block_num > 1 /\ ~prom =>
    h.dpos_irreversible_blocknum = calc_dpos_last_irreversible(h.producer_to_last_implied_irb)

(* The versions of the schedules. *)
VersionInv(h, prop) ==
  /\ prop \in [schedule : Schedules, block_num : Nat]
  /\ h.block_num = 1 => prop = NotProposed
  /\ h.block_num > 1 /\ h.pending_schedule.producers # {} =>
       h.pending_schedule.version = h.active_schedule.version + 1
  /\ prop # NotProposed => prop.schedule.version = latest_schedule(h).version + 1

(* What the confirmations counted so far say about a producer's next ones: *)
(* it has confirmed nothing above its last block, or if it has left the    *)
(* schedule, nothing above the block that announced the next one.          *)
ConfirmersInv(h, conf) ==
  /\ conf \in [Nums -> SUBSET Producers]
  /\ \A k \in Nums : k > h.block_num => conf[k] = {}
  /\ \A k \in Nums : \A q \in conf[k] :
       IF q \in DOMAIN h.producer_to_last_produced THEN k <= h.producer_to_last_produced[q]
       ELSE h.pending_schedule.producers # {} => k <= h.pending_schedule_lib_num

CountInv(h, conf, rep, need) ==
  /\ need \in [Nums -> Nat]
  /\ rep \in [Nums -> Nat] /\ \A k \in Nums : k > h.block_num => rep[k] = 0
  /\ \A i \in 1..Len(h.confirm_count) :
       LET k == h.block_num - (Len(h.confirm_count) - i) IN
       /\ h.confirm_count[i] > 0
       /\ h.confirm_count[i] = need[k] - (Cardinality(conf[k]) + rep[k])
  /\ LET k == h.dpos_proposed_irreversible_blocknum IN
       k > 0 => Cardinality(conf[k]) + rep[k] >= need[k]

(* The inductive invariant. *)
IInv ==
  /\ hs \in HeaderStates /\ (hs.block_num > 1 => hs.block_num <= MaxBlock)
  /\ LibInv(hs) /\ MapsInv(hs) /\ ImpliedInv(hs, promoted)
  /\ VersionInv(hs, proposed)
  /\ ConfirmersInv(hs, confirmers) /\ CountInv(hs, confirmers, repeated, needed)
  /\ watermarks \in [Producers -> Nat] /\ \A p \in Producers : watermarks[p] <= hs.block_num

-------------------------------------------------------------------------------
(* A set of naturals has a least element. *)
LEMMA Least ==
  ASSUME NEW S \in SUBSET Nat, S # {}
  PROVE  \E m \in S : \A n \in S : m <= n
<1>1. PICK m \in S : \A n \in S : ~(<<n, m>> \in OpToRel(<, Nat))
  BY NatLessThanWellFounded, WFMin
<1>2. ASSUME NEW n \in S PROVE m <= n
  <2>1. ~(n < m)
    BY <1>1 DEF OpToRel
  <2> QED
    BY <2>1
<1> QED
  BY <1>2

LEMMA ProducersFinite ==
  ASSUME NEW D \in SUBSET Producers
  PROVE  IsFiniteSet(D) /\ Cardinality(D) \in Nat
BY HeaderAssumption, FS_Subset, FS_CardinalityType

(* calc_dpos_last_irreversible finds a number: the least one that more     *)
(* than a third of the producers do not exceed.  It is one of theirs.      *)
LEMMA CalcFacts ==
  ASSUME NEW D \in SUBSET Producers, D # {}, NEW m \in [D -> Nat], NEW B \in Nat,
         \A q \in D : m[q] <= B
  PROVE  LET k == (Cardinality(D) - 1) \div 3
             v == calc_dpos_last_irreversible(m)
         IN /\ v \in Nat /\ v <= B
            /\ Cardinality({q \in D : m[q] < v}) <= k
            /\ k < Cardinality({q \in D : m[q] <= v})
<1> DEFINE k == (Cardinality(D) - 1) \div 3
           below(v) == {q \in D : m[q] < v}
           upto(v) == {q \in D : m[q] <= v}
           S == {v \in Nat : k < Cardinality(upto(v))}
           values == {m[q] : q \in D}
<1>1. IsFiniteSet(D) /\ Cardinality(D) \in Nat /\ Cardinality(D) # 0
  BY ProducersFinite, FS_EmptySet
<1>2. k \in Nat /\ k < Cardinality(D)
  BY <1>1
<1>3. \A v : Cardinality(upto(v)) \in Nat /\ Cardinality(below(v)) \in Nat
  BY ProducersFinite
<1>4. upto(B) = D
  OBVIOUS
<1>5. S \in SUBSET Nat /\ B \in S
  BY <1>2, <1>4
<1>6. PICK v \in S : \A n \in S : v <= n
  <2> HIDE DEF S
  <2> QED BY <1>5, Least
<1>7. Cardinality(below(v)) <= k
  <2>1. CASE v = 0
    <3>1. below(v) = {}
      BY <2>1
    <3>2. Cardinality(below(v)) = 0
      BY <3>1, FS_EmptySet
    <3> QED
      BY <1>2, <3>2
  <2>2. CASE v # 0
    <3>1. v - 1 \in Nat /\ v - 1 < v
      BY <2>2
    <3>2. below(v) = upto(v - 1)
      BY <3>1
    <3>3. v - 1 \notin S
      BY <1>6, <3>1
    <3>4. ~(k < Cardinality(upto(v - 1)))
      BY <3>1, <3>3
    <3> HIDE DEF k, below, upto
    <3> QED
      BY <1>2, <1>3, <3>2, <3>4
  <2> QED
    BY <2>1, <2>2
<1>8. v \in values
  <2> SUFFICES ASSUME v \notin values PROVE FALSE
    OBVIOUS
  <2>1. below(v) = upto(v)
    BY <1>6
  <2>2. k < Cardinality(upto(v))
    BY <1>6
  <2> HIDE DEF k, below, upto
  <2> QED
    BY <1>2, <1>3, <1>7, <2>1, <2>2
<1>9. DOMAIN m = D
  OBVIOUS
<1>10. PICK c : c = calc_dpos_last_irreversible(m)
  OBVIOUS
<1>11. c = CHOOSE w \in values : Cardinality(below(w)) <= k /\ k < Cardinality(upto(w))
  BY <1>1, <1>9, <1>10 DEF calc_dpos_last_irreversible
<1>12. \E w \in values : Cardinality(below(w)) <= k /\ k < Cardinality(upto(w))
  BY <1>6, <1>7, <1>8
<1>13. c \in values /\ Cardinality(below(c)) <= k /\ k < Cardinality(upto(c))
  <2> HIDE DEF values, below, upto, k
  <2> QED BY <1>11, <1>12, Zenon
<1>14. c \in Nat /\ c <= B
  BY <1>13
<1> QED
  BY <1>10, <1>13, <1>14

(* If nobody implies less than before, the irreversible number is not      *)
(* less than before.                                                       *)
LEMMA CalcMonotone ==
  ASSUME NEW D \in SUBSET Producers, D # {}, NEW m1 \in [D -> Nat], NEW m2 \in [D -> Nat],
         NEW B \in Nat, \A q \in D : m1[q] <= m2[q] /\ m2[q] <= B
  PROVE  calc_dpos_last_irreversible(m1) <= calc_dpos_last_irreversible(m2)
<1> DEFINE k == (Cardinality(D) - 1) \div 3
<1>1. PICK v, w : v = calc_dpos_last_irreversible(m1) /\ w = calc_dpos_last_irreversible(m2)
  OBVIOUS
<1>2. \A q \in D : m1[q] <= B
  OBVIOUS
<1>3. v \in Nat /\ Cardinality({q \in D : m1[q] < v}) <= k
  BY <1>1, <1>2, CalcFacts
<1>4. w \in Nat /\ k < Cardinality({q \in D : m2[q] <= w})
  BY <1>1, CalcFacts
<1>5. ASSUME w < v PROVE FALSE
  <2>1. {q \in D : m2[q] <= w} \subseteq {q \in D : m1[q] < v}
    BY <1>3, <1>4, <1>5
  <2>2. PICK X, Y : X = {q \in D : m2[q] <= w} /\ Y = {q \in D : m1[q] < v}
    OBVIOUS
  <2>3. X \subseteq D /\ Y \subseteq D
    BY <2>2
  <2>4. IsFiniteSet(Y) /\ Cardinality(Y) \in Nat /\ Cardinality(X) \in Nat
    BY <2>3, ProducersFinite
  <2>5. Cardinality(X) <= Cardinality(Y)
    BY <2>1, <2>2, <2>4, FS_Subset
  <2>6. Cardinality(D) \in Nat
    BY ProducersFinite
  <2> QED
    BY <1>3, <1>4, <2>2, <2>4, <2>5, <2>6
<1> QED
  BY <1>1, <1>3, <1>4, <1>5


-------------------------------------------------------------------------------
(* What the steps of start_block do to the fields of a header state. *)
LEMMA MapFacts ==
  ASSUME NEW f \in ProducerMaps
  PROVE  DOMAIN f \subseteq Producers /\ f \in [DOMAIN f -> Nat]
BY DEF ProducerMaps

LEMMA PutFacts ==
  ASSUME NEW f \in ProducerMaps, NEW k \in Producers, NEW v \in Nat
  PROVE  /\ DOMAIN Put(f, k, v) = DOMAIN f \cup {k}
         /\ Put(f, k, v) \in ProducerMaps
<1>1. DOMAIN f \subseteq Producers /\ f \in [DOMAIN f -> Nat]
  BY MapFacts
<1>2. Put(f, k, v) \in [DOMAIN f \cup {k} -> Nat]
  BY <1>1 DEF Put
<1>3. DOMAIN f \cup {k} \in SUBSET Producers
  BY <1>1
<1>4. Put(f, k, v) \in ProducerMaps
  BY <1>2, <1>3 DEF ProducerMaps
<1> QED
  BY <1>4 DEF Put

LEMMA FieldTypes ==
  ASSUME NEW h \in HeaderStates
  PROVE  /\ h.block_num \in Nat \ {0} /\ h.dpos_proposed_irreversible_blocknum \in Nat
         /\ h.dpos_irreversible_blocknum \in Nat /\ h.pending_schedule_lib_num \in Nat
         /\ h.pending_schedule \in Schedules /\ h.active_schedule \in Schedules
         /\ h.active_schedule.producers \subseteq Producers
         /\ h.pending_schedule.producers \subseteq Producers
         /\ h.producer_to_last_produced \in ProducerMaps
         /\ h.producer_to_last_implied_irb \in ProducerMaps
         /\ h.confirm_count \in Seq(Nat) /\ Len(h.confirm_count) \in Nat
<1>1. /\ h.pending_schedule \in Schedules /\ h.active_schedule \in Schedules
      /\ h.confirm_count \in Seq(Nat)
  BY DEF HeaderStates
<1>2. h.active_schedule.producers \subseteq Producers /\ h.pending_schedule.producers \subseteq Producers
  BY <1>1 DEF Schedules
<1>3. Len(h.confirm_count) \in Nat
  BY <1>1, LenProperties
<1> QED
  BY <1>1, <1>2, <1>3 DEF HeaderStates

LEMMA RequiredPositive ==
  ASSUME NEW h \in HeaderStates
  PROVE  required_confs(h) \in Nat \ {0}
<1>1. PICK n : n = Cardinality(h.active_schedule.producers)
  OBVIOUS
<1>2. n \in Nat
  BY <1>1, FieldTypes, ProducersFinite
<1>3. (n * 2) \div 3 + 1 \in Nat \ {0}
  BY <1>2
<1> QED
  BY <1>1, <1>3 DEF required_confs

(* The list of counts, without its oldest if it is full, and the new one. *)
LEMMA Enlisted ==
  ASSUME NEW cc \in Seq(Nat), NEW r \in Nat
  PROVE  LET kept == IF Len(cc) < MaxTracked THEN cc ELSE Tail(cc)
             new == Append(kept, r)
         IN /\ new \in Seq(Nat)
            /\ \E d \in {0, 1} :
                 /\ Len(new) = Len(cc) - d + 1 /\ d <= Len(cc)
                 /\ new[Len(new)] = r
                 /\ \A i \in 1..(Len(new) - 1) : i + d \in 1..Len(cc) /\ new[i] = cc[i + d]
<1> DEFINE kept == IF Len(cc) < MaxTracked THEN cc ELSE Tail(cc)
           new == Append(kept, r)
<1>1. Len(cc) \in Nat /\ MaxTracked \in Nat \ {0}
  BY HeaderAssumption, LenProperties
<1>2. PICK d \in {0, 1} : /\ kept \in Seq(Nat) /\ d <= Len(cc) /\ Len(kept) = Len(cc) - d
                          /\ \A i \in 1..Len(kept) : kept[i] = cc[i + d]
  <2>1. CASE Len(cc) < MaxTracked
    <3>1. kept = cc
      BY <2>1
    <3>2. \A i \in 1..Len(kept) : kept[i] = cc[i + 0]
      BY <1>1, <3>1
    <3> QED
      BY <1>1, <3>1, <3>2
  <2>2. CASE ~(Len(cc) < MaxTracked)
    <3>1. kept = Tail(cc) /\ Len(cc) # 0 /\ Len(cc) >= 1
      BY <1>1, <2>2
    <3>2. cc # <<>>
      BY <3>1, EmptySeq
    <3>3. kept \in Seq(Nat) /\ Len(kept) = Len(cc) - 1 /\ \A i \in 1..Len(kept) : kept[i] = cc[i + 1]
      BY <3>1, <3>2, HeadTailProperties
    <3> QED
      BY <1>1, <3>1, <3>3
  <2> QED
    BY <2>1, <2>2
<1>3. new \in Seq(Nat) /\ Len(new) = Len(kept) + 1 /\ new[Len(kept) + 1] = r
      /\ \A i \in 1..Len(kept) : new[i] = kept[i]
  <2> HIDE DEF kept
  <2> QED
    BY <1>2, AppendProperties
<1> HIDE DEF kept, new
<1>4. ASSUME NEW i \in 1..(Len(new) - 1)
      PROVE  i + d \in 1..Len(cc) /\ new[i] = cc[i + d]
  <2>1. i \in 1..Len(kept)
    BY <1>1, <1>2, <1>3
  <2>2. i + d \in 1..Len(cc)
    BY <1>1, <1>2, <2>1
  <2> QED
    BY <1>2, <1>3, <2>1, <2>2
<1>5. Len(new) = Len(cc) - d + 1 /\ new[Len(new)] = r
  BY <1>1, <1>2, <1>3
<1> QED
  BY <1>2, <1>3, <1>4, <1>5 DEF new, kept

LEMMA Generated ==
  ASSUME NEW h \in HeaderStates, LibInv(h), MapsInv(h), NEW p \in h.active_schedule.producers
  PROVE  LET g == generate_next(h, p)
             cc == g.confirm_count
         IN /\ g \in HeaderStates /\ g.block_num = h.block_num + 1
            /\ g.dpos_proposed_irreversible_blocknum = h.dpos_proposed_irreversible_blocknum
            /\ g.pending_schedule_lib_num = h.pending_schedule_lib_num
            /\ g.pending_schedule = h.pending_schedule /\ g.active_schedule = h.active_schedule
            /\ g.producer_to_last_produced = Put(h.producer_to_last_produced, p, h.block_num + 1)
            /\ g.producer_to_last_implied_irb =
                 Put(h.producer_to_last_implied_irb, p, h.dpos_proposed_irreversible_blocknum)
            /\ DOMAIN g.producer_to_last_implied_irb = h.active_schedule.producers
            /\ g.dpos_irreversible_blocknum = calc_dpos_last_irreversible(g.producer_to_last_implied_irb)
            /\ g.dpos_irreversible_blocknum <= h.dpos_proposed_irreversible_blocknum
            /\ \A q \in DOMAIN g.producer_to_last_implied_irb :
                 g.producer_to_last_implied_irb[q] <= h.dpos_proposed_irreversible_blocknum
            /\ \E d \in {0, 1} :
                 /\ Len(cc) = Len(h.confirm_count) - d + 1 /\ d <= Len(h.confirm_count)
                 /\ cc[Len(cc)] = required_confs(h)
                 /\ \A i \in 1..(Len(cc) - 1) : /\ i + d \in 1..Len(h.confirm_count)
                                                /\ cc[i] = h.confirm_count[i + d]
<1>1. PICK lp, imp, prop, act, n, cc, r :
        /\ lp = h.producer_to_last_produced /\ imp = h.producer_to_last_implied_irb
        /\ prop = h.dpos_proposed_irreversible_blocknum /\ act = h.active_schedule.producers
        /\ n = h.block_num + 1 /\ cc = h.confirm_count /\ r = required_confs(h)
  OBVIOUS
<1>2. /\ lp \in ProducerMaps /\ imp \in ProducerMaps /\ prop \in Nat /\ act \subseteq Producers
      /\ n \in Nat \ {0} /\ cc \in Seq(Nat) /\ r \in Nat /\ p \in act /\ p \in Producers
  BY <1>1, FieldTypes, RequiredPositive
<1>3. PICK imp2, lp2, kept, cc2, v :
        /\ imp2 = Put(imp, p, prop) /\ lp2 = Put(lp, p, n)
        /\ kept = (IF Len(cc) < MaxTracked THEN cc ELSE Tail(cc)) /\ cc2 = Append(kept, r)
        /\ v = calc_dpos_last_irreversible(imp2)
  OBVIOUS
<1>4. generate_next(h, p) =
        [h EXCEPT !.block_num = n, !.producer_to_last_produced = lp2,
                  !.producer_to_last_implied_irb = imp2, !.dpos_irreversible_blocknum = v,
                  !.confirm_count = cc2]
  BY <1>1, <1>3 DEF generate_next
<1>5. DOMAIN imp2 = DOMAIN imp \cup {p} /\ imp2 \in ProducerMaps /\ lp2 \in ProducerMaps
      /\ \A j \in DOMAIN imp \cup {p} : imp2[j] = IF j = p THEN prop ELSE imp[j]
  <2>1. n \in Nat
    BY <1>2
  <2>2. lp2 \in ProducerMaps
    BY <1>2, <1>3, <2>1, PutFacts
  <2>3. /\ DOMAIN Put(imp, p, prop) = DOMAIN imp \cup {p} /\ Put(imp, p, prop) \in ProducerMaps
    BY <1>2, PutFacts
  <2>4. \A j \in DOMAIN imp \cup {p} : Put(imp, p, prop)[j] = IF j = p THEN prop ELSE imp[j]
    BY DEF Put
  <2> QED
    BY <1>3, <2>2, <2>3, <2>4
<1>6. DOMAIN imp2 = act
  <2>1. CASE h.block_num = 1
    <3>1. DOMAIN imp = {} /\ act = {Founder}
      BY <1>1, <2>1 DEF MapsInv
    <3> QED
      BY <1>2, <1>5, <3>1
  <2>2. CASE h.block_num # 1
    <3>1. h.block_num > 1
      BY <2>2, FieldTypes
    <3>2. DOMAIN imp = act
      BY <1>1, <3>1 DEF MapsInv
    <3> QED
      BY <1>2, <1>5, <3>2
  <2> QED
    BY <2>1, <2>2
<1>7. imp2 \in [act -> Nat]
  BY <1>5, <1>6, MapFacts
<1>8. \A q \in act : imp2[q] <= prop
  BY <1>1, <1>2, <1>5, <1>6 DEF LibInv
<1>9. v \in Nat /\ v <= prop
  BY <1>2, <1>3, <1>7, <1>8, CalcFacts
<1>10. /\ cc2 \in Seq(Nat)
       /\ \E d \in {0, 1} :
            /\ Len(cc2) = Len(cc) - d + 1 /\ d <= Len(cc) /\ cc2[Len(cc2)] = r
            /\ \A i \in 1..(Len(cc2) - 1) : i + d \in 1..Len(cc) /\ cc2[i] = cc[i + d]
  BY <1>2, <1>3, Enlisted
<1>11. PICK g : g = generate_next(h, p)
  OBVIOUS
<1>12. /\ g \in HeaderStates /\ g.block_num = n
       /\ g.dpos_proposed_irreversible_blocknum = prop
       /\ g.pending_schedule_lib_num = h.pending_schedule_lib_num
       /\ g.pending_schedule = h.pending_schedule /\ g.active_schedule = h.active_schedule
       /\ g.producer_to_last_produced = lp2 /\ g.producer_to_last_implied_irb = imp2
       /\ g.dpos_irreversible_blocknum = v /\ g.confirm_count = cc2
  BY <1>1, <1>2, <1>4, <1>5, <1>9, <1>10, <1>11 DEF HeaderStates
<1> QED
  BY <1>1, <1>3, <1>6, <1>8, <1>9, <1>10, <1>11, <1>12


(* No count of a tracked block is 0. *)
CountsPositive(h) == \A i \in 1..Len(h.confirm_count) : h.confirm_count[i] > 0

(* How the counts of s come from those of g: t is the place of the block   *)
(* that is proposed irreversible, 0 if there is none.                      *)
CountedDown(g, c, s) ==
  LET cc == g.confirm_count
      low == Len(cc) - c
  IN \E t \in 0..Len(cc) :
       /\ Len(s.confirm_count) = Len(cc) - t
       /\ \A i \in 1..(Len(cc) - t) :
            /\ s.confirm_count[i] = IF i + t >= low THEN cc[i + t] - 1 ELSE cc[i + t]
            /\ s.confirm_count[i] > 0
       /\ IF t = 0
          THEN s.dpos_proposed_irreversible_blocknum = g.dpos_proposed_irreversible_blocknum
          ELSE /\ s.dpos_proposed_irreversible_blocknum = g.block_num - (Len(cc) - t)
               /\ cc[t] = 1 /\ t >= low

(* set_confirmed touches nothing else. *)
LEMMA Confirmed ==
  ASSUME NEW g \in HeaderStates, NEW c \in Nat, CountsPositive(g),
         Len(g.confirm_count) <= g.block_num
  PROVE  LET s == set_confirmed(g, c)
         IN /\ s \in HeaderStates /\ s.block_num = g.block_num
            /\ s.dpos_irreversible_blocknum = g.dpos_irreversible_blocknum
            /\ s.pending_schedule_lib_num = g.pending_schedule_lib_num
            /\ s.pending_schedule = g.pending_schedule /\ s.active_schedule = g.active_schedule
            /\ s.producer_to_last_produced = g.producer_to_last_produced
            /\ s.producer_to_last_implied_irb = g.producer_to_last_implied_irb
            /\ CountedDown(g, c, s)
<1>1. PICK cc, n, low : cc = g.confirm_count /\ n = g.block_num /\ low = Len(cc) - c
  OBVIOUS
<1>2. cc \in Seq(Nat) /\ Len(cc) \in Nat /\ n \in Nat \ {0} /\ low \in Int /\ Len(cc) <= n
      /\ \A i \in 1..Len(cc) : cc[i] \in Nat \ {0}
  BY <1>1, FieldTypes, ElementOfSeq DEF CountsPositive
<1>3. PICK met, less :
        /\ met = {i \in 1..Len(cc) : i >= low /\ cc[i] = 1}
        /\ less = [i \in 1..Len(cc) |-> IF i >= low THEN cc[i] - 1 ELSE cc[i]]
  OBVIOUS
<1>4. less \in Seq(Nat) /\ Len(less) = Len(cc)
      /\ \A i \in 1..Len(cc) : less[i] = IF i >= low THEN cc[i] - 1 ELSE cc[i]
  <2>1. less \in [1..Len(cc) -> Nat]
    BY <1>2, <1>3
  <2>2. less \in Seq(Nat)
    <3>1. \E k \in Nat : less \in [1..k -> Nat]
      BY <1>2, <2>1
    <3> QED
      BY <3>1, SeqDef
  <2>3. DOMAIN less = 1..Len(cc) /\ DOMAIN less = 1..Len(less) /\ Len(less) \in Nat
    BY <2>1, <2>2, LenProperties
  <2>4. Len(less) = Len(cc)
    BY <1>2, <2>3
  <2> QED
    BY <1>3, <2>2, <2>4
<1>5. PICK s : s = set_confirmed(g, c)
  OBVIOUS
<1>6. CASE met = {}
  <2>1. s = [g EXCEPT !.confirm_count = less]
    BY <1>1, <1>3, <1>5, <1>6 DEF set_confirmed
  <2>2. s \in HeaderStates /\ s.confirm_count = less /\ s.block_num = g.block_num
        /\ s.dpos_irreversible_blocknum = g.dpos_irreversible_blocknum
        /\ s.dpos_proposed_irreversible_blocknum = g.dpos_proposed_irreversible_blocknum
        /\ s.pending_schedule_lib_num = g.pending_schedule_lib_num
        /\ s.pending_schedule = g.pending_schedule /\ s.active_schedule = g.active_schedule
        /\ s.producer_to_last_produced = g.producer_to_last_produced
        /\ s.producer_to_last_implied_irb = g.producer_to_last_implied_irb
    BY <1>4, <2>1 DEF HeaderStates
  <2>3. ASSUME NEW i \in 1..(Len(cc) - 0)
        PROVE  /\ less[i] = IF i + 0 >= low THEN cc[i + 0] - 1 ELSE cc[i + 0]
               /\ less[i] > 0
    <3>1. i \in 1..Len(cc) /\ i + 0 = i
      BY <1>2
    <3>2. i >= low => cc[i] # 1
      BY <1>3, <1>6, <3>1
    <3>3. cc[i] \in Nat \ {0}
      BY <1>2, <3>1
    <3>4. less[i] = IF i >= low THEN cc[i] - 1 ELSE cc[i]
      BY <1>4, <3>1
    <3> QED
      BY <3>1, <3>2, <3>3, <3>4
  <2>4. 0 \in 0..Len(cc) /\ Len(less) = Len(cc) - 0
    BY <1>2, <1>4
  <2> QED
    BY <1>1, <1>5, <2>2, <2>3, <2>4 DEF CountedDown
<1>7. CASE met # {}
  <2>1. PICK t \in met : \A j \in met : j <= t
    <3>1. {Len(cc) - i : i \in met} \in SUBSET Nat /\ {Len(cc) - i : i \in met} # {}
      BY <1>2, <1>3, <1>7
    <3>2. PICK m \in {Len(cc) - i : i \in met} : \A x \in {Len(cc) - i : i \in met} : m <= x
      BY <3>1, Least
    <3>3. PICK t \in met : m = Len(cc) - t
      BY <3>2
    <3>4. \A j \in met : Len(cc) - t <= Len(cc) - j
      BY <3>2, <3>3
    <3>5. \A j \in met : j \in Nat
      BY <1>2, <1>3
    <3> QED
      BY <1>2, <3>3, <3>4, <3>5
  <2>2. t \in 1..Len(cc) /\ t >= low /\ cc[t] = 1
    BY <1>3, <2>1
  <2>3. t = CHOOSE i \in met : \A j \in met : j <= i
    <3>1. \A i \in met : (\A j \in met : j <= i) => i = t
      <4> SUFFICES ASSUME NEW i \in met, \A j \in met : j <= i PROVE i = t
        OBVIOUS
      <4>1. i <= t /\ t <= i /\ i \in Nat /\ t \in Nat
        BY <1>2, <1>3, <2>1, <2>2
      <4> QED
        BY <4>1
    <3> QED
      BY <2>1, <3>1, Zenon
  <2>4. s = [g EXCEPT !.confirm_count = SubSeq(less, t + 1, Len(cc)),
                      !.dpos_proposed_irreversible_blocknum = n - (Len(cc) - t)]
    BY <1>1, <1>3, <1>5, <1>7, <2>3 DEF set_confirmed
  <2>5. PICK cut, k : cut = SubSeq(less, t + 1, Len(cc)) /\ k = n - (Len(cc) - t)
    OBVIOUS
  <2>6. cut \in Seq(Nat) /\ Len(cut) = Len(cc) - t
        /\ \A i \in 1..(Len(cc) - t) : cut[i] = less[i + t]
    <3>1. \A i \in (t + 1)..Len(cc) : i \in 1..Len(less)
      BY <1>2, <1>4, <2>2
    <3>2. \A i \in (t + 1)..Len(cc) : less[i] \in Nat
      BY <1>4, <3>1, ElementOfSeq
    <3>3. t + 1 \in Int /\ Len(cc) \in Int
      BY <1>2, <2>2
    <3>4. /\ cut \in Seq(Nat)
          /\ Len(cut) = IF t + 1 <= Len(cc) THEN Len(cc) - (t + 1) + 1 ELSE 0
          /\ \A i \in 1..(Len(cc) - (t + 1) + 1) : cut[i] = less[t + 1 + i - 1]
      BY <2>5, <3>2, <3>3, SubSeqProperties
    <3>5. Len(cc) - (t + 1) + 1 = Len(cc) - t /\ (~(t + 1 <= Len(cc)) => Len(cc) - t = 0)
      BY <1>2, <2>2
    <3>6. \A i \in 1..(Len(cc) - t) : t + 1 + i - 1 = i + t
      BY <1>2, <2>2
    <3> QED
      BY <3>4, <3>5, <3>6
  <2>7. k \in Nat
    BY <1>2, <2>2, <2>5
  <2>8. s \in HeaderStates /\ s.confirm_count = cut /\ s.block_num = g.block_num
        /\ s.dpos_irreversible_blocknum = g.dpos_irreversible_blocknum
        /\ s.dpos_proposed_irreversible_blocknum = k
        /\ s.pending_schedule_lib_num = g.pending_schedule_lib_num
        /\ s.pending_schedule = g.pending_schedule /\ s.active_schedule = g.active_schedule
        /\ s.producer_to_last_produced = g.producer_to_last_produced
        /\ s.producer_to_last_implied_irb = g.producer_to_last_implied_irb
    BY <2>4, <2>5, <2>6, <2>7 DEF HeaderStates
  <2>9. ASSUME NEW i \in 1..(Len(cc) - t)
        PROVE  /\ cut[i] = IF i + t >= low THEN cc[i + t] - 1 ELSE cc[i + t]
               /\ cut[i] > 0
    <3>1. i + t \in 1..Len(cc) /\ ~(i + t <= t)
      BY <1>2, <2>2
    <3>2. i + t >= low => cc[i + t] # 1
      BY <1>3, <2>1, <3>1
    <3>3. cc[i + t] \in Nat \ {0}
      BY <1>2, <3>1
    <3>4. cut[i] = IF i + t >= low THEN cc[i + t] - 1 ELSE cc[i + t]
      BY <1>4, <2>6, <3>1
    <3> QED
      BY <3>2, <3>3, <3>4
  <2>10. t \in 0..Len(cc) /\ t # 0
    BY <1>2, <2>2
  <2> QED
    BY <1>1, <1>5, <2>2, <2>5, <2>6, <2>8, <2>9, <2>10 DEF CountedDown
<1> QED
  BY <1>6, <1>7


(* maybe_promote_pending, where it promotes. *)
LEMMA Promoted ==
  ASSUME NEW s \in HeaderStates, promotable(s), NEW p \in Producers
  PROVE  LET m == maybe_promote_pending(s, p)
             lib == s.dpos_irreversible_blocknum
             new == s.pending_schedule.producers
         IN /\ m \in HeaderStates /\ m.block_num = s.block_num
            /\ m.dpos_irreversible_blocknum = lib
            /\ m.dpos_proposed_irreversible_blocknum = s.dpos_proposed_irreversible_blocknum
            /\ m.pending_schedule_lib_num = s.pending_schedule_lib_num
            /\ m.confirm_count = s.confirm_count
            /\ m.active_schedule = s.pending_schedule /\ m.pending_schedule = None
            /\ DOMAIN m.producer_to_last_implied_irb = new
            /\ \A q \in new : m.producer_to_last_implied_irb[q] =
                 IF q \in DOMAIN s.producer_to_last_implied_irb
                 THEN s.producer_to_last_implied_irb[q] ELSE lib
            /\ DOMAIN m.producer_to_last_produced = new \cup {p}
            /\ \A q \in new \cup {p} : m.producer_to_last_produced[q] =
                 IF q = p THEN s.block_num
                 ELSE IF q \in DOMAIN s.producer_to_last_produced
                      THEN s.producer_to_last_produced[q] ELSE lib
<1> DEFINE carry(f) == [q \in s.pending_schedule.producers |->
                          IF q \in DOMAIN f THEN f[q] ELSE s.dpos_irreversible_blocknum]
<1>1. PICK lp, imp, lib, new :
        /\ lp = s.producer_to_last_produced /\ imp = s.producer_to_last_implied_irb
        /\ lib = s.dpos_irreversible_blocknum /\ new = s.pending_schedule.producers
  OBVIOUS
<1>2. lp \in ProducerMaps /\ imp \in ProducerMaps /\ lib \in Nat /\ new \subseteq Producers
      /\ s.block_num \in Nat /\ s.pending_schedule \in Schedules
  BY <1>1, FieldTypes
<1>3. ASSUME NEW f \in ProducerMaps
      PROVE  carry(f) \in ProducerMaps /\ DOMAIN carry(f) = new
             /\ \A q \in new : carry(f)[q] = IF q \in DOMAIN f THEN f[q] ELSE lib
  <2>1. f \in [DOMAIN f -> Nat]
    BY MapFacts
  <2>2. carry(f) \in [new -> Nat]
    BY <1>1, <1>2, <2>1
  <2> QED
    BY <1>1, <1>2, <2>2 DEF ProducerMaps
<1>4. PICK imp2, lp1, lp2 : imp2 = carry(imp) /\ lp1 = carry(lp) /\ lp2 = Put(lp1, p, s.block_num)
  OBVIOUS
<1>5. maybe_promote_pending(s, p) =
        [s EXCEPT !.active_schedule = s.pending_schedule, !.pending_schedule = None,
                  !.producer_to_last_produced = lp2, !.producer_to_last_implied_irb = imp2]
  BY <1>1, <1>4 DEF maybe_promote_pending
<1> HIDE DEF carry
<1>6. /\ imp2 \in ProducerMaps /\ lp1 \in ProducerMaps /\ DOMAIN imp2 = new /\ DOMAIN lp1 = new
      /\ \A q \in new : imp2[q] = IF q \in DOMAIN imp THEN imp[q] ELSE lib
      /\ \A q \in new : lp1[q] = IF q \in DOMAIN lp THEN lp[q] ELSE lib
  BY <1>2, <1>3, <1>4
<1>7. /\ lp2 \in ProducerMaps /\ DOMAIN lp2 = new \cup {p}
      /\ \A q \in new \cup {p} : lp2[q] = IF q = p THEN s.block_num ELSE lp1[q]
  <2>1. /\ Put(lp1, p, s.block_num) \in ProducerMaps
        /\ DOMAIN Put(lp1, p, s.block_num) = DOMAIN lp1 \cup {p}
    BY <1>2, <1>6, PutFacts
  <2>2. \A q \in DOMAIN lp1 \cup {p} :
          Put(lp1, p, s.block_num)[q] = IF q = p THEN s.block_num ELSE lp1[q]
    BY DEF Put
  <2> QED
    BY <1>4, <1>6, <2>1, <2>2
<1>8. None \in Schedules
  BY DEF None, Schedules
<1>9. PICK m : m = maybe_promote_pending(s, p)
  OBVIOUS
<1>10. /\ m \in HeaderStates /\ m.block_num = s.block_num /\ m.dpos_irreversible_blocknum = lib
       /\ m.dpos_proposed_irreversible_blocknum = s.dpos_proposed_irreversible_blocknum
       /\ m.pending_schedule_lib_num = s.pending_schedule_lib_num
       /\ m.confirm_count = s.confirm_count
       /\ m.active_schedule = s.pending_schedule /\ m.pending_schedule = None
       /\ m.producer_to_last_implied_irb = imp2 /\ m.producer_to_last_produced = lp2
  BY <1>1, <1>2, <1>5, <1>6, <1>7, <1>8, <1>9 DEF HeaderStates
<1>11. ASSUME NEW q \in new \cup {p}
       PROVE  lp2[q] = IF q = p THEN s.block_num ELSE IF q \in DOMAIN lp THEN lp[q] ELSE lib
  BY <1>6, <1>7
<1> QED
  BY <1>1, <1>6, <1>7, <1>9, <1>10, <1>11


LEMMA GeneratedPositive ==
  ASSUME NEW h \in HeaderStates, LibInv(h), MapsInv(h), CountsPositive(h),
         NEW p \in h.active_schedule.producers
  PROVE  LET g == generate_next(h, p)
         IN CountsPositive(g) /\ Len(g.confirm_count) <= h.block_num
            /\ h.dpos_proposed_irreversible_blocknum + Len(g.confirm_count) <= h.block_num + 1
<1>1. PICK g, cc, hc : g = generate_next(h, p) /\ cc = g.confirm_count /\ hc = h.confirm_count
  OBVIOUS
<1>2. g \in HeaderStates
  BY <1>1, Generated
<1>3. PICK d \in {0, 1} :
        /\ Len(cc) = Len(hc) - d + 1 /\ d <= Len(hc) /\ cc[Len(cc)] = required_confs(h)
        /\ \A i \in 1..(Len(cc) - 1) : i + d \in 1..Len(hc) /\ cc[i] = hc[i + d]
  BY <1>1, Generated
<1>4. Len(hc) \in Nat /\ h.block_num \in Nat /\ h.dpos_proposed_irreversible_blocknum \in Nat
  BY <1>1, FieldTypes
<1>5. required_confs(h) > 0
  BY RequiredPositive
<1>6. ASSUME NEW i \in 1..Len(cc) PROVE cc[i] > 0
  <2>1. CASE i = Len(cc)
    BY <1>3, <1>5, <2>1
  <2>2. CASE i # Len(cc)
    <3>1. i \in 1..(Len(cc) - 1)
      BY <1>3, <1>4, <2>2
    <3>2. i + d \in 1..Len(hc) /\ cc[i] = hc[i + d]
      BY <1>3, <3>1
    <3> QED
      BY <1>1, <3>2 DEF CountsPositive
  <2> QED
    BY <2>1, <2>2
<1>7. Len(hc) < h.block_num /\ h.dpos_proposed_irreversible_blocknum + Len(hc) <= h.block_num
  BY <1>1 DEF LibInv
<1>8. Len(cc) <= h.block_num /\ h.dpos_proposed_irreversible_blocknum + Len(cc) <= h.block_num + 1
  BY <1>3, <1>4, <1>7
<1> QED
  BY <1>1, <1>6, <1>8 DEF CountsPositive

(* The header state before the schedules are looked at. *)
LEMMA Counted ==
  ASSUME NEW h \in HeaderStates, LibInv(h), MapsInv(h), CountsPositive(h),
         NEW p \in h.active_schedule.producers, NEW c \in Nat
  PROVE  LET s == set_confirmed(generate_next(h, p), c)
             prop == h.dpos_proposed_irreversible_blocknum
         IN /\ s \in HeaderStates /\ s.block_num = h.block_num + 1
            /\ s.pending_schedule_lib_num = h.pending_schedule_lib_num
            /\ s.pending_schedule = h.pending_schedule /\ s.active_schedule = h.active_schedule
            /\ s.producer_to_last_produced = Put(h.producer_to_last_produced, p, h.block_num + 1)
            /\ s.producer_to_last_implied_irb = Put(h.producer_to_last_implied_irb, p, prop)
            /\ DOMAIN s.producer_to_last_implied_irb = h.active_schedule.producers
            /\ s.dpos_irreversible_blocknum = calc_dpos_last_irreversible(s.producer_to_last_implied_irb)
            /\ s.dpos_irreversible_blocknum <= prop
            /\ prop <= s.dpos_proposed_irreversible_blocknum
            /\ \A q \in DOMAIN s.producer_to_last_implied_irb : s.producer_to_last_implied_irb[q] <= prop
            /\ Len(s.confirm_count) < s.block_num
            /\ s.dpos_proposed_irreversible_blocknum + Len(s.confirm_count) <= s.block_num
<1>1. PICK g, s, n, cc, prop :
        /\ g = generate_next(h, p) /\ s = set_confirmed(g, c) /\ n = h.block_num + 1
        /\ cc = g.confirm_count /\ prop = h.dpos_proposed_irreversible_blocknum
  OBVIOUS
<1>2. /\ g \in HeaderStates /\ g.block_num = n /\ g.dpos_proposed_irreversible_blocknum = prop
      /\ g.pending_schedule_lib_num = h.pending_schedule_lib_num
      /\ g.pending_schedule = h.pending_schedule /\ g.active_schedule = h.active_schedule
      /\ g.producer_to_last_produced = Put(h.producer_to_last_produced, p, n)
      /\ g.producer_to_last_implied_irb = Put(h.producer_to_last_implied_irb, p, prop)
      /\ DOMAIN g.producer_to_last_implied_irb = h.active_schedule.producers
      /\ g.dpos_irreversible_blocknum = calc_dpos_last_irreversible(g.producer_to_last_implied_irb)
      /\ g.dpos_irreversible_blocknum <= prop
      /\ \A q \in DOMAIN g.producer_to_last_implied_irb : g.producer_to_last_implied_irb[q] <= prop
  BY <1>1, Generated
<1>3. CountsPositive(g) /\ Len(cc) <= h.block_num /\ prop + Len(cc) <= n
  BY <1>1, GeneratedPositive
<1>4. Len(cc) \in Nat /\ h.block_num \in Nat /\ n \in Nat /\ prop \in Nat /\ n = h.block_num + 1
      /\ Len(cc) < n
  BY <1>1, <1>2, <1>3, FieldTypes
<1>5. /\ s \in HeaderStates /\ s.block_num = g.block_num
      /\ s.dpos_irreversible_blocknum = g.dpos_irreversible_blocknum
      /\ s.pending_schedule_lib_num = g.pending_schedule_lib_num
      /\ s.pending_schedule = g.pending_schedule /\ s.active_schedule = g.active_schedule
      /\ s.producer_to_last_produced = g.producer_to_last_produced
      /\ s.producer_to_last_implied_irb = g.producer_to_last_implied_irb
      /\ CountedDown(g, c, s)
  <2>1. Len(g.confirm_count) <= g.block_num
    BY <1>1, <1>2, <1>4
  <2> QED
    BY <1>1, <1>2, <1>3, <2>1, Confirmed
<1>6. PICK t \in 0..Len(cc) :
        /\ Len(s.confirm_count) = Len(cc) - t
        /\ IF t = 0 THEN s.dpos_proposed_irreversible_blocknum = prop
           ELSE s.dpos_proposed_irreversible_blocknum = n - (Len(cc) - t)
  BY <1>1, <1>2, <1>5 DEF CountedDown
<1>7. /\ prop <= s.dpos_proposed_irreversible_blocknum
      /\ s.dpos_proposed_irreversible_blocknum + Len(s.confirm_count) <= n
      /\ Len(s.confirm_count) < n
  BY <1>3, <1>4, <1>6, SMTT(60)
<1> QED
  BY <1>1, <1>2, <1>5, <1>7

(* What start_block records of the confirmations in the header. *)
InRange(h, p, c, k) ==
  /\ h.block_num + 1 - c <= k
  /\ h.block_num + 1 - Len(generate_next(h, p).confirm_count) < k
  /\ k <= h.block_num + 1

Recorded(h, p, c, conf, rep, need, conf2, rep2, need2) ==
  /\ conf2 = [k \in Nums |-> conf[k] \cup (IF InRange(h, p, c, k) THEN {p} ELSE {})]
  /\ rep2 = [k \in Nums |->
               rep[k] + (IF InRange(h, p, c, k) /\ c > h.block_num + 1 /\ p \in conf[k]
                         THEN 1 ELSE 0)]
  /\ need2 = [need EXCEPT ![h.block_num + 1] = required_confs(h)]

(* The test of next() is about integers when the count does not wrap. *)
LEMMA NoWrap ==
  ASSUME NEW x \in Nat, x <= MaxBlock
  PROVE  x % Modulus = x
<1>1. x < Modulus /\ Modulus \in Nat \ {0}
  BY ChainAssumption, HeaderAssumption
<1> QED
  BY <1>1

(* Each producer that confirms a tracked block is counted once for it, if  *)
(* its count does not wrap around.                                         *)
LEMMA CountStep ==
  ASSUME NEW h \in HeaderStates, LibInv(h), MapsInv(h), NEW conf, NEW rep, NEW need,
         ConfirmersInv(h, conf), CountInv(h, conf, rep, need),
         NEW p \in h.active_schedule.producers, NEW c \in Nat,
         confirms_new_range(h, p, c), h.block_num < MaxBlock,
         NEW conf2, NEW rep2, NEW need2, Recorded(h, p, c, conf, rep, need, conf2, rep2, need2)
  PROVE  CountInv(set_confirmed(generate_next(h, p), c), conf2, rep2, need2)
<1>1. PICK g, s, n, cc, hc, prop, L, H :
        /\ g = generate_next(h, p) /\ s = set_confirmed(g, c) /\ n = h.block_num + 1
        /\ cc = g.confirm_count /\ hc = h.confirm_count
        /\ prop = h.dpos_proposed_irreversible_blocknum /\ L = Len(cc) /\ H = Len(hc)
  OBVIOUS
<1>2. CountsPositive(h)
  BY DEF CountInv, CountsPositive
<1>3. g \in HeaderStates /\ g.block_num = n /\ g.dpos_proposed_irreversible_blocknum = prop
  BY <1>1, Generated
<1>4. CountsPositive(g) /\ L <= h.block_num /\ prop + L <= n
  BY <1>1, <1>2, GeneratedPositive
<1>5. /\ L \in Nat /\ H \in Nat /\ h.block_num \in Nat \ {0} /\ n \in Nat /\ prop \in Nat
      /\ n = h.block_num + 1 /\ MaxBlock \in Nat /\ n \in Nums /\ prop <= h.block_num
  <2>1. /\ L \in Nat /\ H \in Nat /\ h.block_num \in Nat \ {0} /\ prop \in Nat
        /\ n = h.block_num + 1 /\ MaxBlock \in Nat
    BY <1>1, <1>3, FieldTypes, ChainAssumption
  <2>2. prop + H <= h.block_num
    BY <1>1 DEF LibInv
  <2> QED
    BY <2>1, <2>2 DEF Nums
<1>6. PICK d \in {0, 1} :
        /\ L = H - d + 1 /\ d <= H /\ cc[L] = required_confs(h)
        /\ \A i \in 1..(L - 1) : i + d \in 1..H /\ cc[i] = hc[i + d]
  BY <1>1, Generated
<1>7. /\ conf \in [Nums -> SUBSET Producers] /\ need \in [Nums -> Nat] /\ rep \in [Nums -> Nat]
      /\ \A k \in Nums : IsFiniteSet(conf[k]) /\ Cardinality(conf[k]) \in Nat /\ rep[k] \in Nat
      /\ p \in Producers /\ required_confs(h) \in Nat
  <2>1. /\ conf \in [Nums -> SUBSET Producers] /\ need \in [Nums -> Nat] /\ p \in Producers
        /\ rep \in [Nums -> Nat]
    BY FieldTypes DEF ConfirmersInv, CountInv
  <2> QED
    BY <2>1, ProducersFinite, RequiredPositive
<1>8. need2 \in [Nums -> Nat] /\ need2[n] = required_confs(h) /\ \A k \in Nums \ {n} : need2[k] = need[k]
  BY <1>1, <1>5, <1>7 DEF Recorded
<1>9. conf[n] = {} /\ Cardinality(conf[n]) = 0 /\ rep[n] = 0
  <2>1. n > h.block_num
    BY <1>5
  <2> QED
    BY <1>5, <2>1, FS_EmptySet DEF ConfirmersInv, CountInv
<1>10. ASSUME NEW j \in 1..L, NEW k, k = n - (L - j)
       PROVE  /\ k \in Nums /\ n - L < k /\ k <= n
              /\ cc[j] = need2[k] - (Cardinality(conf[k]) + rep[k])
              /\ k >= n - c /\ c <= n => p \notin conf[k]
  <2>1. k \in Nums /\ n - L < k /\ k <= n
    BY <1>4, <1>5, <1>10 DEF Nums
  <2>2. CASE j = L
    <3>1. k = n
      BY <1>5, <1>10, <2>2
    <3>2. cc[j] = required_confs(h) - (0 + 0)
      BY <1>6, <1>7, <2>2
    <3>3. need2[k] = required_confs(h) /\ Cardinality(conf[k]) = 0 /\ p \notin conf[k] /\ rep[k] = 0
      BY <1>8, <1>9, <3>1
    <3> QED
      BY <2>1, <3>2, <3>3
  <2>3. CASE j # L
    <3>1. j \in 1..(L - 1)
      BY <1>5, <2>3
    <3>2. j + d \in 1..H /\ cc[j] = hc[j + d]
      BY <1>6, <3>1
    <3>3. h.block_num - (H - (j + d)) = k /\ k # n /\ H # 0
      BY <1>5, <1>6, <1>10, <2>3, <3>2
    <3>4. hc[j + d] = need[k] - (Cardinality(conf[k]) + rep[k])
      BY <1>1, <3>2, <3>3 DEF CountInv
    <3>5. h.block_num > 1
      <4>1. hc # <<>>
        BY <1>1, <3>3, EmptySeq
      <4>2. h.block_num # 1
        BY <1>1, <4>1 DEF MapsInv
      <4> QED
        BY <1>5, <4>2
    <3>6. p \in DOMAIN h.producer_to_last_produced
      BY <3>5 DEF MapsInv
    <3>7. ASSUME c <= n PROVE h.producer_to_last_produced[p] < n - c
      <4>1. h.producer_to_last_produced[p] < (h.block_num + 1 - c) % Modulus
        BY <3>6, Zenon DEF confirms_new_range
      <4>2. n - c \in Nat /\ n - c <= MaxBlock /\ n - c = h.block_num + 1 - c
        BY <1>5, <3>7 DEF Nums
      <4>3. (n - c) % Modulus = n - c
        BY <4>2, NoWrap
      <4> QED
        BY <4>1, <4>2, <4>3
    <3>8. h.producer_to_last_produced[p] \in Nat
      BY <3>6, FieldTypes, MapFacts
    <3>9. ASSUME k >= n - c, c <= n, p \in conf[k] PROVE FALSE
      <4>1. k <= h.producer_to_last_produced[p]
        BY <2>1, <3>6, <3>9 DEF ConfirmersInv
      <4> QED
        BY <1>5, <1>10, <3>7, <3>8, <3>9, <4>1
    <3> QED
      BY <1>8, <2>1, <3>2, <3>3, <3>4, <3>9
  <2> QED
    BY <2>2, <2>3
<1>11. ASSUME NEW k \in Nums
       PROVE  /\ IsFiniteSet(conf2[k]) /\ Cardinality(conf2[k]) \in Nat /\ rep2[k] \in Nat
              /\ Cardinality(conf[k]) + rep[k] <= Cardinality(conf2[k]) + rep2[k]
              /\ (n - c <= k /\ n - L < k /\ k <= n) /\ (c <= n => p \notin conf[k]) =>
                   Cardinality(conf2[k]) + rep2[k] = Cardinality(conf[k]) + rep[k] + 1
              /\ ~(n - c <= k /\ n - L < k /\ k <= n) =>
                   Cardinality(conf2[k]) = Cardinality(conf[k]) /\ rep2[k] = rep[k]
  <2>1. InRange(h, p, c, k) <=> (n - c <= k /\ n - L < k /\ k <= n)
    <3>1. k \in Int
      BY <1>5 DEF Nums
    <3> QED
      BY <1>1, <1>5, <3>1 DEF InRange
  <2>2. /\ conf2[k] = conf[k] \cup (IF InRange(h, p, c, k) THEN {p} ELSE {})
        /\ rep2[k] = rep[k] + (IF InRange(h, p, c, k) /\ c > n /\ p \in conf[k] THEN 1 ELSE 0)
    BY <1>1 DEF Recorded
  <2>3. IsFiniteSet(conf[k]) /\ Cardinality(conf[k]) \in Nat /\ rep[k] \in Nat
    BY <1>7
  <2>4. /\ IsFiniteSet(conf[k] \cup {p})
        /\ Cardinality(conf[k] \cup {p}) = IF p \in conf[k] THEN Cardinality(conf[k]) ELSE Cardinality(conf[k]) + 1
    BY <2>3, FS_AddElement
  <2>5. CASE InRange(h, p, c, k)
    <3>1. conf2[k] = conf[k] \cup {p}
      BY <2>2, <2>5
    <3>2. rep2[k] = rep[k] + (IF c > n /\ p \in conf[k] THEN 1 ELSE 0)
      BY <2>2, <2>5
    <3>3. Cardinality(conf2[k]) = IF p \in conf[k] THEN Cardinality(conf[k]) ELSE Cardinality(conf[k]) + 1
      BY <2>4, <3>1
    <3>4. c > n \/ c <= n
      BY <1>5
    <3> QED
      BY <2>1, <2>3, <2>4, <2>5, <3>1, <3>2, <3>3, <3>4
  <2>6. CASE ~InRange(h, p, c, k)
    <3>1. conf2[k] = conf[k]
      BY <2>2, <2>6
    <3>2. rep2[k] = rep[k]
      BY <2>2, <2>3, <2>6
    <3> QED
      BY <2>1, <2>3, <2>6, <3>1, <3>2
  <2> QED
    BY <2>5, <2>6
<1>12. PICK t \in 0..L :
         /\ Len(s.confirm_count) = L - t
         /\ \A i \in 1..(L - t) :
              /\ s.confirm_count[i] = IF i + t >= L - c THEN cc[i + t] - 1 ELSE cc[i + t]
              /\ s.confirm_count[i] > 0
         /\ IF t = 0 THEN s.dpos_proposed_irreversible_blocknum = prop
            ELSE /\ s.dpos_proposed_irreversible_blocknum = n - (L - t)
                 /\ cc[t] = 1 /\ t >= L - c
  <2>1. L <= n
    BY <1>4, <1>5
  <2>2. Len(g.confirm_count) <= g.block_num
    BY <1>1, <1>3, <2>1
  <2>3. CountedDown(g, c, s)
    BY <1>1, <1>3, <1>4, <2>2, Confirmed
  <2> QED
    BY <1>1, <1>3, <2>3 DEF CountedDown
<1>13. s.block_num = n
  BY <1>1, <1>2, Counted
<1>14. ASSUME NEW i \in 1..Len(s.confirm_count), NEW k, k = n - (Len(s.confirm_count) - i)
       PROVE  s.confirm_count[i] = need2[k] - (Cardinality(conf2[k]) + rep2[k])
  <2>1. i + t \in 1..L /\ i \in 1..(L - t) /\ k = n - (L - (i + t))
    BY <1>5, <1>12, <1>14
  <2>2. /\ k \in Nums /\ n - L < k /\ k <= n
        /\ cc[i + t] = need2[k] - (Cardinality(conf[k]) + rep[k])
        /\ k >= n - c /\ c <= n => p \notin conf[k]
    BY <1>10, <2>1
  <2>3. /\ need2[k] \in Nat /\ Cardinality(conf[k]) \in Nat /\ Cardinality(conf2[k]) \in Nat
        /\ rep[k] \in Nat /\ rep2[k] \in Nat
    BY <1>7, <1>8, <1>11, <2>2
  <2>4. (i + t >= L - c <=> n - c <= k) /\ k \in Int /\ (k >= n - c <=> n - c <= k)
    BY <1>5, <2>1
  <2>5. CASE n - c <= k
    <3>1. Cardinality(conf2[k]) + rep2[k] = Cardinality(conf[k]) + rep[k] + 1
      BY <1>11, <2>2, <2>4, <2>5
    <3>2. s.confirm_count[i] = cc[i + t] - 1
      BY <1>12, <2>1, <2>4, <2>5
    <3>3. need2[k] - (Cardinality(conf[k]) + rep[k]) - 1 = need2[k] - (Cardinality(conf2[k]) + rep2[k])
      BY <2>3, <3>1
    <3> QED
      BY <2>2, <3>2, <3>3
  <2>6. CASE ~(n - c <= k)
    <3>1. Cardinality(conf2[k]) = Cardinality(conf[k]) /\ rep2[k] = rep[k]
      BY <1>11, <2>2, <2>6
    <3>2. s.confirm_count[i] = cc[i + t]
      BY <1>12, <2>1, <2>4, <2>6
    <3> QED
      BY <2>2, <3>1, <3>2
  <2> QED
    BY <2>5, <2>6
<1>15. ASSUME NEW k, k = s.dpos_proposed_irreversible_blocknum, k > 0
       PROVE  Cardinality(conf2[k]) + rep2[k] >= need2[k]
  <2>1. CASE t = 0
    <3>1. k = prop /\ k \in Nums /\ k # n
      BY <1>5, <1>12, <1>15, <2>1 DEF Nums
    <3>2. Cardinality(conf[k]) + rep[k] >= need[k]
      BY <1>1, <1>15, <3>1 DEF CountInv
    <3>3. /\ Cardinality(conf[k]) + rep[k] <= Cardinality(conf2[k]) + rep2[k]
          /\ need2[k] = need[k] /\ need[k] \in Nat /\ rep[k] \in Nat /\ rep2[k] \in Nat
          /\ Cardinality(conf[k]) \in Nat /\ Cardinality(conf2[k]) \in Nat
      BY <1>7, <1>8, <1>11, <3>1
    <3> QED
      BY <3>2, <3>3
  <2>2. CASE t # 0
    <3>1. k = n - (L - t) /\ cc[t] = 1 /\ t >= L - c /\ t \in 1..L
      BY <1>5, <1>12, <1>15, <2>2
    <3>2. n - c <= k /\ k >= n - c
      BY <1>5, <3>1
    <3>3. /\ k \in Nums /\ n - L < k /\ k <= n /\ (c <= n => p \notin conf[k])
          /\ 1 = need2[k] - (Cardinality(conf[k]) + rep[k])
      BY <1>5, <1>10, <3>1, <3>2
    <3>4. /\ Cardinality(conf2[k]) + rep2[k] = Cardinality(conf[k]) + rep[k] + 1
          /\ Cardinality(conf[k]) \in Nat /\ rep[k] \in Nat /\ need2[k] \in Nat
      BY <1>7, <1>8, <1>11, <3>2, <3>3
    <3> QED
      BY <3>3, <3>4
  <2> QED
    BY <2>1, <2>2
<1>16. \A i \in 1..Len(s.confirm_count) : s.confirm_count[i] > 0
  BY <1>12
<1>17. rep2 \in [Nums -> Nat] /\ \A k \in Nums : k > n => rep2[k] = 0
  <2>1. rep2 = [k \in Nums |-> rep2[k]]
    BY DEF Recorded
  <2>2. \A k \in Nums : rep2[k] \in Nat
    BY <1>11
  <2>3. ASSUME NEW k \in Nums, k > n PROVE rep2[k] = 0
    <3>1. ~(n - c <= k /\ n - L < k /\ k <= n) /\ k > h.block_num
      BY <1>5, <2>3 DEF Nums
    <3> QED
      BY <1>11, <3>1 DEF CountInv
  <2> QED
    BY <2>1, <2>2, <2>3
<1> QED
  BY <1>1, <1>8, <1>13, <1>14, <1>15, <1>16, <1>17 DEF CountInv


-------------------------------------------------------------------------------
(* The invariant, step by step: first generate_next and set_confirmed, s   *)
(* being the state they make of h.                                         *)
LEMMA CountedInv ==
  ASSUME NEW h \in HeaderStates, LibInv(h), MapsInv(h), NEW conf, NEW rep, NEW need,
         ConfirmersInv(h, conf), CountInv(h, conf, rep, need),
         NEW p \in h.active_schedule.producers, NEW c \in Nat,
         NEW conf2, NEW rep2, NEW need2, Recorded(h, p, c, conf, rep, need, conf2, rep2, need2)
  PROVE  LET s == set_confirmed(generate_next(h, p), c)
         IN LibInv(s) /\ MapsInv(s) /\ ImpliedInv(s, FALSE) /\ ConfirmersInv(s, conf2)
<1>1. PICK s, n, lp, lp2, prop :
        /\ s = set_confirmed(generate_next(h, p), c) /\ n = h.block_num + 1
        /\ lp = h.producer_to_last_produced /\ lp2 = s.producer_to_last_produced
        /\ prop = h.dpos_proposed_irreversible_blocknum
  OBVIOUS
<1>2. CountsPositive(h)
  BY DEF CountInv, CountsPositive
<1>3. /\ s \in HeaderStates /\ s.block_num = n
      /\ s.pending_schedule_lib_num = h.pending_schedule_lib_num
      /\ s.pending_schedule = h.pending_schedule /\ s.active_schedule = h.active_schedule
      /\ s.producer_to_last_produced = Put(lp, p, n)
      /\ DOMAIN s.producer_to_last_implied_irb = h.active_schedule.producers
      /\ s.dpos_irreversible_blocknum = calc_dpos_last_irreversible(s.producer_to_last_implied_irb)
      /\ s.dpos_irreversible_blocknum <= prop
      /\ prop <= s.dpos_proposed_irreversible_blocknum
      /\ \A q \in DOMAIN s.producer_to_last_implied_irb : s.producer_to_last_implied_irb[q] <= prop
      /\ Len(s.confirm_count) < s.block_num
      /\ s.dpos_proposed_irreversible_blocknum + Len(s.confirm_count) <= s.block_num
  BY <1>1, <1>2, Counted
<1>4. /\ h.block_num \in Nat \ {0} /\ n \in Nat /\ n = h.block_num + 1 /\ n > 1 /\ prop \in Nat
      /\ lp \in ProducerMaps /\ p \in Producers
  BY <1>1, FieldTypes
<1>5. /\ s.dpos_irreversible_blocknum \in Nat /\ s.dpos_proposed_irreversible_blocknum \in Nat
      /\ s.producer_to_last_implied_irb \in ProducerMaps
  BY <1>3, FieldTypes
<1>6. DOMAIN lp2 = DOMAIN lp \cup {p} /\ lp2[p] = n /\ \A q \in DOMAIN lp \ {p} : lp2[q] = lp[q]
  <2>1. lp2 = Put(lp, p, n)
    BY <1>1, <1>3
  <2> QED
    BY <2>1 DEF Put
<1>7. \A q \in DOMAIN lp : lp[q] \in Nat /\ lp[q] <= h.block_num
  BY <1>1, <1>4, MapFacts DEF LibInv
<1>8. LibInv(s)
  <2>1. ASSUME NEW q \in DOMAIN s.producer_to_last_implied_irb
        PROVE  s.producer_to_last_implied_irb[q] <= s.dpos_proposed_irreversible_blocknum
    <3>1. s.producer_to_last_implied_irb[q] <= prop /\ s.producer_to_last_implied_irb[q] \in Nat
      BY <1>3, <1>5, MapFacts
    <3> QED
      BY <1>3, <1>4, <1>5, <3>1
  <2>2. ASSUME NEW q \in DOMAIN s.producer_to_last_produced
        PROVE  s.producer_to_last_produced[q] <= s.block_num
    <3>1. CASE q = p
      BY <1>1, <1>3, <1>4, <1>6, <3>1
    <3>2. CASE q # p
      <4>1. q \in DOMAIN lp /\ lp2[q] = lp[q]
        BY <1>1, <1>6, <3>2
      <4> QED
        BY <1>1, <1>3, <1>4, <1>7, <4>1
    <3> QED
      BY <3>1, <3>2
  <2>3. s.dpos_irreversible_blocknum <= s.dpos_proposed_irreversible_blocknum
    BY <1>3, <1>4, <1>5
  <2> QED
    BY <1>3, <2>1, <2>2, <2>3 DEF LibInv
<1>9. MapsInv(s)
  <2>1. s.block_num > 1 /\ s.block_num # 1
    BY <1>3, <1>4
  <2>2. h.active_schedule.producers \subseteq DOMAIN lp2
    <3>1. CASE h.block_num = 1
      <4>1. h.active_schedule.producers = {Founder}
        BY <3>1 DEF MapsInv
      <4> QED
        BY <1>6, <4>1
    <3>2. CASE h.block_num # 1
      <4>1. h.block_num > 1
        BY <1>4, <3>2
      <4> QED
        BY <1>1, <1>6, <4>1 DEF MapsInv
    <3> QED
      BY <3>1, <3>2
  <2>3. h.active_schedule.producers # {}
    OBVIOUS
  <2> QED
    BY <1>1, <1>3, <2>1, <2>2, <2>3 DEF MapsInv
<1>10. ImpliedInv(s, FALSE)
  BY <1>3 DEF ImpliedInv
<1>11. ConfirmersInv(s, conf2)
  <2>1. conf \in [Nums -> SUBSET Producers] /\ \A k \in Nums : k > h.block_num => conf[k] = {}
    BY DEF ConfirmersInv
  <2>2. conf2 = [k \in Nums |-> conf[k] \cup (IF InRange(h, p, c, k) THEN {p} ELSE {})]
    BY DEF Recorded
  <2>3. \A k \in Nums : /\ conf2[k] = conf[k] \cup (IF InRange(h, p, c, k) THEN {p} ELSE {})
                        /\ InRange(h, p, c, k) => k <= n
    BY <1>1, <2>2 DEF InRange
  <2>4. conf2 \in [Nums -> SUBSET Producers]
    BY <1>4, <2>1, <2>2
  <2>5. \A k \in Nums : k \in Nat
    BY ChainAssumption DEF Nums
  <2>6. ASSUME NEW k \in Nums, k > s.block_num PROVE conf2[k] = {}
    <3>1. k > h.block_num /\ ~(k <= n)
      BY <1>3, <1>4, <2>5, <2>6
    <3> QED
      BY <2>1, <2>3, <3>1
  <2>7. ASSUME NEW k \in Nums, NEW q \in conf2[k]
        PROVE  IF q \in DOMAIN s.producer_to_last_produced THEN k <= s.producer_to_last_produced[q]
               ELSE s.pending_schedule.producers # {} => k <= s.pending_schedule_lib_num
    <3>1. CASE q = p
      <4>1. k <= n
        <5>1. CASE q \in conf[k]
          BY <1>4, <2>1, <2>5, <5>1
        <5>2. CASE q \notin conf[k]
          BY <2>3, <2>7, <5>2
        <5> QED
          BY <5>1, <5>2
      <4> QED
        BY <1>1, <1>6, <3>1, <4>1
    <3>2. CASE q # p
      <4>1. q \in conf[k]
        BY <2>3, <2>7, <3>2
      <4>2. IF q \in DOMAIN lp THEN k <= lp[q]
            ELSE h.pending_schedule.producers # {} => k <= h.pending_schedule_lib_num
        BY <1>1, <4>1 DEF ConfirmersInv
      <4>3. q \in DOMAIN lp2 <=> q \in DOMAIN lp
        BY <1>6, <3>2
      <4>4. q \in DOMAIN lp => lp2[q] = lp[q]
        BY <1>6, <3>2
      <4> QED
        BY <1>1, <1>3, <4>2, <4>3, <4>4
    <3> QED
      BY <3>1, <3>2
  <2> QED
    BY <2>4, <2>6, <2>7 DEF ConfirmersInv
<1> QED
  BY <1>1, <1>8, <1>9, <1>10, <1>11

(* Then maybe_promote_pending: whoever comes into the schedule has         *)
(* confirmed nothing above the irreversible block.                         *)
LEMMA PromotedInv ==
  ASSUME NEW s \in HeaderStates, s.block_num > 1, LibInv(s), MapsInv(s), NEW conf,
         ConfirmersInv(s, conf), promotable(s), NEW p \in Producers
  PROVE  LET m == maybe_promote_pending(s, p)
         IN LibInv(m) /\ MapsInv(m) /\ ConfirmersInv(m, conf)
<1>1. PICK m, lib, new, lp, imp :
        /\ m = maybe_promote_pending(s, p) /\ lib = s.dpos_irreversible_blocknum
        /\ new = s.pending_schedule.producers /\ lp = s.producer_to_last_produced
        /\ imp = s.producer_to_last_implied_irb
  OBVIOUS
<1>2. /\ m \in HeaderStates /\ m.block_num = s.block_num /\ m.dpos_irreversible_blocknum = lib
      /\ m.dpos_proposed_irreversible_blocknum = s.dpos_proposed_irreversible_blocknum
      /\ m.confirm_count = s.confirm_count
      /\ m.active_schedule = s.pending_schedule /\ m.pending_schedule = None
      /\ DOMAIN m.producer_to_last_implied_irb = new
      /\ \A q \in new : m.producer_to_last_implied_irb[q] = IF q \in DOMAIN imp THEN imp[q] ELSE lib
      /\ DOMAIN m.producer_to_last_produced = new \cup {p}
      /\ \A q \in new \cup {p} : m.producer_to_last_produced[q] =
           IF q = p THEN s.block_num ELSE IF q \in DOMAIN lp THEN lp[q] ELSE lib
  BY <1>1, Promoted
<1>3. /\ s.block_num \in Nat /\ lib \in Nat /\ s.dpos_proposed_irreversible_blocknum \in Nat
      /\ Len(s.confirm_count) \in Nat /\ s.pending_schedule_lib_num \in Nat
  BY <1>1, FieldTypes
<1>4. new # {} /\ s.pending_schedule_lib_num <= lib
  BY <1>1, <1>3 DEF promotable
<1>5. lib <= s.block_num /\ lib <= s.dpos_proposed_irreversible_blocknum
  BY <1>1, <1>3 DEF LibInv
<1>6. LibInv(m)
  <2>1. \A q \in new : m.producer_to_last_implied_irb[q] <= m.dpos_proposed_irreversible_blocknum
    BY <1>1, <1>2, <1>5 DEF LibInv
  <2>2. \A q \in new \cup {p} : m.producer_to_last_produced[q] <= m.block_num
    BY <1>1, <1>2, <1>3, <1>5 DEF LibInv
  <2> QED
    BY <1>2, <1>5, <2>1, <2>2 DEF LibInv
<1>7. MapsInv(m)
  <2>1. m.block_num > 1 /\ m.block_num # 1
    BY <1>2, <1>3
  <2> QED
    BY <1>1, <1>2, <1>4, <2>1 DEF MapsInv
<1>8. ConfirmersInv(m, conf)
  <2>1. conf \in [Nums -> SUBSET Producers] /\ \A k \in Nums : k > s.block_num => conf[k] = {}
    BY DEF ConfirmersInv
  <2>2. \A k \in Nums : k \in Nat
    BY ChainAssumption DEF Nums
  <2>3. ASSUME NEW k \in Nums, NEW q \in conf[k]
        PROVE  IF q \in DOMAIN m.producer_to_last_produced THEN k <= m.producer_to_last_produced[q]
               ELSE m.pending_schedule.producers # {} => k <= m.pending_schedule_lib_num
    <3>1. k <= s.block_num
      BY <1>3, <2>1, <2>2
    <3>2. IF q \in DOMAIN lp THEN k <= lp[q] ELSE k <= s.pending_schedule_lib_num
      BY <1>1, <1>4 DEF ConfirmersInv
    <3>3. CASE q \in new \cup {p}
      <4>1. CASE q = p
        BY <1>2, <3>1, <3>3, <4>1
      <4>2. CASE q # p /\ q \in DOMAIN lp
        BY <1>2, <3>2, <3>3, <4>2
      <4>3. CASE q # p /\ q \notin DOMAIN lp
        <5>1. m.producer_to_last_produced[q] = lib
          BY <1>2, <3>3, <4>3
        <5>2. k <= lib
          BY <1>3, <1>4, <2>2, <3>2, <4>3
        <5> QED
          BY <1>2, <3>3, <5>1, <5>2
      <4> QED
        BY <4>1, <4>2, <4>3
    <3>4. CASE q \notin new \cup {p}
      BY <1>2, <3>4 DEF None
    <3> QED
      BY <3>3, <3>4
  <2> QED
    BY <1>2, <2>1, <2>3 DEF ConfirmersInv
<1> QED
  BY <1>1, <1>6, <1>7, <1>8

(* Then set_new_producers. *)
LEMMA AnnouncedInv ==
  ASSUME NEW m \in HeaderStates, m.block_num > 1, LibInv(m), MapsInv(m), NEW conf, NEW rep, NEW need,
         ConfirmersInv(m, conf), CountInv(m, conf, rep, need), ImpliedInv(m, FALSE), NEW sch \in Schedules
  PROVE  LET r == set_new_producers(m, sch)
         IN /\ r \in HeaderStates /\ r.block_num = m.block_num
            /\ r.dpos_irreversible_blocknum = m.dpos_irreversible_blocknum
            /\ r.dpos_proposed_irreversible_blocknum = m.dpos_proposed_irreversible_blocknum
            /\ r.active_schedule = m.active_schedule /\ r.pending_schedule = sch
            /\ LibInv(r) /\ MapsInv(r) /\ ImpliedInv(r, FALSE)
            /\ ConfirmersInv(r, conf) /\ CountInv(r, conf, rep, need)
<1>1. PICK r : r = set_new_producers(m, sch)
  OBVIOUS
<1>2. m.block_num \in Nat
  BY FieldTypes
<1>3. /\ r \in HeaderStates /\ r.block_num = m.block_num
      /\ r.dpos_irreversible_blocknum = m.dpos_irreversible_blocknum
      /\ r.dpos_proposed_irreversible_blocknum = m.dpos_proposed_irreversible_blocknum
      /\ r.active_schedule = m.active_schedule /\ r.pending_schedule = sch
      /\ r.pending_schedule_lib_num = m.block_num /\ r.confirm_count = m.confirm_count
      /\ r.producer_to_last_produced = m.producer_to_last_produced
      /\ r.producer_to_last_implied_irb = m.producer_to_last_implied_irb
  BY <1>1, <1>2 DEF set_new_producers, HeaderStates
<1>4. LibInv(r) /\ ImpliedInv(r, FALSE)
  BY <1>3 DEF LibInv, ImpliedInv
<1>5. MapsInv(r)
  BY <1>2, <1>3 DEF MapsInv
<1>6. CountInv(r, conf, rep, need)
  BY <1>3 DEF CountInv
<1>7. ConfirmersInv(r, conf)
  <2>1. \A k \in Nums : k \in Nat
    BY ChainAssumption DEF Nums
  <2>2. ASSUME NEW k \in Nums, NEW q \in conf[k] PROVE k <= m.block_num
    BY <1>2, <2>1 DEF ConfirmersInv
  <2> QED
    BY <1>3, <2>2 DEF ConfirmersInv
<1> QED
  BY <1>1, <1>3, <1>4, <1>5, <1>6, <1>7


(* What start_block makes of a chain that satisfies the invariant, with    *)
(* the two histories after it.                                             *)
LEMMA StartedInv ==
  ASSUME NEW h \in HeaderStates, LibInv(h), MapsInv(h), NEW prop, VersionInv(h, prop),
         NEW conf, NEW rep, NEW need, ConfirmersInv(h, conf), CountInv(h, conf, rep, need),
         h.block_num < MaxBlock,
         NEW p \in h.active_schedule.producers, NEW c \in Nat, confirms_new_range(h, p, c),
         NEW conf2, NEW rep2, NEW need2, Recorded(h, p, c, conf, rep, need, conf2, rep2, need2)
  PROVE  LET next == started(h, prop, p, c)
             r == next.hs
         IN /\ r \in HeaderStates /\ r.block_num = h.block_num + 1 /\ next.legal
            /\ LibInv(r) /\ MapsInv(r) /\ ImpliedInv(r, next.promoted)
            /\ VersionInv(r, next.proposed)
            /\ ConfirmersInv(r, conf2) /\ CountInv(r, conf2, rep2, need2)
            /\ r.dpos_irreversible_blocknum =
                 calc_dpos_last_irreversible(Put(h.producer_to_last_implied_irb, p,
                                                 h.dpos_proposed_irreversible_blocknum))
            /\ h.dpos_proposed_irreversible_blocknum <= r.dpos_proposed_irreversible_blocknum
            /\ r.active_schedule # h.active_schedule =>
                 h.pending_schedule_lib_num <= r.dpos_irreversible_blocknum
<1>1. PICK s, m, due, next :
        /\ s = set_confirmed(generate_next(h, p), c) /\ m = maybe_promote_pending(s, p)
        /\ due = Due(m, prop, promotable(s)) /\ next = started(h, prop, p, c)
  OBVIOUS
<1>2. CountsPositive(h)
  BY DEF CountInv, CountsPositive
<1>3. /\ s \in HeaderStates /\ s.block_num = h.block_num + 1
      /\ s.pending_schedule_lib_num = h.pending_schedule_lib_num
      /\ s.pending_schedule = h.pending_schedule /\ s.active_schedule = h.active_schedule
      /\ s.producer_to_last_implied_irb =
           Put(h.producer_to_last_implied_irb, p, h.dpos_proposed_irreversible_blocknum)
      /\ s.dpos_irreversible_blocknum = calc_dpos_last_irreversible(s.producer_to_last_implied_irb)
      /\ h.dpos_proposed_irreversible_blocknum <= s.dpos_proposed_irreversible_blocknum
  BY <1>1, <1>2, Counted
<1>4. LibInv(s) /\ MapsInv(s) /\ ImpliedInv(s, FALSE) /\ ConfirmersInv(s, conf2)
  BY <1>1, CountedInv
<1>5. CountInv(s, conf2, rep2, need2)
  BY <1>1, CountStep
<1>6. /\ next.hs = IF due THEN set_new_producers(m, prop.schedule) ELSE m
      /\ next.proposed = IF due THEN NotProposed ELSE prop
      /\ next.promoted = promotable(s)
      /\ next.legal = (due => may_set_new_producers(m, prop.schedule))
  BY <1>1 DEF started
<1>7. /\ h.block_num \in Nat \ {0} /\ s.block_num > 1 /\ p \in Producers
      /\ s.dpos_irreversible_blocknum \in Nat /\ s.block_num # 1 /\ s.pending_schedule \in Schedules
      /\ h.pending_schedule_lib_num \in Nat
  <2>1. h.block_num \in Nat \ {0} /\ p \in Producers /\ h.pending_schedule_lib_num \in Nat
    BY FieldTypes
  <2>2. s.dpos_irreversible_blocknum \in Nat /\ s.pending_schedule \in Schedules
    BY <1>3, FieldTypes
  <2>3. s.block_num > 1 /\ s.block_num # 1
    BY <1>3, <2>1
  <2> QED
    BY <2>1, <2>2, <2>3
<1>8. h.block_num = 1 => promotable(s) /\ prop = NotProposed
  <2> SUFFICES ASSUME h.block_num = 1 PROVE promotable(s) /\ prop = NotProposed
    OBVIOUS
  <2>1. h.pending_schedule.producers = {Founder} /\ h.pending_schedule_lib_num = 0
    BY DEF MapsInv
  <2>2. promotable(s)
    BY <1>3, <1>7, <2>1 DEF promotable
  <2> QED
    BY <2>2 DEF VersionInv
<1>9. h.block_num # 1 => h.block_num > 1
  BY <1>7
<1>10. CASE promotable(s)
  <2>1. /\ m \in HeaderStates /\ m.block_num = s.block_num
        /\ m.dpos_irreversible_blocknum = s.dpos_irreversible_blocknum
        /\ m.dpos_proposed_irreversible_blocknum = s.dpos_proposed_irreversible_blocknum
        /\ m.confirm_count = s.confirm_count
        /\ m.active_schedule = s.pending_schedule /\ m.pending_schedule = None
    BY <1>1, <1>3, <1>7, <1>10, Promoted
  <2>2. LibInv(m) /\ MapsInv(m) /\ ConfirmersInv(m, conf2)
    BY <1>1, <1>3, <1>4, <1>7, <1>10, PromotedInv
  <2>3. CountInv(m, conf2, rep2, need2)
    BY <1>5, <2>1 DEF CountInv
  <2>4. ~due
    BY <1>1, <1>10 DEF Due
  <2>5. next.hs = m /\ next.proposed = prop /\ next.promoted = TRUE /\ next.legal = TRUE
    BY <1>6, <1>10, <2>4
  <2>6. ImpliedInv(m, TRUE)
    BY DEF ImpliedInv
  <2>7. h.pending_schedule_lib_num <= m.dpos_irreversible_blocknum /\ h.pending_schedule.producers # {}
    BY <1>3, <1>7, <1>10, <2>1 DEF promotable
  <2>8. VersionInv(m, prop)
    <3>1. m.block_num # 1 /\ m.pending_schedule.producers = {}
      BY <1>7, <2>1 DEF None
    <3>2. latest_schedule(m) = h.pending_schedule
      BY <1>3, <2>1, <3>1 DEF latest_schedule
    <3>3. latest_schedule(h) = h.pending_schedule
      BY <2>7 DEF latest_schedule
    <3> QED
      BY <3>1, <3>2, <3>3 DEF VersionInv
  <2> QED
    BY <1>1, <1>3, <2>1, <2>2, <2>3, <2>5, <2>6, <2>7, <2>8
<1>11. CASE ~promotable(s)
  <2>1. m = s /\ next.promoted = FALSE /\ h.block_num > 1
    BY <1>1, <1>6, <1>8, <1>9, <1>11 DEF maybe_promote_pending, promotable
  <2>2. prop \in [schedule : Schedules, block_num : Nat]
    BY DEF VersionInv
  <2>3. CASE ~due
    <3>1. next.hs = s /\ next.proposed = prop /\ next.legal = TRUE
      BY <1>6, <2>1, <2>3
    <3>2. latest_schedule(s) = latest_schedule(h)
      BY <1>3 DEF latest_schedule
    <3>3. VersionInv(s, prop)
      BY <1>3, <1>7, <2>1, <3>2 DEF VersionInv
    <3> QED
      BY <1>1, <1>3, <1>4, <1>5, <2>1, <3>1, <3>3
  <2>4. CASE due
    <3>1. prop # NotProposed /\ s.pending_schedule.producers = {} /\ h.pending_schedule.producers = {}
      BY <1>1, <1>3, <2>1, <2>4 DEF Due
    <3>2. latest_schedule(h) = h.active_schedule
      BY <3>1 DEF latest_schedule
    <3>3. prop.schedule.version = h.active_schedule.version + 1 /\ prop.schedule \in Schedules
      BY <2>2, <3>1, <3>2 DEF VersionInv
    <3>4. PICK r : r = set_new_producers(s, prop.schedule)
      OBVIOUS
    <3>5. next.hs = r /\ next.proposed = NotProposed
      BY <1>6, <2>1, <2>4, <3>4
    <3>6. next.legal = TRUE
      BY <1>3, <1>6, <2>1, <3>1, <3>3 DEF may_set_new_producers
    <3>7. /\ r \in HeaderStates /\ r.block_num = s.block_num
          /\ r.dpos_irreversible_blocknum = s.dpos_irreversible_blocknum
          /\ r.dpos_proposed_irreversible_blocknum = s.dpos_proposed_irreversible_blocknum
          /\ r.active_schedule = s.active_schedule /\ r.pending_schedule = prop.schedule
          /\ LibInv(r) /\ MapsInv(r) /\ ImpliedInv(r, FALSE)
          /\ ConfirmersInv(r, conf2) /\ CountInv(r, conf2, rep2, need2)
      BY <1>3, <1>4, <1>5, <1>7, <3>3, <3>4, AnnouncedInv, ZenonT(60)
    <3>8. VersionInv(r, NotProposed)
      <4>1. NotProposed \in [schedule : Schedules, block_num : Nat]
        BY DEF NotProposed, None, Schedules
      <4> QED
        BY <1>3, <3>3, <3>7, <4>1 DEF VersionInv
    <3> QED
      BY <1>1, <1>3, <2>1, <3>5, <3>6, <3>7, <3>8
  <2> QED
    BY <2>3, <2>4
<1> QED
  BY <1>10, <1>11

-------------------------------------------------------------------------------
LEMMA InitInv == Init => IInv
<1> SUFFICES ASSUME Init PROVE IInv
  OBVIOUS
<1> DEFINE empty == [q \in {} |-> 0]
<1>1. empty \in ProducerMaps /\ DOMAIN empty = {}
  <2>1. empty \in [{} -> Nat]
    OBVIOUS
  <2> QED
    BY <2>1 DEF ProducerMaps
<1>2. [version |-> 0, producers |-> {Founder}] \in Schedules
  BY HeaderAssumption DEF Schedules
<1>3. <<>> \in Seq(Nat) /\ Len(<<>>) = 0
  BY EmptySeq
<1>4. /\ hs.block_num = 1 /\ hs.dpos_proposed_irreversible_blocknum = 0
      /\ hs.dpos_irreversible_blocknum = 0 /\ hs.pending_schedule_lib_num = 0
      /\ hs.pending_schedule = [version |-> 0, producers |-> {Founder}]
      /\ hs.active_schedule = [version |-> 0, producers |-> {Founder}]
      /\ hs.producer_to_last_produced = empty /\ hs.producer_to_last_implied_irb = empty
      /\ hs.confirm_count = <<>> /\ Len(hs.confirm_count) = 0
      /\ proposed = NotProposed
      /\ confirmers = [n \in Nums |-> {}] /\ needed = [n \in Nums |-> 0]
      /\ repeated = [n \in Nums |-> 0] /\ watermarks = [p \in Producers |-> 0]
  BY <1>3 DEF Init, GenesisState
<1> HIDE DEF empty
<1>5. hs \in HeaderStates
  <2>1. hs = [block_num |-> 1, dpos_proposed_irreversible_blocknum |-> 0,
              dpos_irreversible_blocknum |-> 0, pending_schedule_lib_num |-> 0,
              pending_schedule |-> [version |-> 0, producers |-> {Founder}],
              active_schedule |-> [version |-> 0, producers |-> {Founder}],
              producer_to_last_produced |-> empty, producer_to_last_implied_irb |-> empty,
              confirm_count |-> <<>>]
    BY DEF Init, GenesisState, empty
  <2> QED
    BY <1>1, <1>2, <1>3, <2>1 DEF HeaderStates
<1>6. LibInv(hs)
  BY <1>1, <1>4 DEF LibInv
<1>7. MapsInv(hs)
  BY <1>4 DEF MapsInv, empty
<1>8. ImpliedInv(hs, promoted)
  BY <1>4 DEF ImpliedInv
<1>9. VersionInv(hs, proposed)
  <2>1. NotProposed \in [schedule : Schedules, block_num : Nat]
    BY DEF NotProposed, None, Schedules
  <2> QED
    BY <1>4, <2>1 DEF VersionInv
<1>10. ConfirmersInv(hs, confirmers)
  BY <1>4 DEF ConfirmersInv
<1>11. CountInv(hs, confirmers, repeated, needed)
  BY <1>4 DEF CountInv
<1>12. watermarks \in [Producers -> Nat] /\ \A p \in Producers : watermarks[p] <= hs.block_num
  BY <1>4
<1> QED
  BY <1>4, <1>5, <1>6, <1>7, <1>8, <1>9, <1>10, <1>11, <1>12 DEF IInv

LEMMA CountsNatural ==
  ASSUME IInv, NEW p \in Producers, NEW c \in Counts(p)
  PROVE  c \in Nat
<1>1. hs.block_num \in Nat /\ watermarks[p] \in Nat /\ watermarks[p] <= hs.block_num
  BY FieldTypes DEF IInv
<1>2. c \in 0..MaxConfirmed \/ c = 0 \/ c = hs.block_num - watermarks[p]
  BY DEF Counts
<1> QED
  BY <1>1, <1>2, ChainAssumption

(* One block. *)
LEMMA StartStep ==
  ASSUME IInv, NEW p \in Producers, NEW c \in Counts(p), start_block(p, c)
  PROVE  /\ IInv'
         /\ ~promoted => hs'.dpos_irreversible_blocknum >= hs.dpos_irreversible_blocknum
         /\ hs'.dpos_proposed_irreversible_blocknum >= hs.dpos_proposed_irreversible_blocknum
         /\ hs'.active_schedule # hs.active_schedule =>
              hs.pending_schedule_lib_num <= hs'.dpos_irreversible_blocknum
<1>1. /\ hs.block_num < MaxBlock /\ p \in hs.active_schedule.producers
      /\ confirms_new_range(hs, p, c)
      /\ Recorded(hs, p, c, confirmers, repeated, needed, confirmers', repeated', needed')
      /\ hs' = started(hs, proposed, p, c).hs /\ proposed' = started(hs, proposed, p, c).proposed
      /\ promoted' = started(hs, proposed, p, c).promoted
      /\ watermarks' = [watermarks EXCEPT ![p] = hs.block_num + 1]
  <2>1. \A k \in Nums : k \in ConfirmedBy(p, c) <=> InRange(hs, p, c, k)
    <3> DEFINE L == Len(generate_next(hs, p).confirm_count)
    <3>1. ASSUME NEW k \in Nums
          PROVE  k \in ConfirmedBy(p, c) <=>
                   (hs.block_num + 1 - c <= k /\ hs.block_num + 1 - L < k /\ k <= hs.block_num + 1)
      <4>1. hs.block_num \in Nat /\ c \in Nat /\ k \in Nat
        BY CountsNatural, FieldTypes, ChainAssumption DEF IInv, Nums
      <4>2. L \in Nat
        <5>1. /\ hs \in HeaderStates /\ LibInv(hs) /\ MapsInv(hs) /\ p \in hs.active_schedule.producers
          BY DEF IInv, start_block
        <5>2. generate_next(hs, p) \in HeaderStates
          BY <5>1, Generated
        <5> QED
          BY <5>2, FieldTypes
      <4>3. ConfirmedBy(p, c) = LET n == hs.block_num + 1 IN {j \in Nums : n - c <= j /\ n - L < j /\ j <= n}
        BY DEF ConfirmedBy
      <4> HIDE DEF L
      <4> QED
        BY <4>1, <4>2, <4>3
    <3>2. ASSUME NEW k \in Nums
          PROVE  InRange(hs, p, c, k) <=>
                   (hs.block_num + 1 - c <= k /\ hs.block_num + 1 - L < k /\ k <= hs.block_num + 1)
      BY DEF InRange
    <3> HIDE DEF L
    <3> QED
      BY <3>1, <3>2, Zenon
  <2>2. Recorded(hs, p, c, confirmers, repeated, needed, confirmers', repeated', needed')
    <3>1. confirmers' = [k \in Nums |-> confirmers[k] \cup (IF k \in ConfirmedBy(p, c) THEN {p} ELSE {})]
      BY DEF start_block
    <3>2. repeated' = [k \in Nums |->
                         repeated[k] + (IF k \in {j \in ConfirmedBy(p, c) : Wraps(c) /\ p \in confirmers[j]}
                                        THEN 1 ELSE 0)]
      BY DEF start_block
    <3>3. needed' = [needed EXCEPT ![hs.block_num + 1] = required_confs(hs)]
      BY DEF start_block
    <3>4. confirmers' = [k \in Nums |-> confirmers[k] \cup (IF InRange(hs, p, c, k) THEN {p} ELSE {})]
      BY <2>1, <3>1, Zenon
    <3>5. repeated' = [k \in Nums |->
                         repeated[k] + (IF InRange(hs, p, c, k) /\ c > hs.block_num + 1 /\ p \in confirmers[k]
                                        THEN 1 ELSE 0)]
      BY <2>1, <3>2 DEF Wraps
    <3> QED
      BY <3>3, <3>4, <3>5, Zenon DEF Recorded
  <2> QED
    BY <2>2, Zenon DEF start_block
<1>2. /\ hs \in HeaderStates /\ LibInv(hs) /\ MapsInv(hs) /\ ImpliedInv(hs, promoted)
      /\ VersionInv(hs, proposed) /\ ConfirmersInv(hs, confirmers)
      /\ CountInv(hs, confirmers, repeated, needed) /\ c \in Nat
  BY CountsNatural DEF IInv
<1>3. /\ hs' \in HeaderStates /\ hs'.block_num = hs.block_num + 1
      /\ LibInv(hs') /\ MapsInv(hs') /\ ImpliedInv(hs', promoted') /\ VersionInv(hs', proposed')
      /\ ConfirmersInv(hs', confirmers') /\ CountInv(hs', confirmers', repeated', needed')
      /\ hs'.dpos_irreversible_blocknum =
           calc_dpos_last_irreversible(Put(hs.producer_to_last_implied_irb, p,
                                           hs.dpos_proposed_irreversible_blocknum))
      /\ hs.dpos_proposed_irreversible_blocknum <= hs'.dpos_proposed_irreversible_blocknum
      /\ hs'.active_schedule # hs.active_schedule =>
           hs.pending_schedule_lib_num <= hs'.dpos_irreversible_blocknum
  BY <1>1, <1>2, StartedInv
<1>4. hs.block_num \in Nat \ {0} /\ MaxBlock \in Nat
  BY <1>2, FieldTypes, ChainAssumption
<1>5. hs'.block_num > 1 => hs'.block_num <= MaxBlock
  BY <1>1, <1>3, <1>4
<1>6. IInv'
  <2>1. watermarks \in [Producers -> Nat] /\ \A q \in Producers : watermarks[q] <= hs.block_num
    BY DEF IInv
  <2>2. watermarks' \in [Producers -> Nat] /\ \A q \in Producers : watermarks'[q] <= hs'.block_num
    BY <1>1, <1>3, <1>4, <2>1
  <2> QED
    BY <1>3, <1>5, <2>2 DEF IInv
<1>7. ASSUME ~promoted PROVE hs'.dpos_irreversible_blocknum >= hs.dpos_irreversible_blocknum
  <2>1. hs'.dpos_irreversible_blocknum \in Nat /\ hs.dpos_irreversible_blocknum \in Nat
    BY <1>2, <1>3, FieldTypes
  <2>2. CASE hs.block_num = 1
    <3>1. hs.dpos_irreversible_blocknum = 0
      BY <1>2, <2>2 DEF MapsInv
    <3> QED
      BY <2>1, <3>1
  <2>3. CASE hs.block_num # 1
    <3>1. PICK D, m1, B, m2 :
            /\ D = hs.active_schedule.producers /\ m1 = hs.producer_to_last_implied_irb
            /\ B = hs.dpos_proposed_irreversible_blocknum /\ m2 = Put(m1, p, B)
      OBVIOUS
    <3>2. hs.block_num > 1
      BY <1>4, <2>3
    <3>3. DOMAIN m1 = D /\ hs.dpos_irreversible_blocknum = calc_dpos_last_irreversible(m1)
      BY <1>2, <1>7, <3>1, <3>2 DEF MapsInv, ImpliedInv
    <3>4. m1 \in ProducerMaps /\ B \in Nat /\ D \subseteq Producers /\ p \in D
      BY <1>1, <1>2, <3>1, FieldTypes
    <3>5. m1 \in [D -> Nat] /\ \A q \in D : m1[q] <= B
      BY <1>2, <3>1, <3>3, <3>4, MapFacts DEF LibInv
    <3>6. DOMAIN m2 = D /\ m2 = [q \in D |-> IF q = p THEN B ELSE m1[q]]
      BY <3>1, <3>3, <3>4 DEF Put
    <3>7. m2 \in [D -> Nat] /\ \A q \in D : m1[q] <= m2[q] /\ m2[q] <= B
      BY <3>4, <3>5, <3>6
    <3>8. calc_dpos_last_irreversible(m1) <= calc_dpos_last_irreversible(m2)
      BY <3>4, <3>5, <3>7, CalcMonotone
    <3>9. hs'.dpos_irreversible_blocknum = calc_dpos_last_irreversible(m2)
      BY <1>3, <3>1
    <3> QED
      BY <2>1, <3>3, <3>8, <3>9
  <2> QED
    BY <2>2, <2>3
<1>8. hs'.dpos_proposed_irreversible_blocknum >= hs.dpos_proposed_irreversible_blocknum
  <2>1. /\ hs'.dpos_proposed_irreversible_blocknum \in Nat
        /\ hs.dpos_proposed_irreversible_blocknum \in Nat
    BY <1>2, <1>3, FieldTypes
  <2> QED
    BY <1>3, <2>1
<1> QED
  BY <1>3, <1>6, <1>7, <1>8

LEMMA ProposeInv ==
  ASSUME IInv, NEW S \in Proposals, set_proposed_producers(S)
  PROVE  IInv' /\ hs' = hs
<1>1. /\ hs.block_num > 1 /\ hs' = hs /\ promoted' = promoted /\ confirmers' = confirmers
      /\ repeated' = repeated /\ needed' = needed /\ watermarks' = watermarks
      /\ proposed' = [schedule |-> [version |-> latest_schedule(hs).version + 1, producers |-> S],
                      block_num |-> hs.block_num]
  BY DEF set_proposed_producers, history
<1>2. hs \in HeaderStates /\ VersionInv(hs, proposed)
  BY DEF IInv
<1>3. hs.block_num \in Nat /\ latest_schedule(hs) \in Schedules
  BY <1>2, FieldTypes DEF latest_schedule
<1>4. latest_schedule(hs).version \in Nat
  BY <1>3 DEF Schedules
<1>5. latest_schedule(hs).version + 1 \in Nat /\ S \subseteq Producers
  BY <1>4, ChainAssumption
<1>6. proposed' \in [schedule : Schedules, block_num : Nat]
      /\ proposed'.schedule.version = latest_schedule(hs).version + 1
  BY <1>1, <1>3, <1>5 DEF Schedules
<1>7. VersionInv(hs', proposed')
  <2>1. hs.block_num # 1
    BY <1>1, <1>3
  <2> QED
    BY <1>1, <1>2, <1>6, <2>1 DEF VersionInv
<1> QED
  BY <1>1, <1>7 DEF IInv


LEMMA StutterInv == IInv /\ UNCHANGED vars => IInv'
BY DEF IInv, vars, history

(* IInv is inductive. *)
THEOREM Invariance == Spec => []IInv
<1>1. IInv /\ [Next]_vars => IInv'
  BY StartStep, ProposeInv, StutterInv DEF Next
<1> QED
  BY <1>1, InitInv, PTL DEF Spec

(* Each decrement of confirm_count (set_confirmed) stands for one more     *)
(* distinct producer, through every change of the schedule, or for one     *)
(* that a header whose count wraps around in next() confirmed once more:   *)
(* a tracked block lacks exactly as many confirmations as its count says,  *)
(* and no count wraps below 0.                                             *)
THEOREM ConfirmedByDistinct == Spec => []ConfirmationsDistinct
<1>1. IInv => ConfirmationsDistinct
  BY DEF IInv, CountInv, ConfirmationsDistinct, Tracked, BlockOf
<1> QED
  BY <1>1, Invariance, PTL

(* The irreversible block is never ahead of the proposed one, and that one *)
(* is older than every block that is still tracked.                        *)
THEOREM LibNotAhead == Spec => []LibBehindProposed
<1>1. ASSUME IInv PROVE LibBehindProposed
  <2>1. PICK n, L, lib, prop :
          /\ n = hs.block_num /\ L = Len(hs.confirm_count)
          /\ lib = hs.dpos_irreversible_blocknum /\ prop = hs.dpos_proposed_irreversible_blocknum
    OBVIOUS
  <2>2. n \in Nat /\ L \in Nat /\ lib \in Nat /\ prop \in Nat
    BY <1>1, <2>1, FieldTypes DEF IInv
  <2>3. prop + L <= n /\ lib <= prop
    BY <1>1, <2>1 DEF IInv, LibInv
  <2>4. lib <= prop /\ (L > 0 => prop < n - (L - 1)) /\ prop <= n
    BY <2>2, <2>3
  <2> QED
    BY <2>1, <2>4 DEF LibBehindProposed, Tracked, BlockOf
<1> QED
  BY <1>1, Invariance, PTL

(* Active, pending and proposed schedules have consecutive versions. *)
THEOREM VersionsConsecutive == Spec => []ScheduleVersions
<1>1. IInv => ScheduleVersions
  BY DEF IInv, VersionInv, ScheduleVersions
<1> QED
  BY <1>1, Invariance, PTL

(* What the assertions of set_new_producers ask for holds whenever         *)
(* start_block calls it.                                                   *)
NewProducersFit ==
  hs.block_num < MaxBlock =>
    \A p \in hs.active_schedule.producers : \A c \in Counts(p) :
      confirms_new_range(hs, p, c) => started(hs, proposed, p, c).legal

(* No block of the chain fails the assertions of set_new_producers: they   *)
(* cannot stop the chain.                                                  *)
THEOREM NewProducersAccepted == Spec => []NewProducersFit
<1>1. ASSUME IInv PROVE NewProducersFit
  <2> SUFFICES ASSUME hs.block_num < MaxBlock, NEW p \in hs.active_schedule.producers,
                      NEW c \in Counts(p), confirms_new_range(hs, p, c)
               PROVE  started(hs, proposed, p, c).legal
    BY DEF NewProducersFit
  <2>1. PICK conf2, rep2, need2 :
          Recorded(hs, p, c, confirmers, repeated, needed, conf2, rep2, need2)
    BY DEF Recorded
  <2>2. /\ hs \in HeaderStates /\ LibInv(hs) /\ MapsInv(hs) /\ VersionInv(hs, proposed)
        /\ ConfirmersInv(hs, confirmers) /\ CountInv(hs, confirmers, repeated, needed) /\ c \in Nat
    <3>1. p \in Producers
      BY <1>1, FieldTypes DEF IInv
    <3> QED
      BY <1>1, <3>1, CountsNatural DEF IInv
  <2> QED
    BY <2>1, <2>2, StartedInv
<1> QED
  BY <1>1, Invariance, PTL

(* A schedule takes effect only when the block that announced it is        *)
(* irreversible, the proposed irreversible number never moves back, and    *)
(* the irreversible number may only right after a promotion.               *)
THEOREM LibMoves == Spec => LibAdvances
<1>1. ASSUME IInv, [Next]_vars
      PROVE  [/\ ~promoted => hs'.dpos_irreversible_blocknum >= hs.dpos_irreversible_blocknum
              /\ hs'.dpos_proposed_irreversible_blocknum >= hs.dpos_proposed_irreversible_blocknum
              /\ hs'.active_schedule # hs.active_schedule =>
                   hs.pending_schedule_lib_num <= hs'.dpos_irreversible_blocknum]_vars
  <2> SUFFICES ASSUME Next
               PROVE  /\ ~promoted => hs'.dpos_irreversible_blocknum >= hs.dpos_irreversible_blocknum
                      /\ hs'.dpos_proposed_irreversible_blocknum >= hs.dpos_proposed_irreversible_blocknum
                      /\ hs'.active_schedule # hs.active_schedule =>
                           hs.pending_schedule_lib_num <= hs'.dpos_irreversible_blocknum
    BY <1>1
  <2>1. ASSUME NEW p \in Producers, NEW c \in Counts(p), start_block(p, c)
        PROVE  /\ ~promoted => hs'.dpos_irreversible_blocknum >= hs.dpos_irreversible_blocknum
               /\ hs'.dpos_proposed_irreversible_blocknum >= hs.dpos_proposed_irreversible_blocknum
               /\ hs'.active_schedule # hs.active_schedule =>
                    hs.pending_schedule_lib_num <= hs'.dpos_irreversible_blocknum
    BY <1>1, <2>1, StartStep
  <2>2. ASSUME NEW S \in Proposals, set_proposed_producers(S)
        PROVE  hs' = hs
    BY <2>2 DEF set_proposed_producers
  <2>3. hs.dpos_irreversible_blocknum \in Nat /\ hs.dpos_proposed_irreversible_blocknum \in Nat
    BY <1>1, FieldTypes DEF IInv
  <2> QED
    BY <2>1, <2>2, <2>3 DEF Next
<1> QED
  BY <1>1, Invariance, PTL DEF Spec, LibAdvances
===============================================================================
