--------------------------- MODULE ControllerProofs ---------------------------
(***************************************************************************)
(* Proofs about Controller for every tree of blocks whose irreversible     *)
(* numbers do not fall along a chain, every set of invalid blocks, and any *)
(* number of restarts and crashes: the stores of a node agree at every     *)
(* step of a fork switch and of a replay (StateFollowsHead), the head is a *)
(* best block (HeadIsBest), a switch ends with one of its heads            *)
(* (SwitchOrRestore), a restart with the head there was                    *)
(* (RestartKeepsHead), nothing contradicts the log (NoForkBelowLog), and   *)
(* which assertions may fail at all (OnlyKnownFaults).  None fails         *)
(* (NoFault) if the irreversible number never leaps over a fork, the       *)
(* process never crashes and restarts at most once.                        *)
(***************************************************************************)
EXTENDS Controller, FiniteSetTheorems, WellFoundedInduction, TLAPS

-------------------------------------------------------------------------------
(* The tree of blocks. *)

LEMMA Tree1 ==
  /\ Genesis \in Blocks /\ NoBlock \notin Blocks /\ IsFiniteSet(Blocks)
  /\ Num[Genesis] = 1 /\ Chain[Genesis] = {Genesis} /\ Lib[Genesis] = 0
  /\ \A b \in Blocks : Num[b] \in Nat /\ Lib[b] \in Nat
  /\ \A b \in Blocks \ {Genesis} :
       /\ Parent[b] \in Blocks /\ Num[b] = Num[Parent[b]] + 1
       /\ Chain[b] = Chain[Parent[b]] \cup {b}
       /\ Lib[Parent[b]] <= Lib[b] /\ Lib[b] < Num[b]
BY TreeAssumption, LibAssumption

(* A set of naturals has a least element. *)
LEMMA Least ==
  ASSUME NEW S \in SUBSET Nat, S # {}
  PROVE  \E m \in S : \A n \in S : m <= n
<1>1. PICK m \in S : \A n \in S : ~(<<n, m>> \in OpToRel(<, Nat))
  BY NatLessThanWellFounded, WFMin
<1>2. ASSUME NEW n \in S PROVE m <= n
  <2>1. ~(n < m)
    BY <1>1 DEF OpToRel
  <2> QED
    BY <2>1
<1> QED
  BY <1>2

(* Among some blocks, one has a least number. *)
LEMMA LeastNum ==
  ASSUME NEW S \in SUBSET Blocks, S # {}
  PROVE  \E b \in S : \A c \in S : Num[b] <= Num[c]
<1>1. PICK T : T = {Num[b] : b \in S}
  OBVIOUS
<1>2. T \in SUBSET Nat /\ T # {}
  BY <1>1, Tree1
<1>3. PICK n \in T : \A m \in T : n <= m
  BY <1>2, Least
<1> QED
  BY <1>1, <1>3

LEMMA ChainBasics ==
  \A b \in Blocks : /\ Chain[b] \subseteq Blocks /\ b \in Chain[b] /\ Genesis \in Chain[b]
                    /\ \A c \in Chain[b] : /\ Chain[c] \subseteq Chain[b]
                                           /\ Num[c] <= Num[b] /\ (Num[c] = Num[b] => c = b)
                                           /\ Lib[c] <= Lib[b]
<1> DEFINE P(b) == /\ Chain[b] \subseteq Blocks /\ b \in Chain[b] /\ Genesis \in Chain[b]
                   /\ \A c \in Chain[b] : /\ Chain[c] \subseteq Chain[b]
                                          /\ Num[c] <= Num[b] /\ (Num[c] = Num[b] => c = b)
                                          /\ Lib[c] <= Lib[b]
<1> DEFINE S == {b \in Blocks : ~P(b)}
<1>1. SUFFICES ASSUME S # {} PROVE FALSE
  OBVIOUS
<1>2. PICK b \in S : \A c \in S : Num[b] <= Num[c]
  <2>1. S \in SUBSET Blocks
    OBVIOUS
  <2> HIDE DEF S
  <2> QED BY <1>1, <2>1, LeastNum
<1>3. b \in Blocks /\ ~P(b)
  OBVIOUS
<1>4. b # Genesis
  BY <1>3, Tree1
<1>5. /\ Parent[b] \in Blocks /\ Num[b] = Num[Parent[b]] + 1
      /\ Chain[b] = Chain[Parent[b]] \cup {b} /\ Lib[Parent[b]] <= Lib[b]
      /\ Num[b] \in Nat /\ Num[Parent[b]] \in Nat /\ Lib[b] \in Nat /\ Lib[Parent[b]] \in Nat
  BY <1>3, <1>4, Tree1
<1>6. P(Parent[b])
  BY <1>2, <1>5
<1>7. \A c \in Chain[Parent[b]] : c \in Blocks /\ Num[c] \in Nat /\ Lib[c] \in Nat
  BY <1>6, Tree1
<1> QED
  BY <1>3, <1>5, <1>6, <1>7

LEMMA RankFacts ==
  ASSUME NEW a \in Blocks, NEW b \in Blocks, NEW c \in Blocks
  PROVE  /\ better(a, b) => ~better(b, a)
         /\ better(a, b) /\ ~better(c, b) => better(a, c)
         /\ ~better(a, b) /\ better(c, b) => better(c, a)
         /\ ~better(a, b) /\ ~better(b, a) => Lib[a] = Lib[b] /\ Num[a] = Num[b]
         /\ better(a, b) => Lib[b] <= Lib[a]
         /\ ~better(a, a)
BY Tree1 DEF better

(* A chain is linear: of two of its blocks, the one with the lower number  *)
(* is an ancestor of the other.                                            *)
LEMMA ChainLinear ==
  \A b \in Blocks : \A c, d \in Chain[b] : Num[c] <= Num[d] => c \in Chain[d]
<1> DEFINE P(b) == \A c, d \in Chain[b] : Num[c] <= Num[d] => c \in Chain[d]
<1> DEFINE S == {b \in Blocks : ~P(b)}
<1>1. SUFFICES ASSUME S # {} PROVE FALSE
  OBVIOUS
<1>2. PICK b \in S : \A c \in S : Num[b] <= Num[c]
  <2>1. S \in SUBSET Blocks
    OBVIOUS
  <2> HIDE DEF S
  <2> QED BY <1>1, <2>1, LeastNum
<1>3. b \in Blocks /\ ~P(b)
  OBVIOUS
<1>4. b # Genesis
  BY <1>3, Tree1
<1>5. /\ Parent[b] \in Blocks /\ Num[b] = Num[Parent[b]] + 1
      /\ Chain[b] = Chain[Parent[b]] \cup {b}
      /\ Num[b] \in Nat /\ Num[Parent[b]] \in Nat
  BY <1>3, <1>4, Tree1
<1>6. P(Parent[b])
  BY <1>2, <1>5
<1>7. \A c \in Chain[b] : c \in Blocks /\ Num[c] \in Nat /\ Num[c] <= Num[b] /\ (Num[c] = Num[b] => c = b)
  BY <1>3, ChainBasics, Tree1
<1>8. \A c \in Chain[Parent[b]] : Num[c] <= Num[Parent[b]]
  BY <1>5, ChainBasics
<1> QED
  BY <1>3, <1>5, <1>6, <1>7, <1>8

(* A block has an ancestor of every number up to its own. *)
LEMMA ChainAt ==
  ASSUME NEW b \in Blocks, NEW n \in Nat, 1 <= n, n <= Num[b]
  PROVE  \E c \in Chain[b] : Num[c] = n
<1> DEFINE S == {c \in Chain[b] : n <= Num[c]}
<1>1. b \in S /\ S \in SUBSET Blocks /\ S # {}
  BY ChainBasics
<1>2. PICK c \in S : \A d \in S : Num[c] <= Num[d]
  <2> HIDE DEF S
  <2> QED BY <1>1, LeastNum
<1>3. c \in Blocks /\ c \in Chain[b] /\ n <= Num[c] /\ Num[c] \in Nat
  BY <1>1, <1>2, Tree1
<1>4. SUFFICES ASSUME Num[c] # n PROVE FALSE
  BY <1>3
<1>5. c # Genesis
  BY <1>3, <1>4, Tree1
<1>6. Parent[c] \in Blocks /\ Num[c] = Num[Parent[c]] + 1 /\ Parent[c] \in Chain[c] /\ Num[Parent[c]] \in Nat
  BY <1>3, <1>5, Tree1, ChainBasics
<1>7. Parent[c] \in Chain[b]
  BY <1>3, <1>6, ChainBasics
<1>8. n <= Num[Parent[c]]
  BY <1>3, <1>4, <1>6
<1> QED
  BY <1>2, <1>6, <1>7, <1>8

(* Above an ancestor stands a child of it. *)
LEMMA ChildAbove ==
  ASSUME NEW b \in Blocks, NEW k \in Chain[b], k # b
  PROVE  \E c \in Chain[b] \ {Genesis} : Parent[c] = k /\ Num[c] = Num[k] + 1
<1>1. /\ k \in Blocks /\ Num[k] \in Nat /\ Num[b] \in Nat /\ Num[k] <= Num[b] /\ Num[k] # Num[b]
  BY ChainBasics, Tree1
<1>2. 1 <= Num[k] + 1 /\ Num[k] + 1 <= Num[b] /\ Num[k] + 1 \in Nat
  BY <1>1
<1>3. PICK c \in Chain[b] : Num[c] = Num[k] + 1
  BY <1>2, ChainAt
<1>4. c \in Blocks /\ k \in Chain[c] /\ c # k
  BY <1>1, <1>3, ChainBasics, ChainLinear
<1>5. c # Genesis
  BY <1>4, Tree1
<1>6. k \in Chain[Parent[c]] /\ Parent[c] \in Blocks /\ Num[Parent[c]] = Num[k] /\ Num[Parent[c]] \in Nat
  BY <1>1, <1>3, <1>4, <1>5, Tree1
<1>7. Parent[c] = k
  BY <1>6, ChainBasics
<1> QED
  BY <1>3, <1>5, <1>7

(* Two blocks have a newest common ancestor. *)
LEMMA ForkPoint ==
  ASSUME NEW b \in Blocks, NEW c \in Blocks
  PROVE  \E k \in Blocks : Chain[k] = Chain[b] \cap Chain[c]
<1> DEFINE P(d) == \E k \in Blocks : Chain[k] = Chain[d] \cap Chain[c]
<1> DEFINE S == {d \in Blocks : ~P(d)}
<1>1. SUFFICES ASSUME S # {} PROVE FALSE
  OBVIOUS
<1>2. PICK d \in S : \A e \in S : Num[d] <= Num[e]
  <2>1. S \in SUBSET Blocks
    OBVIOUS
  <2> HIDE DEF S
  <2> QED BY <1>1, <2>1, LeastNum
<1>3. d \in Blocks /\ ~P(d)
  OBVIOUS
<1>4. d \notin Chain[c]
  <2>1. SUFFICES ASSUME d \in Chain[c] PROVE FALSE
    OBVIOUS
  <2>2. Chain[d] \subseteq Chain[c]
    BY <1>3, <2>1, ChainBasics
  <2> QED
    BY <1>3, <2>2
<1>5. d # Genesis
  BY <1>4, ChainBasics
<1>6. Parent[d] \in Blocks /\ Num[d] = Num[Parent[d]] + 1 /\ Chain[d] = Chain[Parent[d]] \cup {d}
      /\ Num[Parent[d]] \in Nat
  BY <1>3, <1>5, Tree1
<1>7. P(Parent[d])
  BY <1>2, <1>6
<1> QED
  BY <1>3, <1>4, <1>6, <1>7

(* A block outranks its ancestors. *)
LEMMA Outranks ==
  ASSUME NEW b \in Blocks, NEW c \in Chain[b]
  PROVE  ~better(c, b) /\ (c # b => better(b, c))
<1>1. c \in Blocks /\ Num[c] <= Num[b] /\ (Num[c] = Num[b] => c = b) /\ Lib[c] <= Lib[b]
  BY ChainBasics
<1> QED
  BY <1>1, Tree1 DEF better


-------------------------------------------------------------------------------
(* The order of the fork database's indexes. *)

(* A finite set has a first element in a strict order. *)
LEMMA Minimal ==
  ASSUME NEW S, IsFiniteSet(S), S # {}, NEW R,
         \A a, b \in S : <<a, b>> \in R => <<b, a>> \notin R,
         \A a, b, c \in S : <<a, b>> \in R /\ <<b, c>> \in R => <<a, c>> \in R
  PROVE  \E m \in S : \A a \in S : <<a, m>> \notin R
<1> DEFINE below(a) == {c \in S : <<c, a>> \in R}
<1>1. \A a \in S : IsFiniteSet(below(a)) /\ Cardinality(below(a)) \in Nat
  <2>1. \A a \in S : IsFiniteSet(below(a))
    BY FS_Subset
  <2> QED
    BY <2>1, FS_CardinalityType
<1>0. PICK C : C = [a \in S |-> Cardinality(below(a))]
  OBVIOUS
<1>7. \A a \in S : C[a] = Cardinality(below(a)) /\ C[a] \in Nat
  BY <1>0, <1>1
<1>2. PICK T : T = {C[a] : a \in S}
  OBVIOUS
<1>3. T \in SUBSET Nat /\ T # {}
  <2> HIDE DEF below
  <2> QED BY <1>2, <1>7
<1>4. PICK n \in T : \A m \in T : n <= m
  BY <1>3, Least
<1>5. PICK m \in S : C[m] = n
  BY <1>2, <1>4
<1>6. ASSUME NEW a \in S, <<a, m>> \in R PROVE FALSE
  <2>1. below(a) \subseteq below(m) /\ a \in below(m) /\ a \notin below(a)
    BY <1>6
  <2>2. below(a) # below(m)
    BY <2>1
  <2>3. Cardinality(below(a)) < Cardinality(below(m))
    <3>1. IsFiniteSet(below(m))
      BY <1>1
    <3>2. Cardinality(below(a)) \in Nat /\ Cardinality(below(m)) \in Nat
      BY <1>1
    <3>3. below(a) \in SUBSET below(m)
      BY <2>1
    <3> HIDE DEF below
    <3> QED BY <2>2, <3>1, <3>2, <3>3, FS_Subset
  <2>4. C[m] <= C[a]
    BY <1>2, <1>4, <1>5
  <2>5. Cardinality(below(a)) \in Nat /\ Cardinality(below(m)) \in Nat
    BY <1>1
  <2> QED
    BY <1>7, <2>3, <2>4, <2>5
<1> QED
  BY <1>6

ForkDbs == [blocks : SUBSET Blocks, before : SUBSET (Blocks \X Blocks),
            head : Blocks \cup {NoBlock}, in_chain : SUBSET Blocks,
            validated : SUBSET Blocks, trxs : SUBSET Blocks]

(* f.before orders the blocks of each number. *)
Ordered(f) ==
  /\ f.before \subseteq f.blocks \X f.blocks
  /\ \A a, b \in f.blocks : a # b /\ Num[a] = Num[b] => <<a, b>> \in f.before \/ <<b, a>> \in f.before
  /\ \A a, b \in f.blocks : <<a, b>> \in f.before => <<b, a>> \notin f.before /\ Num[a] = Num[b]
  /\ \A a, b, c \in f.blocks : <<a, b>> \in f.before /\ <<b, c>> \in f.before => <<a, c>> \in f.before

(* An ancestor of a known block is known, or an ancestor of all of them. *)
Rooted(f) ==
  \A b, c \in f.blocks : \A a \in Chain[b] : a \in f.blocks \/ a \in Chain[c]

WellFormed(f) == f \in ForkDbs /\ Ordered(f) /\ Rooted(f)

Same(a, b) == Lib[a] = Lib[b] /\ Num[a] = Num[b]

(* k is a best block, and the first of those that are equal. *)
IsBest(f, k) ==
  /\ k \in f.blocks /\ \A c \in f.blocks : ~better(c, k)
  /\ \A c \in f.blocks : c # k /\ Same(c, k) => <<k, c>> \in f.before

LEMMA FirstOf ==
  ASSUME NEW f, f \in ForkDbs, Ordered(f), NEW S, S \subseteq f.blocks, S # {},
         \A a, b \in S : Num[a] = Num[b]
  PROVE  /\ first_of(f, S) \in S
         /\ \A c \in S \ {first_of(f, S)} : <<first_of(f, S), c>> \in f.before
<1>1. IsFiniteSet(S)
  BY Tree1, FS_Subset DEF ForkDbs
<1>2. PICK R : R = f.before
  OBVIOUS
<1>5. /\ \A a, b \in S : <<a, b>> \in R => <<b, a>> \notin R
      /\ \A a, b, c \in S : <<a, b>> \in R /\ <<b, c>> \in R => <<a, c>> \in R
  BY <1>2 DEF Ordered
<1>6. \E m \in S : \A a \in S : <<a, m>> \notin R
  BY <1>1, <1>5, Minimal
<1>4. PICK m \in S : \A a \in S : <<a, m>> \notin f.before
  BY <1>2, <1>6
<1>3. \A c \in S \ {m} : <<m, c>> \in f.before
  BY <1>4 DEF Ordered
<1> QED
  BY <1>3 DEF first_of

LEMMA BestExists ==
  ASSUME NEW S, S \subseteq Blocks, S # {}
  PROVE  \E k \in S : \A c \in S : ~better(c, k)
<1>1. IsFiniteSet(S)
  BY Tree1, FS_Subset
<1>2. PICK R : R = {p \in S \X S : better(p[1], p[2])}
  OBVIOUS
<1>3. \A a, b \in S : <<a, b>> \in R <=> better(a, b)
  BY <1>2
<1>4. \A a, b, c \in S : /\ better(a, b) => ~better(b, a)
                         /\ better(a, b) /\ better(b, c) => better(a, c)
  BY RankFacts
<1>5. PICK k \in S : \A c \in S : <<c, k>> \notin R
  BY <1>1, <1>3, <1>4, Minimal
<1> QED
  BY <1>3, <1>5

LEMMA BestIs ==
  ASSUME NEW f, f \in ForkDbs, Ordered(f), f.blocks # {}
  PROVE  IsBest(f, best(f))
<1> DEFINE top == {b \in f.blocks : \A c \in f.blocks : ~better(c, b)}
<1>1. f.blocks \subseteq Blocks
  BY DEF ForkDbs
<1>2. top # {} /\ top \subseteq f.blocks
  BY <1>1, BestExists
<1>3. \A a, b \in top : Num[a] = Num[b]
  BY <1>1, RankFacts
<1>4. best(f) = first_of(f, top)
  BY DEF best
<1>5. /\ best(f) \in top /\ \A c \in top \ {best(f)} : <<best(f), c>> \in f.before
  <2> HIDE DEF top
  <2> QED BY <1>2, <1>3, <1>4, FirstOf
<1>6. ASSUME NEW c \in f.blocks, Same(c, best(f)) PROVE c \in top
  BY <1>5, <1>6 DEF Same, better
<1> QED
  BY <1>5, <1>6 DEF IsBest

LEMMA BestUnique ==
  ASSUME NEW f, f \in ForkDbs, Ordered(f), NEW k, IsBest(f, k), NEW m, IsBest(f, m)
  PROVE  m = k
<1>1. k \in Blocks /\ m \in Blocks /\ k \in f.blocks /\ m \in f.blocks
  BY DEF ForkDbs, IsBest
<1>2. Same(m, k) /\ Same(k, m)
  BY <1>1, RankFacts DEF IsBest, Same
<1> QED
  BY <1>1, <1>2 DEF IsBest, Ordered


-------------------------------------------------------------------------------
(* What the operations of the fork database do. *)

(* The marks of h's chain. *)
Marked(f, h) == f.in_chain = (Chain[h] \cap f.blocks) \ {Genesis}

LEMMA NotInIndex ==
  ASSUME NEW f, WellFormed(f), NEW b \in Blocks \ {Genesis}, b \notin f.blocks, Parent[b] \in f.blocks
  PROVE  \A c \in f.blocks : b \notin Chain[c]
<1>1. Parent[b] \in Blocks /\ b \notin Chain[Parent[b]]
  BY Tree1, ChainBasics
<1> QED
  BY <1>1 DEF WellFormed, Rooted

LEMMA Restricted ==
  ASSUME NEW f, WellFormed(f), NEW T,
         \A b, c \in f.blocks \cap T : \A a \in Chain[b] \cap f.blocks : a \in T \/ a \in Chain[c]
  PROVE  /\ WellFormed(restrict(f, T))
         /\ restrict(f, T).blocks = f.blocks \cap T
         /\ restrict(f, T).before = f.before \cap (T \X T)
         /\ restrict(f, T).in_chain = f.in_chain \cap T
         /\ restrict(f, T).validated = f.validated \cap T
         /\ restrict(f, T).trxs = f.trxs \cap T
         /\ restrict(f, T).head = f.head
<1> DEFINE g == restrict(f, T)
<1>1. f \in ForkDbs /\ Ordered(f) /\ Rooted(f)
  BY DEF WellFormed
<1>2. /\ g.blocks = f.blocks \cap T /\ g.before = f.before \cap (T \X T)
      /\ g.in_chain = f.in_chain \cap T /\ g.validated = f.validated \cap T
      /\ g.trxs = f.trxs \cap T /\ g.head = f.head /\ g \in ForkDbs
  BY <1>1 DEF restrict, ForkDbs
<1> HIDE DEF g
<1>3. \A a, b \in g.blocks : <<a, b>> \in g.before <=> <<a, b>> \in f.before
  BY <1>2
<1>4. g.blocks \subseteq f.blocks
  BY <1>2
<1>8. g.before \subseteq g.blocks \X g.blocks
  BY <1>1, <1>2 DEF Ordered
<1>5. Ordered(g)
  BY <1>1, <1>3, <1>4, <1>8 DEF Ordered
<1>6. Rooted(g)
  BY <1>1, <1>2 DEF Rooted
<1>7. WellFormed(g)
  BY <1>2, <1>5, <1>6 DEF WellFormed
<1> QED
  BY <1>2, <1>7 DEF g

LEMMA WithHead ==
  ASSUME NEW f, WellFormed(f), NEW h \in Blocks \cup {NoBlock}
  PROVE  /\ WellFormed([f EXCEPT !.head = h])
         /\ [f EXCEPT !.head = h].blocks = f.blocks
         /\ [f EXCEPT !.head = h].before = f.before
         /\ [f EXCEPT !.head = h].in_chain = f.in_chain
         /\ [f EXCEPT !.head = h].validated = f.validated
         /\ [f EXCEPT !.head = h].trxs = f.trxs
         /\ [f EXCEPT !.head = h].head = h
         /\ \A k : IsBest(f, k) => IsBest([f EXCEPT !.head = h], k)
<1> DEFINE g == [f EXCEPT !.head = h]
<1>1. /\ g.blocks = f.blocks /\ g.before = f.before /\ g.in_chain = f.in_chain
      /\ g.validated = f.validated /\ g.trxs = f.trxs /\ g.head = h /\ g \in ForkDbs
  BY DEF WellFormed, ForkDbs
<1> HIDE DEF g
<1>2. Ordered(g) /\ Rooted(g)
  BY <1>1 DEF WellFormed, Ordered, Rooted
<1>3. \A k : IsBest(f, k) => IsBest(g, k)
  BY <1>1 DEF IsBest
<1>4. WellFormed(g)
  BY <1>1, <1>2 DEF WellFormed
<1> QED
  BY <1>1, <1>3, <1>4 DEF g

LEMMA BestHead ==
  ASSUME NEW f, WellFormed(f)
  PROVE  /\ best(f) \in Blocks \cup {NoBlock}
         /\ f.blocks # {} => IsBest(f, best(f))
         /\ f.blocks = {} => best(f) = NoBlock
<1>1. f.blocks = {} => best(f) = NoBlock
  BY DEF best
<1>2. f.blocks # {} => IsBest(f, best(f))
  BY BestIs DEF WellFormed
<1> QED
  BY <1>1, <1>2 DEF IsBest, WellFormed, ForkDbs

LEMMA Removed ==
  ASSUME NEW f, WellFormed(f), NEW b \in Blocks
  PROVE  /\ WellFormed(remove(f, b))
         /\ remove(f, b).blocks = {c \in f.blocks : b \notin Chain[c]}
         /\ remove(f, b).before = f.before \cap (remove(f, b).blocks \X remove(f, b).blocks)
         /\ remove(f, b).in_chain = f.in_chain \cap remove(f, b).blocks
         /\ remove(f, b).validated = f.validated \cap remove(f, b).blocks
         /\ remove(f, b).trxs = f.trxs \cap remove(f, b).blocks
         /\ remove(f, b).blocks # {} => IsBest(remove(f, b), remove(f, b).head)
         /\ remove(f, b).blocks = {} => remove(f, b).head = NoBlock
<1> DEFINE T == {c \in f.blocks : b \notin Chain[c]}
<1> DEFINE g == restrict(f, T)
<1>1. f.blocks \subseteq Blocks
  BY DEF WellFormed, ForkDbs
<1>2. \A c \in T : \A a \in Chain[c] \cap f.blocks : a \in T
  BY <1>1, ChainBasics
<1>3. f.blocks \cap T = T
  OBVIOUS
<1>4. /\ WellFormed(g) /\ g.blocks = T /\ g.before = f.before \cap (T \X T)
      /\ g.in_chain = f.in_chain \cap T /\ g.validated = f.validated \cap T /\ g.trxs = f.trxs \cap T
  <2> HIDE DEF T
  <2> USE DEF g
  <2>1. \A c, d \in f.blocks \cap T : \A a \in Chain[c] \cap f.blocks : a \in T \/ a \in Chain[d]
    BY <1>2
  <2>2. /\ WellFormed(restrict(f, T)) /\ restrict(f, T).blocks = f.blocks \cap T
        /\ restrict(f, T).before = f.before \cap (T \X T)
        /\ restrict(f, T).in_chain = f.in_chain \cap T
        /\ restrict(f, T).validated = f.validated \cap T
        /\ restrict(f, T).trxs = f.trxs \cap T
    BY <2>1, Restricted
  <2> QED BY <1>3, <2>2
<1>5. remove(f, b) = [g EXCEPT !.head = best(g)]
  BY DEF remove
<1> HIDE DEF T, g
<1>6. /\ best(g) \in Blocks \cup {NoBlock}
      /\ g.blocks # {} => IsBest(g, best(g))
      /\ g.blocks = {} => best(g) = NoBlock
  BY <1>4, BestHead
<1>7. /\ WellFormed(remove(f, b)) /\ remove(f, b).blocks = T
      /\ remove(f, b).before = f.before \cap (T \X T)
      /\ remove(f, b).in_chain = f.in_chain \cap T /\ remove(f, b).validated = f.validated \cap T
      /\ remove(f, b).trxs = f.trxs \cap T /\ remove(f, b).head = best(g)
      /\ g.blocks # {} => IsBest(remove(f, b), best(g))
  BY <1>4, <1>5, <1>6, WithHead
<1> QED
  BY <1>4, <1>6, <1>7 DEF T

LEMMA Inserted ==
  ASSUME NEW f, WellFormed(f), NEW b \in Blocks \ {Genesis}, b \notin f.blocks, Parent[b] \in f.blocks
  PROVE  /\ WellFormed(insert(f, b))
         /\ insert(f, b).blocks = f.blocks \cup {b}
         /\ \A a, c \in f.blocks : <<a, c>> \in insert(f, b).before <=> <<a, c>> \in f.before
         /\ \A c \in f.blocks : Num[c] = Num[b] => <<c, b>> \in insert(f, b).before
         /\ insert(f, b).in_chain = f.in_chain
         /\ insert(f, b).validated = f.validated /\ insert(f, b).trxs = f.trxs
         /\ IsBest(insert(f, b), insert(f, b).head)
<1> DEFINE new == {<<c, b>> : c \in {c \in f.blocks : Num[c] = Num[b]}}
<1> DEFINE g == [f EXCEPT !.blocks = @ \cup {b}, !.before = @ \cup new]
<1>0. f \in ForkDbs /\ f.blocks \subseteq Blocks /\ Ordered(f) /\ Rooted(f)
  BY DEF WellFormed, ForkDbs
<1>1. new \subseteq Blocks \X Blocks
  BY <1>0
<1>2. /\ g \in ForkDbs /\ g.blocks = f.blocks \cup {b} /\ g.before = f.before \cup new
      /\ g.in_chain = f.in_chain /\ g.validated = f.validated /\ g.trxs = f.trxs
  <2> HIDE DEF new
  <2> QED BY <1>0, <1>1 DEF ForkDbs
<1>3. \A a, c : <<a, c>> \in new <=> c = b /\ a \in f.blocks /\ Num[a] = Num[b]
  OBVIOUS
<1>9. insert(f, b) = [g EXCEPT !.head = best(g)]
  BY DEF insert
<1> HIDE DEF new, g
<1>4. \A a, c \in g.blocks : <<a, c>> \in g.before <=>
          <<a, c>> \in f.before \/ (c = b /\ a \in f.blocks /\ Num[a] = Num[b])
  BY <1>2, <1>3
<1>12. \A a, c : <<a, c>> \in f.before => a \in f.blocks /\ c \in f.blocks
  BY <1>0 DEF Ordered
<1>5. Ordered(g)
  <2>1. g.before \subseteq g.blocks \X g.blocks
    <3>1. new \subseteq g.blocks \X g.blocks
      BY <1>2 DEF new
    <3> QED BY <1>0, <1>2, <3>1 DEF Ordered
  <2>2. \A a, c \in g.blocks : a # c /\ Num[a] = Num[c] => <<a, c>> \in g.before \/ <<c, a>> \in g.before
    BY <1>0, <1>2, <1>4 DEF Ordered
  <2>3. \A a, c \in g.blocks : <<a, c>> \in g.before => <<c, a>> \notin g.before /\ Num[a] = Num[c]
    BY <1>0, <1>2, <1>4, <1>12 DEF Ordered
  <2>4. \A a, c, d \in g.blocks : <<a, c>> \in g.before /\ <<c, d>> \in g.before => <<a, d>> \in g.before
    <3>1. SUFFICES ASSUME NEW a \in g.blocks, NEW c \in g.blocks, NEW d \in g.blocks,
                          <<a, c>> \in g.before, <<c, d>> \in g.before
                   PROVE  <<a, d>> \in g.before
      OBVIOUS
    <3>2. c \in f.blocks /\ a \in f.blocks /\ <<a, c>> \in f.before /\ Num[a] = Num[c]
      <4>1. c \in f.blocks
        BY <1>2, <1>4, <1>12, <3>1
      <4>2. <<a, c>> \in f.before /\ a \in f.blocks
        BY <1>2, <1>4, <1>12, <3>1, <4>1
      <4> QED BY <1>0, <4>1, <4>2 DEF Ordered
    <3> QED BY <1>0, <1>2, <1>4, <1>12, <3>1, <3>2 DEF Ordered
  <2> QED BY <2>1, <2>2, <2>3, <2>4 DEF Ordered
<1>6. Rooted(g)
  <2>1. Parent[b] \in Blocks /\ Chain[b] = Chain[Parent[b]] \cup {b}
    BY Tree1
  <2>2. ASSUME NEW c \in g.blocks, NEW d \in g.blocks, NEW a \in Chain[c], a \notin g.blocks
        PROVE  a \in Chain[d]
    <3>1. PICK e \in f.blocks : a \in Chain[e]
      BY <1>2, <2>1, <2>2
    <3>2. \A x \in f.blocks : a \in Chain[x]
      BY <1>0, <1>2, <2>2, <3>1 DEF Rooted
    <3> QED BY <1>2, <2>1, <3>2
  <2> QED BY <2>2 DEF Rooted
<1>7. WellFormed(g) /\ g.blocks # {}
  BY <1>2, <1>5, <1>6 DEF WellFormed
<1>8. best(g) \in Blocks \cup {NoBlock} /\ IsBest(g, best(g))
  BY <1>7, BestHead
<1>10. /\ WellFormed(insert(f, b)) /\ insert(f, b).blocks = g.blocks
       /\ insert(f, b).before = g.before
       /\ insert(f, b).in_chain = g.in_chain /\ insert(f, b).validated = g.validated
       /\ insert(f, b).trxs = g.trxs /\ insert(f, b).head = best(g)
       /\ IsBest(insert(f, b), best(g))
  BY <1>7, <1>8, <1>9, WithHead
<1>11. \A a, c \in f.blocks : <<a, c>> \in g.before <=> <<a, c>> \in f.before
  BY <1>2, <1>4
<1> QED
  BY <1>2, <1>4, <1>10, <1>11

LEMMA OldestIs ==
  ASSUME NEW f, WellFormed(f), f.blocks # {}
  PROVE  /\ oldest(f) \in f.blocks /\ \A c \in f.blocks : Num[oldest(f)] <= Num[c]
         /\ lowest(f) \cap f.in_chain # {} => oldest(f) \in f.in_chain
<1> DEFINE mine == lowest(f) \cap f.in_chain
<1> DEFINE T == IF mine = {} THEN lowest(f) ELSE mine
<1>1. f \in ForkDbs /\ Ordered(f) /\ f.blocks \subseteq Blocks
  BY DEF WellFormed, ForkDbs
<1>2. PICK c \in f.blocks : \A d \in f.blocks : Num[c] <= Num[d]
  BY <1>1, LeastNum
<1>3. c \in lowest(f)
  BY <1>2 DEF lowest
<1>4. T \subseteq lowest(f) /\ T # {} /\ (mine # {} => T \subseteq f.in_chain)
  BY <1>3
<1>5. \A a, b \in lowest(f) : Num[a] = Num[b] /\ a \in f.blocks
  BY <1>1, Tree1 DEF lowest
<1>6. oldest(f) = first_of(f, T)
  BY DEF oldest
<1> HIDE DEF T
<1>7. T \subseteq f.blocks /\ \A a, b \in T : Num[a] = Num[b]
  BY <1>4, <1>5
<1>8. first_of(f, T) \in T
  BY <1>1, <1>4, <1>7, FirstOf
<1> QED
  BY <1>4, <1>6, <1>8 DEF lowest

(* The oldest known block is an ancestor of the head that is marked. *)
LEMMA OldestOnChain ==
  ASSUME NEW f, WellFormed(f), NEW h \in f.blocks, Marked(f, h)
  PROVE  oldest(f) \in Chain[h]
<1> DEFINE o == oldest(f)
<1>1. f.blocks \subseteq Blocks /\ h \in Blocks /\ Rooted(f)
  BY DEF WellFormed, ForkDbs
<1>2. /\ o \in f.blocks /\ \A c \in f.blocks : Num[o] <= Num[c]
      /\ lowest(f) \cap f.in_chain # {} => o \in f.in_chain
  BY OldestIs
<1>9. SUFFICES o \in Chain[h]
  OBVIOUS
<1> HIDE DEF o
<1>3. o \in Blocks /\ Num[o] \in Nat /\ Num[o] <= Num[h] /\ Genesis \in Chain[o]
  BY <1>1, <1>2, Tree1, ChainBasics
<1>4. 1 <= Num[o]
  BY <1>3, Tree1, ChainBasics
<1>5. PICK c \in Chain[h] : Num[c] = Num[o]
  BY <1>1, <1>3, <1>4, ChainAt
<1>6. c \in f.blocks
  BY <1>1, <1>2, <1>3, <1>5, ChainBasics DEF Rooted
<1>7. CASE c = Genesis
  BY <1>3, <1>5, <1>7, ChainBasics
<1>8. CASE c # Genesis
  <2>1. c \in f.in_chain
    BY <1>5, <1>6, <1>8 DEF Marked
  <2>2. c \in lowest(f)
    BY <1>2, <1>5, <1>6 DEF lowest
  <2>3. o \in f.in_chain
    BY <1>2, <2>1, <2>2
  <2> QED BY <2>3 DEF Marked
<1> QED
  BY <1>7, <1>8

LEMMA IsBestRestricted ==
  ASSUME NEW f, NEW g, NEW k, IsBest(g, k), f.blocks \subseteq g.blocks, k \in f.blocks,
         f.before = g.before \cap (f.blocks \X f.blocks)
  PROVE  IsBest(f, k)
BY DEF IsBest

(* add(): at most the oldest block becomes irreversible, and what is left  *)
(* then is what builds on it.                                              *)
LEMMA Pruned ==
  ASSUME NEW g, WellFormed(g), IsBest(g, g.head), NEW h \in g.blocks, Marked(g, h)
  PROVE  /\ WellFormed(pruned(g))
         /\ pruned(g).blocks \subseteq g.blocks
         /\ pruned(g).before = g.before \cap (pruned(g).blocks \X pruned(g).blocks)
         /\ pruned(g).in_chain = g.in_chain \cap pruned(g).blocks
         /\ g.validated \subseteq g.blocks => pruned(g).validated = g.validated \cap pruned(g).blocks
         /\ g.trxs \subseteq g.blocks => pruned(g).trxs = g.trxs \cap pruned(g).blocks
         /\ pruned(g).blocks # {} => IsBest(pruned(g), pruned(g).head)
         /\ pruned(g).blocks = {} => pruned(g).head = NoBlock
         /\ irreversible(g) = {} => pruned(g) = g
         /\ irreversible(g) # {} =>
              /\ irreversible(g) = {oldest(g)} /\ Num[oldest(g)] < Lib[g.head]
              /\ pruned(g).blocks = {c \in g.blocks : c # oldest(g) /\ oldest(g) \in Chain[c]}
<1> DEFINE o == oldest(g)
<1> DEFINE others == {c \in g.blocks : Num[c] = Num[o]} \ {o}
<1> DEFINE T == {c \in g.blocks \ {o} : Chain[c] \cap others = {}}
<1> DEFINE f == restrict(g, T)
<1>1. g \in ForkDbs /\ g.blocks \subseteq Blocks /\ Rooted(g) /\ Ordered(g)
  BY DEF WellFormed, ForkDbs
<1>2. o \in g.blocks /\ o \in Chain[h] /\ \A c \in g.blocks : Num[o] <= Num[c]
  BY OldestIs, OldestOnChain
<1>3. CASE irreversible(g) = {}
  <2>1. pruned(g) = g
    BY <1>3 DEF pruned
  <2>2. g.in_chain \subseteq g.blocks /\ g.before \subseteq g.blocks \X g.blocks /\ g.blocks # {}
    BY <1>1 DEF Marked, Ordered
  <2> QED BY <1>3, <2>1, <2>2
<1>4. CASE irreversible(g) # {}
  <2>1. irreversible(g) = {o} /\ Num[o] < Lib[g.head]
    BY <1>4 DEF irreversible
  <2>2. pruned(g) = IF others = {} THEN f ELSE [f EXCEPT !.head = best(f)]
    BY <1>4 DEF pruned, prune
  <2>3. T = {c \in g.blocks : c # o /\ o \in Chain[c]}
    <3> HIDE DEF o
    <3>1. ASSUME NEW c \in g.blocks, o \in Chain[c] PROVE Chain[c] \cap others = {}
      <4>1. ASSUME NEW a \in Chain[c], a \in others PROVE FALSE
        <5>1. a \in Chain[c] /\ Num[a] = Num[o] /\ c \in Blocks /\ a \in Blocks /\ o \in Blocks
          BY <1>1, <1>2, <4>1
        <5>2. a \in Chain[o]
          BY <3>1, <5>1, ChainLinear, Tree1
        <5> QED BY <4>1, <5>1, <5>2, ChainBasics
      <4> QED BY <4>1
    <3>2. ASSUME NEW c \in g.blocks, Chain[c] \cap others = {} PROVE o \in Chain[c]
      <4>1. c \in Blocks /\ o \in Blocks /\ Num[o] \in Nat /\ 1 <= Num[o] /\ Num[o] <= Num[c]
        BY <1>1, <1>2, Tree1, ChainBasics
      <4>2. PICK a \in Chain[c] : Num[a] = Num[o]
        BY <4>1, ChainAt
      <4>3. a \in g.blocks
        BY <1>1, <1>2, <4>1, <4>2, ChainBasics DEF Rooted
      <4> QED BY <3>2, <4>2, <4>3
    <3> QED BY <3>1, <3>2
  <2>4. \A b, c \in g.blocks \cap T : \A a \in Chain[b] \cap g.blocks : a \in T \/ a \in Chain[c]
    <3> HIDE DEF o, T
    <3>1. SUFFICES ASSUME NEW b \in T, NEW c \in T, NEW a \in Chain[b] \cap g.blocks, a \notin T
                   PROVE  a \in Chain[c]
      OBVIOUS
    <3>2. b \in Blocks /\ c \in Blocks /\ a \in Blocks /\ o \in Blocks /\ o \in Chain[b] /\ o \in Chain[c]
      BY <1>1, <1>2, <2>3
    <3>3. Num[a] <= Num[o]
      BY <2>3, <3>1, <3>2, ChainLinear, Tree1
    <3>4. a \in Chain[o]
      BY <3>1, <3>2, <3>3, ChainLinear
    <3> QED BY <3>2, <3>4, ChainBasics
  <2>5. T \subseteq g.blocks
    OBVIOUS
  <2>6. /\ WellFormed(f) /\ f.blocks = T /\ f.before = g.before \cap (T \X T)
        /\ f.in_chain = g.in_chain \cap T /\ f.validated = g.validated \cap T
        /\ f.trxs = g.trxs \cap T /\ f.head = g.head
    <3> HIDE DEF T
    <3>1. g.blocks \cap T = T
      BY <2>5
    <3>2. /\ WellFormed(restrict(g, T)) /\ restrict(g, T).blocks = g.blocks \cap T
          /\ restrict(g, T).before = g.before \cap (T \X T)
          /\ restrict(g, T).in_chain = g.in_chain \cap T
          /\ restrict(g, T).validated = g.validated \cap T
          /\ restrict(g, T).trxs = g.trxs \cap T /\ restrict(g, T).head = g.head
      BY <2>4, Restricted
    <3> QED BY <3>1, <3>2
  <2>7. CASE others = {}
    <3>1. pruned(g) = f
      BY <2>2, <2>7
    <3>2. \A c \in g.blocks \ {o} : c \in T
      BY <2>7
    <3>3. g.head \in g.blocks /\ g.head # o
      <4> HIDE DEF o, T, others, f
      <4>1. g.head \in g.blocks /\ g.head \in Blocks
        BY <1>1 DEF IsBest
      <4>3. Lib[g.head] < Num[g.head]
        <5>1. CASE g.head = Genesis
          BY <5>1, Tree1
        <5> QED BY <4>1, <5>1, Tree1
      <4> QED BY <2>1, <4>1, <4>3, Tree1
    <3> HIDE DEF T, f, others
    <3>4. g.head \in T
      BY <3>2, <3>3
    <3>5. IsBest(f, g.head)
      BY <2>5, <2>6, <3>4, IsBestRestricted
    <3> QED BY <2>1, <2>3, <2>5, <2>6, <3>1, <3>4, <3>5
  <2>8. CASE others # {}
    <3>1. pruned(g) = [f EXCEPT !.head = best(f)]
      BY <2>2, <2>8
    <3> HIDE DEF T, f, others
    <3>2. /\ best(f) \in Blocks \cup {NoBlock}
          /\ f.blocks # {} => IsBest(f, best(f))
          /\ f.blocks = {} => best(f) = NoBlock
      BY <2>6, BestHead
    <3>3. /\ WellFormed(pruned(g)) /\ pruned(g).blocks = T /\ pruned(g).before = f.before
          /\ pruned(g).in_chain = f.in_chain /\ pruned(g).validated = f.validated
          /\ pruned(g).trxs = f.trxs /\ pruned(g).head = best(f)
          /\ \A k : IsBest(f, k) => IsBest(pruned(g), k)
      BY <2>6, <3>1, <3>2, WithHead
    <3> QED BY <2>1, <2>3, <2>5, <2>6, <3>2, <3>3
  <2> QED BY <2>7, <2>8
<1> QED
  BY <1>3, <1>4

(* on_irreversible: what is appended to the log is on the chain of w and   *)
(* next to what was there.                                                 *)
LEMMA Committed ==
  ASSUME NEW w \in Blocks, log \in Chain[w], NEW o \in Chain[w], Num[o] <= Num[log] + 1,
         NEW S, S \in {{}, {o}}
  PROVE  /\ links_log(S) /\ log_after(S) \in Chain[w] /\ log_after(S) \in {log, o}
         /\ Chain[log] \subseteq Chain[log_after(S)] /\ log \in Chain[log_after(S)]
         /\ Num[log] <= Num[log_after(S)]
         /\ S # {} => o \in Chain[log_after(S)]
         /\ reversible = Chain[w] \ Chain[log] => reversible_after(S) = Chain[w] \ Chain[log_after(S)]
         /\ db.floor \in Nat /\ db.floor <= Num[log] /\ db.tip \in Blocks =>
              /\ floor_after(S) \in Nat /\ floor_after(S) <= Num[log_after(S)]
              /\ db.floor <= Num[db.tip] => floor_after(S) <= Num[db.tip]
<1>1. /\ log \in Blocks /\ o \in Blocks /\ Num[log] \in Nat /\ Num[o] \in Nat
  BY Tree1, ChainBasics
<1>2. CASE S = {}
  <2>1. fresh(S) = {}
    BY <1>2 DEF fresh
  <2>2. log_after(S) = log /\ reversible_after(S) = reversible /\ floor_after(S) = db.floor /\ links_log(S)
    BY <1>2, <2>1 DEF log_after, reversible_after, floor_after, links_log
  <2> QED BY <1>1, <1>2, <2>2, ChainBasics
<1>3. CASE S = {o}
  <2>1. floor_after(S) = Max(db.floor, Min(Num[o], Num[db.tip]))
    BY <1>3 DEF floor_after
  <2>2. CASE Num[o] > Num[log]
    <3>1. fresh(S) = {o}
      BY <1>3, <2>2 DEF fresh
    <3>2. log_after(S) = o
      BY <3>1 DEF log_after
    <3>3. log \in Chain[o] /\ Chain[log] \subseteq Chain[o] /\ o # log
      BY <1>1, <2>2, ChainLinear, ChainBasics
    <3>4. o # Genesis /\ Num[o] = Num[log] + 1
      BY <1>1, <2>2, <3>3, Tree1
    <3>5. Parent[o] = log
      <4>1. Parent[o] \in Blocks /\ log \in Chain[Parent[o]] /\ Num[Parent[o]] = Num[log]
        BY <1>1, <3>3, <3>4, Tree1
      <4> QED BY <4>1, ChainBasics
    <3>6. links_log(S)
      BY <1>3, <3>5 DEF links_log
    <3>7. reversible = Chain[w] \ Chain[log] => reversible_after(S) = Chain[w] \ Chain[o]
      <4>1. reversible_after(S) = {r \in reversible : Num[r] > Num[o]}
        BY <3>1 DEF reversible_after
      <4>2. \A r \in Chain[w] : r \in Blocks /\ Num[r] \in Nat /\ (r \in Chain[o] <=> Num[r] <= Num[o])
        BY <1>1, ChainLinear, ChainBasics, Tree1
      <4>3. \A r \in Chain[w] : Num[r] > Num[o] => r \notin Chain[log]
        BY <1>1, <2>2, <4>2, ChainBasics
      <4> QED BY <1>1, <4>1, <4>2, <4>3
    <3>8. db.floor \in Nat /\ db.floor <= Num[log] /\ db.tip \in Blocks =>
              /\ floor_after(S) \in Nat /\ floor_after(S) <= Num[o]
              /\ db.floor <= Num[db.tip] => floor_after(S) <= Num[db.tip]
      BY <1>1, <2>1, <2>2, Tree1 DEF Max, Min
    <3> QED BY <1>1, <2>2, <3>2, <3>3, <3>6, <3>7, <3>8, ChainBasics
  <2>3. CASE ~(Num[o] > Num[log])
    <3>1. fresh(S) = {}
      BY <1>3, <2>3 DEF fresh
    <3>2. log_after(S) = log /\ reversible_after(S) = reversible /\ links_log(S)
      BY <1>3, <2>3, <3>1 DEF log_after, reversible_after, links_log
    <3>3. o \in Chain[log] /\ log \in Chain[log]
      BY <1>1, <2>3, ChainLinear, ChainBasics
    <3>4. db.floor \in Nat /\ db.floor <= Num[log] /\ db.tip \in Blocks =>
              /\ floor_after(S) \in Nat /\ floor_after(S) <= Num[log]
              /\ db.floor <= Num[db.tip] => floor_after(S) <= Num[db.tip]
      BY <1>1, <2>1, <2>3, Tree1 DEF Max, Min
    <3> QED BY <1>1, <3>2, <3>3, <3>4
  <2> QED BY <2>2, <2>3
<1> QED
  BY <1>2, <1>3

(* The oldest known block is at most next to the log. *)
LEMMA LowEnough ==
  ASSUME NEW f, f.blocks \subseteq Blocks, NEW w \in Blocks, NEW h \in Chain[w], NEW l \in Chain[w],
         h \in f.blocks, Chain[h] \ Chain[l] \subseteq f.blocks,
         NEW o \in f.blocks, \A c \in f.blocks : Num[o] <= Num[c]
  PROVE  Num[o] <= Num[l] + 1
<1>1. o \in Blocks /\ l \in Blocks /\ h \in Blocks /\ Num[o] \in Nat /\ Num[l] \in Nat /\ Num[h] \in Nat
  BY Tree1, ChainBasics
<1>2. CASE Num[h] <= Num[l]
  BY <1>1, <1>2
<1>3. CASE Num[l] < Num[h]
  <2>1. l \in Chain[h] /\ l # h
    BY <1>1, <1>3, ChainLinear
  <2>2. PICK c \in Chain[h] : Num[c] = Num[l] + 1
    BY <1>1, <2>1, ChildAbove
  <2>3. c \notin Chain[l]
    BY <1>1, <2>2, ChainBasics
  <2> QED BY <2>2, <2>3
<1> QED
  BY <1>1, <1>2, <1>3

-------------------------------------------------------------------------------
(* The inductive invariant. *)

(* The fork database's head is a best block. *)
Known ==
  /\ WellFormed(fdb) /\ fdb.head \in fdb.blocks
  /\ \A b \in fdb.blocks : ~better(b, fdb.head)

(* The head is known, and so is every block above the log; the state is    *)
(* the head's and can be undone down to the log.                           *)
Placed ==
  /\ head \in fdb.blocks /\ Marked(fdb, head)
  /\ Chain[head] \ Chain[log] \subseteq fdb.blocks
  /\ Chain[head] \cap bad = {}
  /\ db.tip = head /\ db.floor <= Num[log]

Stored == mode # "replay" => log \in Chain[head] /\ reversible = Chain[head] \ Chain[log]

IdleInv == job.phase = "idle" => job = Idle /\ \A b \in fdb.blocks : ~better(b, head)

(* No known block but the new head is better than the old one. *)
BusyInv ==
  job.phase # "idle" =>
    /\ mode = "up" /\ pending = Closed
    /\ job.new \in Blocks /\ job.old \in fdb.blocks
    /\ \A b \in fdb.blocks : b = job.new \/ ~better(b, job.old)
    /\ ~better(job.old, job.new)
    /\ Chain[job.old] \cap bad = {}
    /\ log \in Chain[job.new] /\ log \in Chain[job.old]
    /\ job.phase # "unpop" => fdb.head = job.new

ExtendInv == job.phase = "extend" => job.old = head /\ Parent[job.new] = head /\ job.new # Genesis

(* The head is on one of the branches, at or above the fork point. *)
SwitchInv ==
  job.phase \in {"pop", "push", "unpop"} =>
    /\ job.first = Chain[job.new] \ Chain[job.old]
    /\ job.second = Chain[job.old] \ Chain[job.new]
    /\ job.new \notin Chain[job.old] /\ job.old \notin Chain[job.new]
    /\ job.second \subseteq fdb.blocks
    /\ Chain[job.new] \cap Chain[job.old] \subseteq Chain[head]
    /\ job.phase # "unpop" => job.first \subseteq fdb.blocks
    /\ job.phase # "pop" => \E k \in fdb.blocks : Chain[k] = Chain[job.new] \cap Chain[job.old]
    /\ job.phase = "pop" => head \in Chain[job.old]
    /\ job.phase = "push" => head \in job.first /\ head # job.new
    /\ job.phase = "unpop" =>
         /\ job.new \notin fdb.blocks /\ Chain[job.new] \cap bad # {}
         /\ head # job.old /\ head \in Chain[job.new] \cup Chain[job.old]

DownInv ==
  mode = "down" => /\ job = Idle /\ pending = Closed /\ was = head
                   /\ left.restarts < MaxRestarts

(* A replay goes up the chain of the head that the process ended with. *)
ReplayInv ==
  mode = "replay" =>
    /\ job = Idle /\ pending = Closed /\ unapplied = {}
    /\ fdb.blocks \subseteq Chain[head] /\ fdb.head = head
    /\ db.floor <= Num[head]
    /\ head \in Chain[was] /\ log \in Chain[was] /\ reversible = Chain[was] \ Chain[log]
    /\ Chain[was] \cap bad = {}
    /\ Num[log] = 1 => head = Genesis

(* Of equally ranked blocks, k is the first. *)
First(f, k) == \A c \in f.blocks : c # k /\ Same(c, k) => <<k, c>> \in f.before

(* Before a start has shuffled the index, the fork database's head is the  *)
(* head.                                                                   *)
Unshuffled ==
  left.restarts = MaxRestarts \/ (mode = "down" /\ left.restarts = MaxRestarts - 1)

OrderInv ==
  Unshuffled =>
    /\ job.phase = "idle" => First(fdb, head) /\ fdb.head = head
    /\ job.phase # "idle" => First(fdb, job.old) /\ better(job.new, job.old)
    /\ job.phase = "unpop" => fdb.head = job.old

(* A transaction is applied once, and not waiting then. *)
ClearInv ==
  /\ unapplied \cap (ChainTxs(head) \cup pending.trxs) = {}
  /\ pending.trxs \cap ChainTxs(head) = {}
  /\ pending.open \/ pending = Closed

Inv ==
  /\ Known /\ Placed /\ Stored /\ IdleInv /\ BusyInv /\ ExtendInv /\ SwitchInv
  /\ DownInv /\ ReplayInv /\ OrderInv /\ ClearInv

IInv == TypeOK /\ (fault = "none" => Inv) /\ OnlyKnownFaults

-------------------------------------------------------------------------------
(* Steps that the actions share. *)

LEMMA Types ==
  ASSUME TypeOK
  PROVE  /\ fdb \in ForkDbs /\ fdb.blocks \subseteq Blocks /\ fdb.trxs \subseteq Own
         /\ fdb.in_chain \subseteq fdb.blocks /\ fdb.validated \subseteq fdb.blocks
         /\ fdb.trxs \subseteq fdb.blocks
         /\ head \in Blocks /\ log \in Blocks /\ was \in Blocks
         /\ db.tip \in Blocks /\ db.floor \in Nat
         /\ Num[head] \in Nat /\ Num[log] \in Nat
BY Tree1 DEF TypeOK, ForkDbs, Own

LEMMA SameIndex ==
  ASSUME NEW f, WellFormed(f), NEW g, g \in ForkDbs, g.blocks = f.blocks, g.before = f.before
  PROVE  WellFormed(g)
BY DEF WellFormed, Ordered, Rooted

LEMMA MarkedIn ==
  ASSUME NEW f \in ForkDbs, NEW b \in Blocks,
         NEW g, g = accepted(f, b) \/ g = mark_in_current_chain(f, b, TRUE)
  PROVE  /\ g.blocks = f.blocks /\ g.before = f.before /\ g.head = f.head
         /\ g.trxs = f.trxs /\ g.in_chain = f.in_chain \cup {b}
         /\ g.validated \subseteq f.validated \cup {b} /\ g \in ForkDbs
<1>1. PICK m : m = mark_in_current_chain(f, b, TRUE)
  OBVIOUS
<1>2. m = [f EXCEPT !.in_chain = f.in_chain \cup {b}]
  BY <1>1 DEF mark_in_current_chain
<1>3. /\ m.blocks = f.blocks /\ m.before = f.before /\ m.head = f.head
      /\ m.trxs = f.trxs /\ m.in_chain = f.in_chain \cup {b}
      /\ m.validated = f.validated /\ m \in ForkDbs
  BY <1>2 DEF ForkDbs
<1>4. accepted(f, b) = [m EXCEPT !.validated = m.validated \cup {b}]
  BY <1>1 DEF accepted
<1>5. CASE g = m
  BY <1>3, <1>5
<1>6. CASE g = accepted(f, b)
  BY <1>3, <1>4, <1>6 DEF ForkDbs
<1> QED
  BY <1>1, <1>5, <1>6

(* A child of the head is applied. *)
LEMMA Advance ==
  ASSUME TypeOK, Known, Placed, NEW b \in fdb.blocks, b # Genesis, Parent[b] = head, b \notin bad,
         log \in Chain[head], reversible = Chain[head] \ Chain[log],
         apply_block(b, {b}), fdb' = accepted(fdb, b) \/ fdb' = mark_in_current_chain(fdb, b, TRUE),
         UNCHANGED <<log, bad>>
  PROVE  /\ unique_num(b)
         /\ Known' /\ Placed'
         /\ log' \in Chain[head'] /\ reversible' = Chain[head'] \ Chain[log']
         /\ fdb'.blocks = fdb.blocks /\ fdb'.before = fdb.before /\ fdb'.head = fdb.head
         /\ fdb'.trxs = fdb.trxs /\ fdb'.in_chain = fdb.in_chain \cup {b}
         /\ fdb'.validated \subseteq fdb.validated \cup {b} /\ fdb' \in ForkDbs
         /\ head' = b /\ db' \in [tip : Blocks, floor : Nat] /\ reversible' \subseteq Blocks
         /\ unapplied' = unapplied \ TxsOf[b]
<1>1. /\ fdb \in ForkDbs /\ fdb.blocks \subseteq Blocks /\ head \in Blocks /\ log \in Blocks
      /\ b \in Blocks /\ db.floor \in Nat /\ Num[log] \in Nat /\ Num[head] \in Nat
  BY Types
<1>2. /\ Chain[b] = Chain[head] \cup {b} /\ Num[b] = Num[head] + 1 /\ b \notin Chain[head]
      /\ \A c \in Chain[head] : c \in Blocks /\ Num[c] <= Num[head] /\ Num[c] \in Nat
  BY <1>1, Tree1, ChainBasics
<1>3. b \notin Chain[log] /\ Chain[log] \subseteq Chain[head]
  BY <1>1, <1>2, ChainBasics
<1>4. unique_num(b)
  BY <1>1, <1>2 DEF unique_num
<1>5. /\ fdb'.blocks = fdb.blocks /\ fdb'.before = fdb.before /\ fdb'.head = fdb.head
      /\ fdb'.trxs = fdb.trxs /\ fdb'.in_chain = fdb.in_chain \cup {b}
      /\ fdb'.validated \subseteq fdb.validated \cup {b} /\ fdb' \in ForkDbs
  <2>1. PICK f, g : f = fdb /\ g = fdb'
    OBVIOUS
  <2>2. g = accepted(f, b) \/ g = mark_in_current_chain(f, b, TRUE)
    BY <2>1
  <2> QED BY <1>1, <2>1, <2>2, MarkedIn
<1>6. /\ head' = b /\ db'.tip = b /\ db'.floor = db.floor /\ db' \in [tip : Blocks, floor : Nat]
      /\ reversible' = reversible \cup {b} /\ unapplied' = unapplied \ TxsOf[b]
      /\ log' = log /\ bad' = bad
  BY <1>1 DEF apply_block, TypeOK
<1>7. Known'
  <2>1. WellFormed(fdb')
    BY <1>5, SameIndex DEF Known
  <2> QED BY <1>5, <2>1 DEF Known
<1>8. Marked(fdb', head')
  BY <1>2, <1>5, <1>6 DEF Placed, Marked
<1>9. Placed'
  BY <1>2, <1>3, <1>5, <1>6, <1>8 DEF Placed
<1> QED
  BY <1>1, <1>2, <1>3, <1>4, <1>5, <1>6, <1>7, <1>9, ChainBasics

(* The head is popped. *)
LEMMA Retreat ==
  ASSUME TypeOK, Known, Placed, log # head, may_pop,
         log \in Chain[head], reversible = Chain[head] \ Chain[log],
         pop_block, fdb' = mark_in_current_chain(fdb, head, FALSE),
         UNCHANGED <<log, bad>>
  PROVE  /\ head # Genesis /\ Parent[head] \in Blocks /\ head \notin Chain[Parent[head]]
         /\ Chain[head] = Chain[Parent[head]] \cup {head}
         /\ Known' /\ Placed'
         /\ log' \in Chain[head'] /\ reversible' = Chain[head'] \ Chain[log']
         /\ fdb'.blocks = fdb.blocks /\ fdb'.before = fdb.before /\ fdb'.head = fdb.head
         /\ fdb'.trxs = fdb.trxs /\ fdb'.in_chain \subseteq fdb.in_chain
         /\ fdb'.validated = fdb.validated /\ fdb' \in ForkDbs
         /\ head' = Parent[head] /\ db' \in [tip : Blocks, floor : Nat] /\ reversible' \subseteq Blocks
         /\ unapplied' \subseteq unapplied \cup TxsOf[head]
<1>1. /\ fdb \in ForkDbs /\ fdb.blocks \subseteq Blocks /\ head \in Blocks /\ log \in Blocks
      /\ db.floor \in Nat /\ Num[log] \in Nat /\ Num[head] \in Nat
  BY Types
<1>2. head # Genesis
  BY <1>1, Tree1
<1>3. /\ Parent[head] \in Blocks /\ Chain[head] = Chain[Parent[head]] \cup {head}
      /\ Num[head] = Num[Parent[head]] + 1 /\ head \notin Chain[Parent[head]]
      /\ \A c \in Chain[Parent[head]] : c \in Blocks /\ Num[c] <= Num[Parent[head]] /\ Num[c] \in Nat
  BY <1>1, <1>2, Tree1, ChainBasics
<1>4. log \in Chain[Parent[head]] /\ Num[log] < Num[head] /\ head \notin Chain[log]
  BY <1>1, <1>3, ChainBasics
<1>5. /\ fdb'.blocks = fdb.blocks /\ fdb'.before = fdb.before /\ fdb'.head = fdb.head
      /\ fdb'.trxs = fdb.trxs /\ fdb'.in_chain = fdb.in_chain \ {head}
      /\ fdb'.validated = fdb.validated /\ fdb' \in ForkDbs
  BY <1>1 DEF mark_in_current_chain, ForkDbs
<1>6. /\ head' = Parent[head] /\ db'.tip = Parent[head] /\ db'.floor = db.floor
      /\ db' \in [tip : Blocks, floor : Nat]
  <2>1. db.tip = head /\ Num[db.tip] > db.floor /\ db \in [tip : Blocks, floor : Nat]
    BY <1>1, <1>4 DEF Placed, TypeOK
  <2>2. head' = Parent[head] /\ db' = [db EXCEPT !.tip = Parent[db.tip]]
    BY <2>1 DEF pop_block
  <2> QED BY <1>3, <2>1, <2>2
<1>7. reversible' = Chain[Parent[head]] \ Chain[log]
  <2>1. reversible' = {r \in Chain[head] \ Chain[log] : Num[r] # Num[head]}
    BY DEF pop_block
  <2>2. \A c \in Chain[Parent[head]] : Num[c] # Num[head]
    BY <1>3, Tree1
  <2> QED BY <1>3, <2>1, <2>2
<1>8. unapplied' \subseteq unapplied \cup TxsOf[head]
  BY DEF pop_block
<1>9. Known'
  <2>1. WellFormed(fdb')
    BY <1>5, SameIndex DEF Known
  <2> QED BY <1>5, <2>1 DEF Known
<1>10. Marked(fdb', head')
  BY <1>3, <1>5, <1>6 DEF Placed, Marked
<1>11. Placed'
  BY <1>3, <1>5, <1>6, <1>10 DEF Placed, may_pop
<1> QED
  BY <1>1, <1>2, <1>3, <1>4, <1>5, <1>6, <1>7, <1>8, <1>9, <1>11, ChainBasics

LEMMA ForkDbType ==
  ASSUME NEW f \in ForkDbs, f.trxs \subseteq Own
  PROVE  f \in [blocks : SUBSET Blocks, before : SUBSET (Blocks \X Blocks),
                head : Blocks \cup {NoBlock}, in_chain : SUBSET Blocks,
                validated : SUBSET Blocks, trxs : SUBSET Own]
BY DEF ForkDbs

LEMMA TxsAbove ==
  ASSUME NEW b \in Blocks \ {Genesis}
  PROVE  /\ ChainTxs(b) = ChainTxs(Parent[b]) \cup TxsOf[b]
         /\ TxsOf[b] \cap ChainTxs(Parent[b]) = {} /\ TxsOf[b] \subseteq Txs
<1>1. Chain[b] = Chain[Parent[b]] \cup {b}
  BY Tree1
<1>2. TxsOf[b] \cap UNION {TxsOf[c] : c \in Chain[Parent[b]]} = {}
  BY ControllerAssumption
<1>3. UNION {TxsOf[c] : c \in Chain[Parent[b]] \cup {b}}
        = (UNION {TxsOf[c] : c \in Chain[Parent[b]]}) \cup TxsOf[b]
  OBVIOUS
<1> QED
  BY <1>1, <1>2, <1>3 DEF ChainTxs, Txs

LEMMA ClearAdvance ==
  ASSUME ClearInv, NEW b \in Blocks \ {Genesis}, Parent[b] = head, head' = b,
         unapplied' = unapplied \ TxsOf[b], pending' = Closed
  PROVE  ClearInv'
<1>1. ChainTxs(b) = ChainTxs(head) \cup TxsOf[b]
  BY TxsAbove
<1>2. pending'.trxs = {}
  BY DEF Closed
<1>3. ChainTxs(head)' = ChainTxs(b)
  BY DEF ChainTxs
<1> QED
  BY <1>1, <1>2, <1>3 DEF ClearInv

LEMMA ClearRetreat ==
  ASSUME ClearInv, head \in Blocks \ {Genesis}, head' = Parent[head],
         unapplied' \subseteq unapplied \cup TxsOf[head], pending' = Closed
  PROVE  ClearInv'
<1>1. /\ ChainTxs(head) = ChainTxs(Parent[head]) \cup TxsOf[head]
      /\ TxsOf[head] \cap ChainTxs(Parent[head]) = {}
  BY TxsAbove
<1>2. pending'.trxs = {}
  BY DEF Closed
<1>3. ChainTxs(head)' = ChainTxs(Parent[head])
  BY DEF ChainTxs
<1> QED
  BY <1>1, <1>2, <1>3 DEF ClearInv

LEMMA ClearFail ==
  ASSUME TypeOK, ClearInv, NEW b \in Blocks \ {Genesis}, Parent[b] = head, apply_block_fails(b),
         pending' = Closed
  PROVE  ClearInv' /\ unapplied' \subseteq Txs
<1>1. TxsOf[b] \cap ChainTxs(head) = {} /\ TxsOf[b] \subseteq Txs
  BY TxsAbove
<1>2. pending'.trxs = {}
  BY DEF Closed
<1>3. unapplied' \subseteq unapplied \cup TxsOf[b] /\ head' = head
  BY DEF apply_block_fails
<1>4. ChainTxs(head)' = ChainTxs(head)
  BY <1>3 DEF ChainTxs
<1> QED
  BY <1>1, <1>2, <1>3, <1>4 DEF ClearInv, TypeOK

(* No switch is under way after the step. *)
LEMMA IdleAgain ==
  ASSUME mode' = "up", job' = Idle, Known', Placed',
         log' \in Chain[head'] /\ reversible' = Chain[head'] \ Chain[log'],
         \A b \in fdb'.blocks : ~better(b, head'),
         Unshuffled' => First(fdb', head') /\ fdb'.head = head',
         ClearInv'
  PROVE  Inv'
<1>1. job'.phase = "idle"
  BY DEF Idle
<1>2. Stored' /\ IdleInv' /\ BusyInv' /\ ExtendInv' /\ SwitchInv' /\ DownInv' /\ ReplayInv'
  BY <1>1 DEF Stored, IdleInv, BusyInv, ExtendInv, SwitchInv, DownInv, ReplayInv
<1>3. OrderInv'
  BY <1>1 DEF OrderInv
<1> QED
  BY <1>2, <1>3 DEF Inv

(* A block that is removed takes neither the head nor the chain of the     *)
(* head with it.                                                           *)
LEMMA Dropped ==
  ASSUME TypeOK, Known, Placed, NEW b \in Blocks, b \notin Chain[head],
         fdb' = remove(fdb, b), UNCHANGED <<db, head, log, bad>>
  PROVE  /\ Known' /\ Placed' /\ fdb' \in ForkDbs
         /\ fdb'.blocks = {c \in fdb.blocks : b \notin Chain[c]}
         /\ fdb'.before = fdb.before \cap (fdb'.blocks \X fdb'.blocks)
         /\ fdb'.in_chain \subseteq fdb'.blocks /\ fdb'.validated \subseteq fdb'.blocks
         /\ fdb'.trxs \subseteq fdb'.blocks /\ fdb'.trxs \subseteq fdb.trxs
         /\ IsBest(fdb', fdb'.head) /\ fdb'.head # NoBlock
         /\ \A k \in fdb'.blocks : First(fdb, k) => First(fdb', k)
<1>1. fdb.blocks \subseteq Blocks /\ head \in Blocks /\ WellFormed(fdb)
  BY Types DEF Known
<1>2. PICK f, g : f = fdb /\ g = fdb'
  OBVIOUS
<1>3. /\ WellFormed(g) /\ g.blocks = {c \in f.blocks : b \notin Chain[c]}
      /\ g.before = f.before \cap (g.blocks \X g.blocks)
      /\ g.in_chain = f.in_chain \cap g.blocks /\ g.validated = f.validated \cap g.blocks
      /\ g.trxs = f.trxs \cap g.blocks
      /\ g.blocks # {} => IsBest(g, g.head)
  <2>1. g = remove(f, b) /\ WellFormed(f)
    BY <1>1, <1>2
  <2>2. /\ WellFormed(remove(f, b))
        /\ remove(f, b).blocks = {c \in f.blocks : b \notin Chain[c]}
        /\ remove(f, b).before = f.before \cap (remove(f, b).blocks \X remove(f, b).blocks)
        /\ remove(f, b).in_chain = f.in_chain \cap remove(f, b).blocks
        /\ remove(f, b).validated = f.validated \cap remove(f, b).blocks
        /\ remove(f, b).trxs = f.trxs \cap remove(f, b).blocks
        /\ remove(f, b).blocks # {} => IsBest(remove(f, b), remove(f, b).head)
    BY <2>1, Removed
  <2> QED BY <2>1, <2>2
<1>4. head \in g.blocks
  BY <1>2, <1>3 DEF Placed
<1>5. IsBest(g, g.head)
  BY <1>3, <1>4
<1>6. g.head \in g.blocks /\ (\A c \in g.blocks : ~better(c, g.head)) /\ g.head # NoBlock
  BY <1>1, <1>2, <1>3, <1>5, Tree1 DEF IsBest
<1>7. Known'
  BY <1>2, <1>3, <1>6 DEF Known
<1>8. Marked(g, head)
  BY <1>2, <1>3 DEF Placed, Marked
<1>9. Chain[head] \ Chain[log] \subseteq g.blocks
  <2>1. \A c \in Chain[head] : b \notin Chain[c]
    BY <1>1, ChainBasics
  <2> QED BY <1>2, <1>3, <2>1 DEF Placed
<1>10. Placed'
  BY <1>2, <1>4, <1>8, <1>9 DEF Placed
<1>11. \A k \in g.blocks : First(f, k) => First(g, k)
  BY <1>3 DEF First
<1> QED
  BY <1>2, <1>3, <1>5, <1>6, <1>7, <1>10, <1>11 DEF WellFormed

LEMMA ExtendStep ==
  ASSUME TypeOK, Inv, extend
  PROVE  TypeOK' /\ Inv' /\ fault' = "none"
<1>1. /\ job.phase = "extend" /\ mode = "up" /\ job' = Idle
      /\ UNCHANGED <<log, pending, mode, bad, made, was, left>>
  BY DEF extend, Busy, world
<1>2. /\ Known /\ Placed /\ log \in Chain[head] /\ reversible = Chain[head] \ Chain[log]
      /\ ClearInv /\ pending = Closed
  BY <1>1 DEF Inv, Stored, BusyInv
<1>3. /\ job.old = head /\ Parent[job.new] = head /\ job.new # Genesis /\ job.new \in Blocks
      /\ fdb.head = job.new /\ \A c \in fdb.blocks : c = job.new \/ ~better(c, head)
      /\ job.new \in fdb.blocks
  BY <1>1, <1>2 DEF Inv, BusyInv, ExtendInv, Known
<1>4. Unshuffled' => First(fdb, head) /\ better(job.new, head)
  BY <1>1, <1>3 DEF Inv, OrderInv, Unshuffled
<1>5. applies(job.new) <=> job.new \notin bad
  BY <1>2 DEF applies, Placed
<1>6. job' \in [phase : {"idle", "extend", "pop", "push", "unpop"},
                new : Blocks \cup {NoBlock}, old : Blocks \cup {NoBlock},
                first : SUBSET Blocks, second : SUBSET Blocks]
  BY <1>1 DEF Idle
<1>7. fdb.blocks \subseteq Blocks /\ fdb.trxs \subseteq Own /\ head \in Blocks
  BY Types
<1>8. CASE applies(job.new)
  <2>1. /\ apply_block(job.new, {job.new}) /\ fdb' = accepted(fdb, job.new)
        /\ fault' = IF unique_num(job.new) THEN "none" ELSE "reversible"
    BY <1>8 DEF extend
  <2>2. /\ unique_num(job.new) /\ Known' /\ Placed'
        /\ log' \in Chain[head'] /\ reversible' = Chain[head'] \ Chain[log']
        /\ fdb'.blocks = fdb.blocks /\ fdb'.before = fdb.before /\ fdb'.head = fdb.head
        /\ fdb'.trxs = fdb.trxs /\ fdb'.in_chain = fdb.in_chain \cup {job.new}
        /\ fdb'.validated \subseteq fdb.validated \cup {job.new} /\ fdb' \in ForkDbs
        /\ head' = job.new /\ db' \in [tip : Blocks, floor : Nat] /\ reversible' \subseteq Blocks
        /\ unapplied' = unapplied \ TxsOf[job.new]
    BY <1>1, <1>2, <1>3, <1>5, <1>8, <2>1, Advance
  <2>3. TypeOK'
    <3>1. fdb' \in [blocks : SUBSET Blocks, before : SUBSET (Blocks \X Blocks),
                    head : Blocks \cup {NoBlock}, in_chain : SUBSET Blocks,
                    validated : SUBSET Blocks, trxs : SUBSET Own]
      BY <1>7, <2>2, ForkDbType
    <3> QED BY <1>1, <1>3, <1>6, <2>2, <3>1 DEF TypeOK
  <2>4. ClearInv'
    BY <1>1, <1>2, <1>3, <2>2, ClearAdvance
  <2>5. \A c \in fdb'.blocks : ~better(c, head')
    BY <1>2, <1>3, <2>2 DEF Known
  <2>6. Unshuffled' => First(fdb', head') /\ fdb'.head = head'
    <3>1. SUFFICES ASSUME Unshuffled', NEW c \in fdb'.blocks, c # head', Same(c, head') PROVE FALSE
      BY <1>3, <2>2 DEF First
    <3>2. better(job.new, head) /\ ~better(c, head) /\ Same(c, job.new)
      BY <1>3, <1>4, <2>2, <3>1
    <3> QED BY <3>2 DEF Same, better
  <2>7. Inv'
    BY <1>1, <2>2, <2>4, <2>5, <2>6, IdleAgain
  <2> QED BY <2>1, <2>2, <2>3, <2>7
<1>9. CASE ~applies(job.new)
  <2>1. /\ apply_block_fails(job.new) /\ fdb' = remove(fdb, job.new)
        /\ fault' = IF fdb'.head = NoBlock THEN "empty" ELSE "none"
    BY <1>9 DEF extend
  <2>2. UNCHANGED <<db, reversible, head>>
    BY <2>1 DEF apply_block_fails
  <2>3. job.new \notin Chain[head]
    BY <1>3, <1>7, Tree1, ChainBasics
  <2>4. /\ Known' /\ Placed' /\ fdb' \in ForkDbs
        /\ fdb'.blocks = {c \in fdb.blocks : job.new \notin Chain[c]}
        /\ fdb'.before = fdb.before \cap (fdb'.blocks \X fdb'.blocks)
        /\ fdb'.in_chain \subseteq fdb'.blocks /\ fdb'.validated \subseteq fdb'.blocks
        /\ fdb'.trxs \subseteq fdb'.blocks /\ fdb'.trxs \subseteq fdb.trxs
        /\ IsBest(fdb', fdb'.head) /\ fdb'.head # NoBlock
        /\ \A k \in fdb'.blocks : First(fdb, k) => First(fdb', k)
    BY <1>1, <1>2, <1>3, <2>1, <2>2, <2>3, Dropped
  <2>5. ClearInv' /\ unapplied' \subseteq Txs
    BY <1>1, <1>2, <1>3, <2>1, ClearFail
  <2>6. TypeOK'
    <3>1. fdb' \in [blocks : SUBSET Blocks, before : SUBSET (Blocks \X Blocks),
                    head : Blocks \cup {NoBlock}, in_chain : SUBSET Blocks,
                    validated : SUBSET Blocks, trxs : SUBSET Own]
      BY <1>7, <2>4, ForkDbType
    <3> QED BY <1>1, <1>6, <2>2, <2>4, <2>5, <3>1 DEF TypeOK
  <2>7. \A c \in fdb'.blocks : ~better(c, head')
    <3>1. job.new \notin fdb'.blocks
      BY <1>3, <2>4, ChainBasics
    <3> QED BY <1>3, <2>2, <2>4, <3>1
  <2>8. Unshuffled' => First(fdb', head') /\ fdb'.head = head'
    <3>1. SUFFICES ASSUME Unshuffled' PROVE First(fdb', head') /\ fdb'.head = head'
      OBVIOUS
    <3>2. head' \in fdb'.blocks /\ First(fdb', head')
      BY <1>4, <2>2, <2>4, <3>1 DEF Placed
    <3>3. IsBest(fdb', head')
      BY <2>7, <3>2 DEF IsBest, First
    <3>4. fdb'.head = head'
      BY <2>4, <3>3, BestUnique DEF Known, WellFormed
    <3> QED BY <3>2, <3>4
  <2>9. Inv'
    BY <1>1, <1>2, <2>2, <2>4, <2>5, <2>7, <2>8, IdleAgain
  <2> QED BY <2>1, <2>4, <2>6, <2>9
<1> QED
  BY <1>8, <1>9

LEMMA BusyKept ==
  ASSUME Inv, job.phase # "idle", job'.phase # "idle", job'.new = job.new, job'.old = job.old,
         job'.phase = "unpop" <=> job.phase = "unpop",
         fdb'.blocks = fdb.blocks, fdb'.before = fdb.before, fdb'.head = fdb.head,
         UNCHANGED <<log, pending, mode, bad, left>>
  PROVE  IdleInv' /\ BusyInv' /\ OrderInv' /\ DownInv' /\ ReplayInv'
<1>1. mode' = "up" /\ mode = "up"
  BY DEF Inv, BusyInv
<1>2. BusyInv'
  BY DEF Inv, BusyInv
<1>3. OrderInv'
  <2>1. Unshuffled' => Unshuffled
    BY DEF Unshuffled
  <2>2. First(fdb, job.old) => First(fdb', job.old)
    BY DEF First
  <2> QED BY <2>1, <2>2 DEF Inv, OrderInv
<1> QED
  BY <1>1, <1>2, <1>3 DEF IdleInv, DownInv, ReplayInv

LEMMA SwitchPopStep ==
  ASSUME TypeOK, Inv, switch_pop
  PROVE  TypeOK' /\ ((Inv' /\ fault' = fault) \/ fault' = "pop")
<1>1. /\ job.phase = "pop" /\ mode = "up" /\ head \in job.second
      /\ fdb' = mark_in_current_chain(fdb, head, FALSE)
      /\ UNCHANGED <<log, pending, mode, bad, made, was, left>>
  BY DEF switch_pop, Busy, world
<1>2. /\ Known /\ Placed /\ log \in Chain[head] /\ reversible = Chain[head] \ Chain[log]
      /\ ClearInv /\ pending = Closed
  BY <1>1 DEF Inv, Stored, BusyInv
<1>3. /\ job.new \in Blocks /\ job.old \in Blocks /\ log \in Chain[job.new]
      /\ job.second = Chain[job.old] \ Chain[job.new] /\ head \in Chain[job.old]
      /\ Chain[job.new] \cap Chain[job.old] \subseteq Chain[head]
      /\ fdb.blocks \subseteq Blocks /\ fdb.trxs \subseteq Own /\ head \in Blocks /\ head # log
  BY <1>1, <1>2, Types DEF Inv, BusyInv, SwitchInv
<1>4. CASE ~may_pop
  <2>1. fault' = "pop" /\ job' = Idle /\ UNCHANGED <<head, db, reversible, unapplied>>
    BY <1>4 DEF switch_pop
  <2>2. fdb' = [fdb EXCEPT !.in_chain = @ \ {head}]
    BY <1>1 DEF mark_in_current_chain
  <2>4. /\ fdb'.blocks = fdb.blocks /\ fdb'.trxs = fdb.trxs /\ fdb'.in_chain \subseteq fdb.in_chain
        /\ fdb'.validated = fdb.validated /\ fdb' \in ForkDbs
    BY <1>3, <2>2, Types DEF ForkDbs
  <2>5. fdb' \in [blocks : SUBSET Blocks, before : SUBSET (Blocks \X Blocks),
                  head : Blocks \cup {NoBlock}, in_chain : SUBSET Blocks,
                  validated : SUBSET Blocks, trxs : SUBSET Own]
    BY <1>3, <2>4, ForkDbType
  <2>6. job' \in [phase : {"idle", "extend", "pop", "push", "unpop"},
                  new : Blocks \cup {NoBlock}, old : Blocks \cup {NoBlock},
                  first : SUBSET Blocks, second : SUBSET Blocks]
    BY <2>1 DEF Idle
  <2>3. TypeOK'
    BY <1>1, <2>1, <2>4, <2>5, <2>6 DEF TypeOK
  <2> QED BY <2>1, <2>3
<1>5. CASE may_pop
  <2>1. pop_block /\ UNCHANGED <<fault, job>>
    BY <1>5 DEF switch_pop
  <2>2. /\ head # Genesis /\ Parent[head] \in Blocks /\ head \notin Chain[Parent[head]]
        /\ Chain[head] = Chain[Parent[head]] \cup {head}
        /\ Known' /\ Placed'
        /\ log' \in Chain[head'] /\ reversible' = Chain[head'] \ Chain[log']
        /\ fdb'.blocks = fdb.blocks /\ fdb'.before = fdb.before /\ fdb'.head = fdb.head
        /\ fdb'.trxs = fdb.trxs /\ fdb'.in_chain \subseteq fdb.in_chain
        /\ fdb'.validated = fdb.validated /\ fdb' \in ForkDbs
        /\ head' = Parent[head] /\ db' \in [tip : Blocks, floor : Nat] /\ reversible' \subseteq Blocks
        /\ unapplied' \subseteq unapplied \cup TxsOf[head]
    BY <1>1, <1>2, <1>3, <1>5, <2>1, Retreat
  <2>3. TypeOK'
    <3>1. fdb' \in [blocks : SUBSET Blocks, before : SUBSET (Blocks \X Blocks),
                    head : Blocks \cup {NoBlock}, in_chain : SUBSET Blocks,
                    validated : SUBSET Blocks, trxs : SUBSET Own]
      BY <1>3, <2>2, ForkDbType
    <3>2. TxsOf[head] \subseteq Txs
      BY <1>3, <2>2, TxsAbove
    <3> QED BY <1>1, <2>1, <2>2, <3>1, <3>2 DEF TypeOK
  <2>4. ClearInv'
    BY <1>1, <1>2, <1>3, <2>2, ClearRetreat
  <2>5. IdleInv' /\ BusyInv' /\ OrderInv' /\ DownInv' /\ ReplayInv'
    BY <1>1, <2>1, <2>2, BusyKept
  <2>6. SwitchInv'
    <3>1. head' \in Chain[job.old] /\ Chain[job.new] \cap Chain[job.old] \subseteq Chain[head']
      BY <1>1, <1>3, <2>2, ChainBasics
    <3>2. job' = job /\ fdb'.blocks = fdb.blocks /\ bad' = bad
      BY <1>1, <2>1, <2>2
    <3> QED BY <1>1, <1>2, <3>1, <3>2 DEF Inv, SwitchInv
  <2>7. ExtendInv' /\ Stored'
    BY <1>1, <2>1, <2>2 DEF ExtendInv, Stored
  <2> QED BY <2>1, <2>2, <2>3, <2>4, <2>5, <2>6, <2>7 DEF Inv
<1> QED
  BY <1>4, <1>5

(* The next block of the new branch. *)
LEMMA NextNew ==
  ASSUME TypeOK, Inv, job.phase \in {"pop", "push"}, job.phase = "pop" => head \notin job.second
  PROVE  /\ NextIn(job.first) \in job.first /\ Parent[NextIn(job.first)] = head
         /\ NextIn(job.first) \in fdb.blocks /\ NextIn(job.first) \in Chain[job.new]
         /\ NextIn(job.first) \notin Chain[job.old] /\ NextIn(job.first) # Genesis
         /\ \E k \in fdb.blocks : /\ Chain[k] = Chain[job.new] \cap Chain[job.old]
                                  /\ NextIn(job.first) \notin Chain[k]
         /\ head \in Chain[job.new] /\ head # job.old
<1>1. /\ job.new \in Blocks /\ job.old \in Blocks /\ head \in Blocks /\ head \in fdb.blocks
      /\ job.first = Chain[job.new] \ Chain[job.old] /\ job.second = Chain[job.old] \ Chain[job.new]
      /\ job.new \notin Chain[job.old] /\ job.old \notin Chain[job.new]
      /\ Chain[job.new] \cap Chain[job.old] \subseteq Chain[head]
      /\ job.first \subseteq fdb.blocks
      /\ job.phase = "pop" => head \in Chain[job.old]
      /\ job.phase = "push" => head \in job.first /\ head # job.new
      /\ job.phase = "push" => \E k \in fdb.blocks : Chain[k] = Chain[job.new] \cap Chain[job.old]
  BY Types DEF Inv, BusyInv, SwitchInv, Placed
<1>2. head \in Chain[job.new] /\ head # job.new /\ head # job.old
  BY <1>1
<1>3. PICK c \in Chain[job.new] \ {Genesis} : Parent[c] = head /\ Num[c] = Num[head] + 1
  BY <1>1, <1>2, ChildAbove
<1>4. c \in Blocks /\ c \notin Chain[head] /\ head \in Chain[c]
  BY <1>1, <1>3, Tree1, ChainBasics
<1>5. c \notin Chain[job.old]
  <2>1. CASE job.phase = "pop"
    BY <1>1, <1>3, <1>4
  <2>2. CASE job.phase = "push"
    BY <1>1, <1>4, <2>2, ChainBasics
  <2> QED BY <2>1, <2>2
<1>6. PICK b : b = NextIn(job.first)
  OBVIOUS
<1>7. b \in job.first /\ Parent[b] = head
  BY <1>1, <1>3, <1>5, <1>6 DEF NextIn
<1>8. b \in Chain[job.new] /\ b \notin Chain[job.old] /\ b # Genesis
  BY <1>1, <1>7, ChainBasics
<1>9. \E k \in fdb.blocks : Chain[k] = Chain[job.new] \cap Chain[job.old]
  <2>1. CASE job.phase = "pop"
    <3>1. head \in Chain[job.old] /\ Chain[head] \subseteq Chain[job.new] /\ Chain[head] \subseteq Chain[job.old]
      BY <1>1, <1>2, <2>1, ChainBasics
    <3>2. Chain[head] = Chain[job.new] \cap Chain[job.old]
      BY <1>1, <3>1
    <3> QED BY <1>1, <3>2
  <2> QED BY <1>1, <2>1
<1> QED
  BY <1>1, <1>2, <1>6, <1>7, <1>8, <1>9

LEMMA SwitchApplyStep ==
  ASSUME TypeOK, Inv, switch_apply
  PROVE  TypeOK' /\ Inv' /\ fault' = "none"
<1> DEFINE b == NextIn(job.first)
<1>1. /\ job.phase \in {"pop", "push"} /\ mode = "up" /\ (job.phase = "pop" => head \notin job.second)
      /\ UNCHANGED <<log, pending, mode, bad, made, was, left>>
  BY DEF switch_apply, Busy, world
<1>2. /\ Known /\ Placed /\ log \in Chain[head] /\ reversible = Chain[head] \ Chain[log]
      /\ ClearInv /\ pending = Closed
  BY <1>1 DEF Inv, Stored, BusyInv
<1>3. /\ b \in job.first /\ Parent[b] = head /\ b \in fdb.blocks /\ b \in Chain[job.new]
      /\ b \notin Chain[job.old] /\ b # Genesis /\ head \in Chain[job.new] /\ head # job.old
      /\ \E k \in fdb.blocks : Chain[k] = Chain[job.new] \cap Chain[job.old] /\ b \notin Chain[k]
  BY <1>1, NextNew
<1>4. applies(b) <=> b \notin bad
  BY <1>2 DEF applies, Placed
<1>5. /\ \/ /\ applies(b)
            /\ apply_block(b, {b})
            /\ fault' = IF unique_num(b) THEN "none" ELSE "reversible"
            /\ fdb' = accepted(fdb, b)
            /\ job' = IF b = job.new THEN Idle ELSE [job EXCEPT !.phase = "push"]
         \/ /\ ~applies(b)
            /\ apply_block_fails(b)
            /\ fdb' = remove(fdb, b)
            /\ fault' = IF fdb'.head = NoBlock THEN "empty" ELSE "none"
            /\ job' = [job EXCEPT !.phase = "unpop"]
  BY DEF switch_apply
<1> HIDE DEF b
<1>6. /\ job.new \in Blocks /\ job.old \in Blocks /\ head \in Blocks /\ b \in Blocks
      /\ fdb.blocks \subseteq Blocks /\ fdb.trxs \subseteq Own
      /\ job.old \in fdb.blocks /\ fdb.head = job.new
      /\ \A c \in fdb.blocks : c = job.new \/ ~better(c, job.old)
      /\ ~better(job.old, job.new) /\ Chain[job.old] \cap bad = {}
      /\ log \in Chain[job.new] /\ log \in Chain[job.old]
  BY <1>1, <1>3, Types DEF Inv, BusyInv
<1>7. /\ job.first = Chain[job.new] \ Chain[job.old] /\ job.second = Chain[job.old] \ Chain[job.new]
      /\ job.new \notin Chain[job.old] /\ job.old \notin Chain[job.new]
      /\ job.second \subseteq fdb.blocks /\ job.first \subseteq fdb.blocks
      /\ Chain[job.new] \cap Chain[job.old] \subseteq Chain[head]
  BY <1>1 DEF Inv, SwitchInv
<1>8. Unshuffled' => First(fdb, job.old) /\ better(job.new, job.old)
  BY <1>1 DEF Inv, OrderInv, Unshuffled
<1>9. /\ job'.phase \in {"idle", "push", "unpop"}
      /\ job'.phase # "idle" => job'.new = job.new /\ job'.old = job.old
                                /\ job'.first = job.first /\ job'.second = job.second
      /\ job' \in [phase : {"idle", "extend", "pop", "push", "unpop"},
                   new : Blocks \cup {NoBlock}, old : Blocks \cup {NoBlock},
                   first : SUBSET Blocks, second : SUBSET Blocks]
  BY <1>5 DEF TypeOK, Idle
<1>10. CASE applies(b)
  <2>1. /\ apply_block(b, {b}) /\ fdb' = accepted(fdb, b)
        /\ fault' = IF unique_num(b) THEN "none" ELSE "reversible"
        /\ job' = IF b = job.new THEN Idle ELSE [job EXCEPT !.phase = "push"]
    BY <1>5, <1>10
  <2>2. /\ unique_num(b) /\ Known' /\ Placed'
        /\ log' \in Chain[head'] /\ reversible' = Chain[head'] \ Chain[log']
        /\ fdb'.blocks = fdb.blocks /\ fdb'.before = fdb.before /\ fdb'.head = fdb.head
        /\ fdb'.trxs = fdb.trxs /\ fdb'.in_chain = fdb.in_chain \cup {b}
        /\ fdb'.validated \subseteq fdb.validated \cup {b} /\ fdb' \in ForkDbs
        /\ head' = b /\ db' \in [tip : Blocks, floor : Nat] /\ reversible' \subseteq Blocks
        /\ unapplied' = unapplied \ TxsOf[b]
    BY <1>1, <1>2, <1>3, <1>4, <1>10, <2>1, Advance
  <2>3. TypeOK'
    <3>1. fdb' \in [blocks : SUBSET Blocks, before : SUBSET (Blocks \X Blocks),
                    head : Blocks \cup {NoBlock}, in_chain : SUBSET Blocks,
                    validated : SUBSET Blocks, trxs : SUBSET Own]
      BY <1>6, <2>2, ForkDbType
    <3> QED BY <1>1, <1>3, <1>6, <1>9, <2>2, <3>1 DEF TypeOK
  <2>4. ClearInv'
    BY <1>1, <1>2, <1>3, <1>6, <2>2, ClearAdvance
  <2>5. CASE b = job.new
    <3>1. job' = Idle
      BY <2>1, <2>5
    <3>2. \A c \in fdb'.blocks : ~better(c, head')
      BY <1>2, <1>6, <2>2, <2>5 DEF Known
    <3>3. Unshuffled' => First(fdb', head') /\ fdb'.head = head'
      <4>1. SUFFICES ASSUME Unshuffled', NEW c \in fdb'.blocks, c # head', Same(c, head') PROVE FALSE
        BY <1>6, <2>2, <2>5 DEF First
      <4>2. better(job.new, job.old) /\ ~better(c, job.old) /\ Same(c, job.new)
        BY <1>6, <1>8, <2>2, <2>5, <4>1
      <4> QED BY <4>2 DEF Same, better
    <3>4. Inv'
      BY <1>1, <2>2, <2>4, <3>1, <3>2, <3>3, IdleAgain
    <3> QED BY <2>1, <2>2, <2>3, <3>4
  <2>6. CASE b # job.new
    <3>1. job' = [job EXCEPT !.phase = "push"]
      BY <2>1, <2>6
    <3>2. job'.phase = "push" /\ job'.new = job.new /\ job'.old = job.old
          /\ job'.first = job.first /\ job'.second = job.second
      BY <3>1 DEF TypeOK
    <3>3. IdleInv' /\ BusyInv' /\ OrderInv' /\ DownInv' /\ ReplayInv'
      BY <1>1, <2>2, <3>2, BusyKept
    <3>4. Chain[job.new] \cap Chain[job.old] \subseteq Chain[head']
      BY <1>3, <1>6, <1>7, <2>2, Tree1
    <3>5. SwitchInv'
      BY <1>3, <1>7, <2>2, <2>6, <3>2, <3>4 DEF SwitchInv
    <3>6. ExtendInv' /\ Stored'
      BY <2>2, <3>2 DEF ExtendInv, Stored
    <3> QED BY <2>1, <2>2, <2>3, <2>4, <3>3, <3>5, <3>6 DEF Inv
  <2> QED BY <2>5, <2>6
<1>11. CASE ~applies(b)
  <2>1. /\ apply_block_fails(b) /\ fdb' = remove(fdb, b)
        /\ fault' = IF fdb'.head = NoBlock THEN "empty" ELSE "none"
        /\ job' = [job EXCEPT !.phase = "unpop"]
    BY <1>5, <1>11
  <2>2. UNCHANGED <<db, reversible, head>>
    BY <2>1 DEF apply_block_fails
  <2>3. b \notin Chain[head]
    BY <1>3, <1>6, Tree1, ChainBasics
  <2>4. /\ Known' /\ Placed' /\ fdb' \in ForkDbs
        /\ fdb'.blocks = {c \in fdb.blocks : b \notin Chain[c]}
        /\ fdb'.before = fdb.before \cap (fdb'.blocks \X fdb'.blocks)
        /\ fdb'.in_chain \subseteq fdb'.blocks /\ fdb'.validated \subseteq fdb'.blocks
        /\ fdb'.trxs \subseteq fdb'.blocks /\ fdb'.trxs \subseteq fdb.trxs
        /\ IsBest(fdb', fdb'.head) /\ fdb'.head # NoBlock
        /\ \A k \in fdb'.blocks : First(fdb, k) => First(fdb', k)
    BY <1>1, <1>2, <1>6, <2>1, <2>2, <2>3, Dropped
  <2>5. ClearInv' /\ unapplied' \subseteq Txs
    BY <1>1, <1>2, <1>3, <1>6, <2>1, ClearFail
  <2>6. TypeOK'
    <3>1. fdb' \in [blocks : SUBSET Blocks, before : SUBSET (Blocks \X Blocks),
                    head : Blocks \cup {NoBlock}, in_chain : SUBSET Blocks,
                    validated : SUBSET Blocks, trxs : SUBSET Own]
      BY <1>6, <2>4, ForkDbType
    <3> QED BY <1>1, <1>9, <2>2, <2>4, <2>5, <3>1 DEF TypeOK
  <2>7. job'.phase = "unpop" /\ job'.new = job.new /\ job'.old = job.old
        /\ job'.first = job.first /\ job'.second = job.second
    BY <2>1 DEF TypeOK
  <2>8. /\ job.new \notin fdb'.blocks /\ job.old \in fdb'.blocks /\ job.second \subseteq fdb'.blocks
        /\ \A c \in fdb'.blocks : ~better(c, job.old)
        /\ Chain[job.new] \cap bad # {}
    <3>1. \A c \in Chain[job.old] : b \notin Chain[c]
      BY <1>3, <1>6, ChainBasics
    <3>2. job.new \notin fdb'.blocks
      BY <1>3, <2>4
    <3>3. job.old \in Chain[job.old]
      BY <1>6, ChainBasics
    <3> QED BY <1>3, <1>4, <1>6, <1>7, <1>11, <2>4, <3>1, <3>2, <3>3
  <2>9. BusyInv'
    BY <1>1, <1>2, <1>6, <2>7, <2>8 DEF BusyInv
  <2>10. SwitchInv'
    <3>1. \E k \in fdb'.blocks : Chain[k] = Chain[job.new] \cap Chain[job.old]
      BY <1>3, <2>4
    <3> QED BY <1>1, <1>3, <1>7, <2>2, <2>7, <2>8, <3>1 DEF SwitchInv
  <2>11. OrderInv'
    <3>1. SUFFICES ASSUME Unshuffled' PROVE First(fdb', job.old) /\ fdb'.head = job.old /\ better(job.new, job.old)
      BY <2>7 DEF OrderInv
    <3>2. First(fdb', job.old) /\ better(job.new, job.old)
      BY <1>8, <2>4, <2>8, <3>1
    <3>3. IsBest(fdb', job.old)
      BY <2>8, <3>2 DEF IsBest, First
    <3>4. fdb'.head = job.old
      BY <2>4, <3>3, BestUnique DEF Known, WellFormed
    <3> QED BY <3>2, <3>4
  <2>12. IdleInv' /\ ExtendInv' /\ Stored' /\ DownInv' /\ ReplayInv'
    BY <1>1, <1>2, <2>2, <2>7 DEF IdleInv, ExtendInv, Stored, DownInv, ReplayInv
  <2> QED BY <2>1, <2>4, <2>5, <2>6, <2>9, <2>10, <2>11, <2>12 DEF Inv
<1> QED
  BY <1>10, <1>11

LEMMA SwitchUnpopStep ==
  ASSUME TypeOK, Inv, switch_unpop
  PROVE  TypeOK' /\ Inv' /\ fault' = fault
<1>1. /\ job.phase = "unpop" /\ mode = "up" /\ head \in job.first
      /\ fdb' = mark_in_current_chain(fdb, head, FALSE)
      /\ UNCHANGED <<log, pending, mode, bad, made, was, left>>
  BY DEF switch_unpop, Busy, world
<1>2. /\ Known /\ Placed /\ log \in Chain[head] /\ reversible = Chain[head] \ Chain[log]
      /\ ClearInv /\ pending = Closed
  BY <1>1 DEF Inv, Stored, BusyInv
<1>3. /\ job.new \in Blocks /\ job.old \in Blocks /\ log \in Chain[job.old]
      /\ job.first = Chain[job.new] \ Chain[job.old] /\ head \in Chain[job.new] /\ head \notin Chain[job.old]
      /\ job.new \notin Chain[job.old] /\ job.old \notin Chain[job.new]
      /\ Chain[job.new] \cap Chain[job.old] \subseteq Chain[head]
      /\ fdb.blocks \subseteq Blocks /\ fdb.trxs \subseteq Own /\ head \in Blocks /\ head # log
  BY <1>1, <1>2, Types DEF Inv, BusyInv, SwitchInv
<1>4. may_pop
  <2>1. PICK k \in fdb.blocks : Chain[k] = Chain[job.new] \cap Chain[job.old]
    BY <1>1 DEF Inv, SwitchInv
  <2>2. k \in Blocks /\ k \in Chain[head] /\ k # head /\ head # Genesis
    BY <1>3, <2>1, ChainBasics
  <2>3. /\ Parent[head] \in Blocks /\ Parent[head] \in Chain[head] /\ k \in Chain[Parent[head]]
    BY <1>3, <2>2, Tree1, ChainBasics
  <2>4. Parent[head] \in fdb.blocks \/ Parent[head] \in Chain[k]
    BY <1>2, <2>1, <2>3 DEF Known, WellFormed, Rooted, Placed
  <2>5. Parent[head] \in Chain[k] => Parent[head] = k
    BY <2>2, <2>3, ChainBasics, Tree1
  <2> QED BY <2>1, <2>4, <2>5 DEF may_pop
<1>5. pop_block /\ UNCHANGED <<fault, job>>
  BY <1>4 DEF switch_unpop
<1>6. /\ head # Genesis /\ Parent[head] \in Blocks /\ head \notin Chain[Parent[head]]
      /\ Chain[head] = Chain[Parent[head]] \cup {head}
      /\ Known' /\ Placed'
      /\ log' \in Chain[head'] /\ reversible' = Chain[head'] \ Chain[log']
      /\ fdb'.blocks = fdb.blocks /\ fdb'.before = fdb.before /\ fdb'.head = fdb.head
      /\ fdb'.trxs = fdb.trxs /\ fdb'.in_chain \subseteq fdb.in_chain
      /\ fdb'.validated = fdb.validated /\ fdb' \in ForkDbs
      /\ head' = Parent[head] /\ db' \in [tip : Blocks, floor : Nat] /\ reversible' \subseteq Blocks
      /\ unapplied' \subseteq unapplied \cup TxsOf[head]
  BY <1>1, <1>2, <1>3, <1>4, <1>5, Retreat
<1>7. TypeOK'
  <2>1. fdb' \in [blocks : SUBSET Blocks, before : SUBSET (Blocks \X Blocks),
                  head : Blocks \cup {NoBlock}, in_chain : SUBSET Blocks,
                  validated : SUBSET Blocks, trxs : SUBSET Own]
    BY <1>3, <1>6, ForkDbType
  <2>2. TxsOf[head] \subseteq Txs
    BY <1>3, <1>6, TxsAbove
  <2> QED BY <1>1, <1>5, <1>6, <2>1, <2>2 DEF TypeOK
<1>8. ClearInv'
  BY <1>1, <1>2, <1>3, <1>6, ClearRetreat
<1>9. IdleInv' /\ BusyInv' /\ OrderInv' /\ DownInv' /\ ReplayInv'
  BY <1>1, <1>5, <1>6, BusyKept
<1>10. SwitchInv'
  <2>1. /\ head' \in Chain[job.new] /\ head' # job.old
        /\ Chain[job.new] \cap Chain[job.old] \subseteq Chain[head']
    <3>1. head' \in Chain[head] /\ Chain[head] \subseteq Chain[job.new]
      BY <1>3, <1>6, ChainBasics
    <3> QED BY <1>3, <1>6, <3>1
  <2>2. job' = job /\ fdb'.blocks = fdb.blocks /\ bad' = bad
    BY <1>1, <1>5, <1>6
  <2> QED BY <1>1, <1>2, <2>1, <2>2 DEF Inv, SwitchInv
<1>11. ExtendInv' /\ Stored'
  BY <1>1, <1>5, <1>6 DEF ExtendInv, Stored
<1> QED
  BY <1>5, <1>6, <1>7, <1>8, <1>9, <1>10, <1>11 DEF Inv

LEMMA SwitchReapplyStep ==
  ASSUME TypeOK, Inv, switch_reapply
  PROVE  TypeOK' /\ Inv' /\ fault' = "none"
<1> DEFINE b == NextIn(job.second)
<1>1. /\ job.phase = "unpop" /\ mode = "up" /\ head \notin job.first
      /\ apply_block(b, {b}) /\ fault' = (IF unique_num(b) THEN "none" ELSE "reversible")
      /\ fdb' = mark_in_current_chain(fdb, b, TRUE)
      /\ job' = (IF b = job.old THEN Idle ELSE job)
      /\ UNCHANGED <<log, pending, mode, bad, made, was, left>>
  BY DEF switch_reapply, Busy, world
<1>2. /\ Known /\ Placed /\ log \in Chain[head] /\ reversible = Chain[head] \ Chain[log]
      /\ ClearInv /\ pending = Closed
  BY <1>1 DEF Inv, Stored, BusyInv
<1>3. /\ job.new \in Blocks /\ job.old \in Blocks /\ head \in Blocks
      /\ fdb.blocks \subseteq Blocks /\ fdb.trxs \subseteq Own
      /\ \A c \in fdb.blocks : c = job.new \/ ~better(c, job.old)
      /\ Chain[job.old] \cap bad = {}
      /\ job.first = Chain[job.new] \ Chain[job.old] /\ job.second = Chain[job.old] \ Chain[job.new]
      /\ job.new \notin Chain[job.old] /\ job.old \notin Chain[job.new]
      /\ job.second \subseteq fdb.blocks
      /\ Chain[job.new] \cap Chain[job.old] \subseteq Chain[head]
      /\ \E k \in fdb.blocks : Chain[k] = Chain[job.new] \cap Chain[job.old]
      /\ job.new \notin fdb.blocks /\ Chain[job.new] \cap bad # {}
      /\ head # job.old /\ head \in Chain[job.old]
  BY <1>1, Types DEF Inv, BusyInv, SwitchInv
<1>4. b \in job.second /\ Parent[b] = head /\ b \in fdb.blocks /\ b \in Blocks /\ b # Genesis /\ b \notin bad
  <2>1. PICK c \in Chain[job.old] \ {Genesis} : Parent[c] = head /\ Num[c] = Num[head] + 1
    BY <1>3, ChildAbove
  <2>2. c \notin Chain[head]
    BY <1>3, <2>1, Tree1, ChainBasics
  <2>3. c \in job.second
    BY <1>3, <2>1, <2>2
  <2>4. b \in job.second /\ Parent[b] = head
    BY <2>1, <2>3 DEF NextIn
  <2> HIDE DEF b
  <2>5. b # Genesis
    BY <1>3, <2>4, ChainBasics
  <2> QED BY <1>3, <2>4, <2>5
<1>5. Unshuffled' => First(fdb, job.old) /\ fdb.head = job.old /\ better(job.new, job.old)
  BY <1>1 DEF Inv, OrderInv, Unshuffled
<1> HIDE DEF b
<1>6. /\ unique_num(b) /\ Known' /\ Placed'
      /\ log' \in Chain[head'] /\ reversible' = Chain[head'] \ Chain[log']
      /\ fdb'.blocks = fdb.blocks /\ fdb'.before = fdb.before /\ fdb'.head = fdb.head
      /\ fdb'.trxs = fdb.trxs /\ fdb'.in_chain = fdb.in_chain \cup {b}
      /\ fdb'.validated \subseteq fdb.validated \cup {b} /\ fdb' \in ForkDbs
      /\ head' = b /\ db' \in [tip : Blocks, floor : Nat] /\ reversible' \subseteq Blocks
      /\ unapplied' = unapplied \ TxsOf[b]
  BY <1>1, <1>2, <1>4, Advance
<1>7. TypeOK'
  <2>1. fdb' \in [blocks : SUBSET Blocks, before : SUBSET (Blocks \X Blocks),
                  head : Blocks \cup {NoBlock}, in_chain : SUBSET Blocks,
                  validated : SUBSET Blocks, trxs : SUBSET Own]
    BY <1>3, <1>6, ForkDbType
  <2>2. job' \in [phase : {"idle", "extend", "pop", "push", "unpop"},
                  new : Blocks \cup {NoBlock}, old : Blocks \cup {NoBlock},
                  first : SUBSET Blocks, second : SUBSET Blocks]
    BY <1>1 DEF Idle, TypeOK
  <2> QED BY <1>1, <1>4, <1>6, <2>1, <2>2 DEF TypeOK
<1>8. ClearInv'
  BY <1>1, <1>2, <1>4, <1>6, ClearAdvance
<1>9. CASE b = job.old
  <2>1. job' = Idle
    BY <1>1, <1>9
  <2>2. \A c \in fdb'.blocks : ~better(c, head')
    BY <1>3, <1>6, <1>9
  <2>3. Unshuffled' => First(fdb', head') /\ fdb'.head = head'
    BY <1>5, <1>6, <1>9 DEF First
  <2>4. Inv'
    BY <1>1, <1>6, <1>8, <2>1, <2>2, <2>3, IdleAgain
  <2> QED BY <1>1, <1>6, <1>7, <2>4
<1>10. CASE b # job.old
  <2>1. job' = job
    BY <1>1, <1>10
  <2>2. IdleInv' /\ BusyInv' /\ OrderInv' /\ DownInv' /\ ReplayInv'
    BY <1>1, <1>6, <2>1, BusyKept
  <2>3. /\ Chain[job.new] \cap Chain[job.old] \subseteq Chain[head']
        /\ head' # job.old /\ head' \in Chain[job.old]
    BY <1>3, <1>4, <1>6, <1>10, Tree1
  <2>4. SwitchInv'
    <3>1. job' = job /\ fdb'.blocks = fdb.blocks /\ bad' = bad
      BY <1>1, <1>6, <2>1
    <3> QED BY <1>1, <1>2, <2>3, <3>1 DEF Inv, SwitchInv
  <2>5. ExtendInv' /\ Stored'
    BY <1>1, <1>6, <2>1 DEF ExtendInv, Stored
  <2> QED BY <1>1, <1>6, <1>7, <1>8, <2>2, <2>4, <2>5 DEF Inv
<1> QED
  BY <1>9, <1>10

-------------------------------------------------------------------------------
(* The pending block. *)

LEMMA PendingStep ==
  ASSUME TypeOK, Inv, Ready, UNCHANGED <<fdb, head, db, disk, job, mode, fault, world>>,
         pending' \in [open : BOOLEAN, trxs : SUBSET Txs], unapplied' \subseteq Txs, ClearInv'
  PROVE  TypeOK' /\ Inv' /\ fault' = fault
<1>1. /\ UNCHANGED <<fdb, head, db, reversible, log, job, mode, fault, bad, made, was, left>>
      /\ job.phase = "idle" /\ mode = "up"
  BY DEF disk, world, Ready
<1>2. TypeOK'
  BY <1>1 DEF TypeOK
<1>3. Known' /\ Placed' /\ Stored' /\ IdleInv'
  BY <1>1 DEF Inv, Known, Placed, Stored, IdleInv
<1>4. BusyInv' /\ ExtendInv' /\ SwitchInv' /\ DownInv' /\ ReplayInv'
  BY <1>1 DEF BusyInv, ExtendInv, SwitchInv, DownInv, ReplayInv
<1>5. OrderInv'
  BY <1>1 DEF Inv, OrderInv, Unshuffled
<1> QED
  BY <1>1, <1>2, <1>3, <1>4, <1>5 DEF Inv

LEMMA StartBlockStep ==
  ASSUME TypeOK, Inv, start_block
  PROVE  TypeOK' /\ Inv' /\ fault' = fault
<1>1. /\ Ready /\ UNCHANGED <<fdb, head, db, disk, job, mode, fault, world>> /\ unapplied' = unapplied
      /\ pending' = [open |-> TRUE, trxs |-> {}]
  BY DEF start_block
<1>2. pending' \in [open : BOOLEAN, trxs : SUBSET Txs] /\ pending'.trxs = {} /\ unapplied' \subseteq Txs /\ pending'.open
  BY <1>1 DEF TypeOK
<1>3. ChainTxs(head)' = ChainTxs(head)
  BY <1>1 DEF ChainTxs
<1>4. ClearInv'
  BY <1>1, <1>2, <1>3 DEF Inv, ClearInv
<1> QED
  BY <1>1, <1>2, <1>4, PendingStep

LEMMA PushTransactionStep ==
  ASSUME TypeOK, Inv, NEW t \in Txs, push_transaction(t)
  PROVE  TypeOK' /\ Inv' /\ fault' = fault
<1>1. /\ Ready /\ UNCHANGED <<fdb, head, db, disk, job, mode, fault, world>>
      /\ unapplied' = unapplied \ {t} /\ t \notin ChainTxs(head) /\ t \notin pending.trxs /\ pending.open
      /\ pending' = [pending EXCEPT !.trxs = @ \cup {t}]
  BY DEF push_transaction
<1>2. /\ pending' \in [open : BOOLEAN, trxs : SUBSET Txs] /\ pending'.trxs = pending.trxs \cup {t}
      /\ unapplied' \subseteq Txs /\ pending'.open
  BY <1>1 DEF TypeOK
<1>3. ChainTxs(head)' = ChainTxs(head)
  BY <1>1 DEF ChainTxs
<1>4. ClearInv'
  BY <1>1, <1>2, <1>3 DEF Inv, ClearInv
<1> QED
  BY <1>1, <1>2, <1>4, PendingStep

LEMMA DropStep ==
  ASSUME TypeOK, Inv, NEW t \in Txs, drop_unapplied_transaction(t)
  PROVE  TypeOK' /\ Inv' /\ fault' = fault
<1>1. /\ Ready /\ UNCHANGED <<fdb, head, db, disk, job, mode, fault, world>>
      /\ unapplied' = unapplied \ {t} /\ pending' = pending
  BY DEF drop_unapplied_transaction
<1>2. pending' \in [open : BOOLEAN, trxs : SUBSET Txs] /\ unapplied' \subseteq Txs
  BY <1>1 DEF TypeOK
<1>3. ChainTxs(head)' = ChainTxs(head)
  BY <1>1 DEF ChainTxs
<1>4. ClearInv'
  BY <1>1, <1>2, <1>3 DEF Inv, ClearInv
<1> QED
  BY <1>1, <1>2, <1>4, PendingStep

LEMMA AbortBlockStep ==
  ASSUME TypeOK, Inv, abort_block
  PROVE  TypeOK' /\ Inv' /\ fault' = fault
<1>1. /\ Ready /\ UNCHANGED <<fdb, head, db, disk, job, mode, fault, world>>
      /\ unapplied' = unapplied \cup pending.trxs /\ pending' = Closed
  BY DEF abort_block
<1>2. /\ pending' \in [open : BOOLEAN, trxs : SUBSET Txs] /\ pending'.trxs = {}
      /\ unapplied' \subseteq Txs
  BY <1>1 DEF TypeOK, Closed
<1>3. ChainTxs(head)' = ChainTxs(head)
  BY <1>1 DEF ChainTxs
<1>4. ClearInv'
  BY <1>1, <1>2, <1>3 DEF Inv, ClearInv
<1> QED
  BY <1>1, <1>2, <1>4, PendingStep

-------------------------------------------------------------------------------
(* Blocks that are added. *)

(* What add(b) leaves, when it is made on, or received by, a fork database *)
(* f in which h is the marked head, and log and h are on one chain, w's.   *)
LEMMA Added ==
  ASSUME NEW f, WellFormed(f), NEW b \in Blocks \ {Genesis}, b \notin f.blocks, Parent[b] \in f.blocks,
         NEW h \in f.blocks \cup {b}, Marked(insert(f, b), h),
         NEW w \in Blocks, h \in Chain[w], log \in Chain[w], NEW e \in f.blocks, e \in Chain[h],
         Chain[e] \ Chain[log] \subseteq f.blocks
  PROVE  LET g == insert(f, b)
             p == pruned(g)
             S == irreversible(g)
             o == oldest(g)
         IN /\ WellFormed(g) /\ g.blocks = f.blocks \cup {b} /\ IsBest(g, g.head)
            /\ \A a, c \in f.blocks : <<a, c>> \in g.before <=> <<a, c>> \in f.before
            /\ \A c \in f.blocks : Num[c] = Num[b] => <<c, b>> \in g.before
            /\ WellFormed(p) /\ p.blocks \subseteq g.blocks
            /\ p.before = g.before \cap (p.blocks \X p.blocks)
            /\ p.in_chain = f.in_chain \cap p.blocks
            /\ f.validated \subseteq g.blocks => p.validated = f.validated \cap p.blocks
            /\ f.trxs \subseteq g.blocks => p.trxs = f.trxs \cap p.blocks
            /\ p.blocks # {} => IsBest(p, p.head)
            /\ p.blocks = {} => p.head = NoBlock
            /\ S = {} => p = g
            /\ S # {} => /\ S = {o} /\ Num[o] < Lib[g.head]
                         /\ p.blocks = {c \in g.blocks : c # o /\ o \in Chain[c]}
            /\ o \in Chain[h] /\ o \in Chain[e] /\ o \in f.blocks
            /\ Num[o] <= Num[log] + 1
            /\ S \in {{}, {o}}
<1>0. PICK g : g = insert(f, b)
  OBVIOUS
<1> DEFINE p == pruned(g)
<1> DEFINE S == irreversible(g)
<1> DEFINE o == oldest(g)
<1>1. /\ WellFormed(g) /\ g.blocks = f.blocks \cup {b} /\ IsBest(g, g.head)
      /\ \A a, c \in f.blocks : <<a, c>> \in g.before <=> <<a, c>> \in f.before
      /\ \A c \in f.blocks : Num[c] = Num[b] => <<c, b>> \in g.before
      /\ g.in_chain = f.in_chain /\ g.validated = f.validated /\ g.trxs = f.trxs
  BY <1>0, Inserted
<1>2. h \in g.blocks /\ Marked(g, h) /\ f.blocks \subseteq Blocks /\ h \in Blocks /\ e \in Blocks
  BY <1>0, <1>1 DEF WellFormed, ForkDbs
<1>3. /\ WellFormed(p) /\ p.blocks \subseteq g.blocks
      /\ p.before = g.before \cap (p.blocks \X p.blocks)
      /\ p.in_chain = g.in_chain \cap p.blocks
      /\ g.validated \subseteq g.blocks => p.validated = g.validated \cap p.blocks
      /\ g.trxs \subseteq g.blocks => p.trxs = g.trxs \cap p.blocks
      /\ p.blocks # {} => IsBest(p, p.head)
      /\ p.blocks = {} => p.head = NoBlock
      /\ S = {} => p = g
      /\ S # {} => /\ S = {o} /\ Num[o] < Lib[g.head]
                   /\ p.blocks = {c \in g.blocks : c # o /\ o \in Chain[c]}
  BY <1>1, <1>2, Pruned
<1>4. o \in Chain[h] /\ o \in g.blocks /\ \A c \in g.blocks : Num[o] <= Num[c]
  BY <1>1, <1>2, OldestOnChain, OldestIs
<1> HIDE DEF p, S, o
<1>5. o \in Blocks /\ Num[o] \in Nat /\ Num[o] <= Num[e]
  BY <1>1, <1>2, <1>4, Tree1
<1>6. o \in Chain[e]
  BY <1>2, <1>4, <1>5, ChainLinear
<1>7. o \in f.blocks
  BY <1>1, <1>2, <1>4, <1>6, NotInIndex
<1>8. Num[o] <= Num[log] + 1
  <2>1. e \in Chain[w] /\ \A c \in f.blocks : Num[o] <= Num[c]
    BY <1>1, <1>2, <1>4, ChainBasics
  <2> QED BY <1>2, <1>7, <2>1, LowEnough
<1>9. S \in {{}, {o}}
  BY <1>3
<1> QED
  BY <1>0, <1>1, <1>3, <1>4, <1>6, <1>7, <1>8, <1>9 DEF p, S, o

(* The irreversible number of a block is below its own. *)
LEMMA LibBelow ==
  ASSUME NEW b \in Blocks PROVE Lib[b] < Num[b] /\ Lib[b] \in Nat /\ Num[b] \in Nat
BY Tree1

LEMMA NotGenesis ==
  ASSUME NEW b \in Blocks, Parent[b] \in Blocks PROVE b # Genesis
BY TreeAssumption

(* What is above m on a chain is above every ancestor of m. *)
LEMMA AboveLog ==
  ASSUME NEW h \in Blocks, NEW o \in Chain[h], NEW m \in Blocks, o \in Chain[m],
         NEW c \in Chain[h], c \notin Chain[m]
  PROVE  c # o /\ o \in Chain[c]
<1>1. c \in Blocks /\ o \in Blocks /\ Chain[o] \subseteq Chain[m]
  BY ChainBasics
<1>2. c \notin Chain[o]
  BY <1>1
<1> QED
  BY <1>1, <1>2, ChainLinear, Tree1

(* push_block: the facts about the fork database that is left. *)
LEMMA Pushed ==
  ASSUME TypeOK, Inv, Ready, NEW b \in Blocks, b \notin fdb.blocks, Parent[b] \in fdb.blocks,
         NEW g, g = insert(fdb, b), NEW f, f = pruned(g), NEW S, S = irreversible(g)
  PROVE  /\ links_log(S) /\ log_after(S) \in Chain[head] /\ log_after(S) \in Blocks
         /\ reversible_after(S) = Chain[head] \ Chain[log_after(S)]
         /\ floor_after(S) \in Nat /\ floor_after(S) <= Num[log_after(S)]
         /\ WellFormed(f) /\ f.in_chain \subseteq f.blocks /\ f.validated \subseteq f.blocks
         /\ f.trxs \subseteq f.blocks /\ f.trxs \subseteq fdb.trxs
         /\ f.blocks \subseteq fdb.blocks \cup {b}
         /\ f.blocks = {} => f.head = NoBlock
         /\ f.blocks # {} =>
              /\ IsBest(f, f.head) /\ head \in f.blocks /\ Marked(f, head)
              /\ Chain[head] \ Chain[log_after(S)] \subseteq f.blocks
              /\ \A c \in f.blocks : c = f.head \/ ~better(c, head)
              /\ ~better(head, f.head)
              /\ f.head # head /\ Parent[f.head] # head =>
                   f.head \notin Chain[head] /\ head \notin Chain[f.head]
              /\ Unshuffled => First(f, head) /\ (f.head # head => better(f.head, head))
<1> DEFINE o == oldest(g)
<1>1. /\ fdb.blocks \subseteq Blocks /\ head \in Blocks /\ log \in Blocks /\ b \in Blocks /\ Parent[b] \in Blocks
      /\ fdb.validated \subseteq fdb.blocks /\ fdb.trxs \subseteq fdb.blocks /\ db.floor \in Nat
      /\ db.tip \in Blocks /\ b # Genesis /\ Num[head] \in Nat /\ Num[b] \in Nat
  BY Types, NotGenesis, Tree1
<1>2. /\ Known /\ Placed /\ log \in Chain[head] /\ reversible = Chain[head] \ Chain[log]
      /\ \A c \in fdb.blocks : ~better(c, head)
      /\ WellFormed(fdb) /\ head \in fdb.blocks /\ Marked(fdb, head)
      /\ Chain[head] \ Chain[log] \subseteq fdb.blocks /\ db.floor <= Num[log]
      /\ head \in Chain[head]
  BY <1>1, ChainBasics DEF Inv, Stored, Ready, IdleInv, Known, Placed
<1>3. b \notin Chain[head]
  BY <1>1, <1>2, NotInIndex
<1>4. Marked(insert(fdb, b), head)
  <2>1. insert(fdb, b).blocks = fdb.blocks \cup {b} /\ insert(fdb, b).in_chain = fdb.in_chain
    BY <1>1, <1>2, Inserted
  <2> QED BY <1>2, <1>3, <2>1 DEF Marked
<1>5. /\ WellFormed(g) /\ g.blocks = fdb.blocks \cup {b} /\ IsBest(g, g.head)
      /\ \A a, c \in fdb.blocks : <<a, c>> \in g.before <=> <<a, c>> \in fdb.before
      /\ \A c \in fdb.blocks : Num[c] = Num[b] => <<c, b>> \in g.before
      /\ WellFormed(f) /\ f.blocks \subseteq g.blocks
      /\ f.before = g.before \cap (f.blocks \X f.blocks)
      /\ f.in_chain = fdb.in_chain \cap f.blocks
      /\ fdb.validated \subseteq g.blocks => f.validated = fdb.validated \cap f.blocks
      /\ fdb.trxs \subseteq g.blocks => f.trxs = fdb.trxs \cap f.blocks
      /\ f.blocks # {} => IsBest(f, f.head)
      /\ f.blocks = {} => f.head = NoBlock
      /\ S = {} => f = g
      /\ S # {} => /\ S = {o} /\ Num[o] < Lib[g.head]
                   /\ f.blocks = {c \in g.blocks : c # o /\ o \in Chain[c]}
      /\ o \in Chain[head] /\ o \in fdb.blocks /\ Num[o] <= Num[log] + 1 /\ S \in {{}, {o}}
  BY <1>1, <1>2, <1>4, Added
<1> HIDE DEF o
<1>6. /\ links_log(S) /\ log_after(S) \in Chain[head]
      /\ Chain[log] \subseteq Chain[log_after(S)]
      /\ S # {} => o \in Chain[log_after(S)]
      /\ reversible_after(S) = Chain[head] \ Chain[log_after(S)]
      /\ floor_after(S) \in Nat /\ floor_after(S) <= Num[log_after(S)]
  BY <1>1, <1>2, <1>5, Committed
<1>7. log_after(S) \in Blocks
  BY <1>1, <1>6, ChainBasics
<1>8. Chain[head] \ Chain[log_after(S)] \subseteq f.blocks
  <2>1. PICK m : m = log_after(S)
    OBVIOUS
  <2>2. ASSUME NEW c \in Chain[head], c \notin Chain[m] PROVE c \in f.blocks
    <3>1. c \in g.blocks /\ (S # {} => o \in Chain[m]) /\ m \in Blocks
      BY <1>2, <1>5, <1>6, <1>7, <2>1, <2>2
    <3>2. CASE S = {}
      BY <1>5, <3>1, <3>2
    <3>3. CASE S # {}
      <4>1. c # o /\ o \in Chain[c]
        BY <1>1, <1>5, <2>2, <3>1, <3>3, AboveLog
      <4> QED BY <1>5, <3>1, <3>3, <4>1
    <3> QED BY <3>2, <3>3
  <2> QED BY <2>1, <2>2
<1>9. ASSUME f.blocks # {}
      PROVE  /\ IsBest(f, f.head) /\ head \in f.blocks /\ Marked(f, head)
             /\ \A c \in f.blocks : c = f.head \/ ~better(c, head)
             /\ ~better(head, f.head)
             /\ f.head # head /\ Parent[f.head] # head =>
                  f.head \notin Chain[head] /\ head \notin Chain[f.head]
             /\ Unshuffled => First(f, head) /\ (f.head # head => better(f.head, head))
  <2>1. /\ IsBest(f, f.head) /\ f.head \in f.blocks /\ f.head \in Blocks /\ f.head \in fdb.blocks \cup {b}
        /\ \A c \in f.blocks : ~better(c, f.head)
    BY <1>1, <1>5, <1>9 DEF IsBest
  <2>2. ASSUME NEW c \in fdb.blocks \cup {b}, head \in Chain[c], c # head
        PROVE  c = b /\ Parent[b] = head
    <3>1. c \in Blocks /\ better(c, head)
      BY <1>1, <2>2, Outranks
    <3>2. c = b
      BY <1>2, <2>2, <3>1
    <3>3. head \in Chain[Parent[b]]
      BY <1>1, <2>2, <3>2, Tree1
    <3>4. Parent[b] # head => better(Parent[b], head)
      BY <1>1, <3>3, Outranks
    <3> QED BY <1>2, <3>2, <3>4
  <2>3. head \in f.blocks
    <3>1. SUFFICES ASSUME head \notin f.blocks PROVE FALSE
      OBVIOUS
    <3>2. head = o /\ S # {}
      BY <1>2, <1>5, <3>1
    <3>3. f.head = b /\ Parent[b] = head
      <4>1. f.head # head /\ head \in Chain[f.head]
        BY <1>5, <2>1, <3>2
      <4> QED BY <2>1, <2>2, <4>1
    <3>4. Num[b] = Num[head] + 1
      BY <1>1, <3>3, Tree1
    <3>5. g.head \in fdb.blocks \cup {b} /\ g.head \in Blocks
      BY <1>1, <1>5 DEF IsBest
    <3>6. Num[head] < Lib[g.head]
      BY <1>5, <3>2
    <3>7. CASE g.head = b
      BY <1>1, <3>4, <3>6, <3>7, LibBelow
    <3>8. CASE g.head \in fdb.blocks
      <4>1. ~better(g.head, head)
        BY <1>2, <3>8
      <4>2. Lib[g.head] <= Lib[head] /\ Lib[head] < Num[head]
        BY <1>1, <3>5, <4>1, LibBelow DEF better
      <4> QED BY <1>1, <3>5, <3>6, <4>2, LibBelow
    <3> QED BY <3>5, <3>7, <3>8
  <2>4. Marked(f, head)
    BY <1>2, <1>3, <1>5 DEF Marked
  <2>5. ~better(head, f.head)
    BY <2>1, <2>3
  <2>6. \A c \in f.blocks : c = f.head \/ ~better(c, head)
    <3>1. SUFFICES ASSUME NEW c \in f.blocks, c # f.head, better(c, head) PROVE FALSE
      OBVIOUS
    <3>2. c = b
      BY <1>2, <1>5, <3>1
    <3>3. f.head \in fdb.blocks
      BY <2>1, <3>1, <3>2
    <3>4. ~better(f.head, head)
      BY <1>2, <3>3
    <3>5. better(c, f.head)
      BY <1>1, <2>1, <3>1, <3>2, <3>4, RankFacts
    <3> QED BY <2>1, <3>5
  <2>7. f.head # head /\ Parent[f.head] # head => f.head \notin Chain[head] /\ head \notin Chain[f.head]
    <3>1. f.head # head => f.head \notin Chain[head]
      BY <1>1, <2>5, Outranks
    <3> QED BY <2>1, <2>2, <3>1
  <2>8. ASSUME Unshuffled PROVE First(f, head) /\ (f.head # head => better(f.head, head))
    <3>1. First(fdb, head)
      BY <2>8 DEF Inv, OrderInv, Ready
    <3>2. First(f, head)
      <4>1. SUFFICES ASSUME NEW c \in f.blocks, c # head, Same(c, head) PROVE <<head, c>> \in g.before
        BY <1>5, <2>3 DEF First
      <4>2. CASE c = b
        BY <1>2, <1>5, <4>1, <4>2 DEF Same
      <4>3. CASE c \in fdb.blocks
        BY <1>2, <1>5, <3>1, <4>1, <4>3 DEF First
      <4> QED BY <1>5, <4>2, <4>3
    <3>3. f.head # head => better(f.head, head)
      <4>1. SUFFICES ASSUME f.head # head, ~better(f.head, head) PROVE FALSE
        OBVIOUS
      <4>2. Same(f.head, head) /\ Same(head, f.head)
        BY <1>1, <2>1, <2>5, <4>1, RankFacts DEF Same
      <4>3. <<head, f.head>> \in f.before /\ <<f.head, head>> \in f.before
        BY <2>1, <2>3, <3>2, <4>1, <4>2 DEF First, IsBest
      <4> QED BY <1>5, <2>1, <2>3, <4>3 DEF WellFormed, Ordered
    <3> QED BY <3>2, <3>3
  <2> QED BY <2>1, <2>3, <2>4, <2>5, <2>6, <2>7, <2>8
<1> QED
  BY <1>1, <1>5, <1>6, <1>7, <1>8, <1>9

(* What push_block does to the variables. *)
LEMMA PushBlockDef ==
  ASSUME NEW b, push_block(b)
  PROVE  LET g == insert(fdb, b)
             f == pruned(g)
             S == irreversible(g)
         IN /\ Ready /\ b \notin fdb.blocks /\ Parent[b] \in fdb.blocks
            /\ fault' = (IF add_fault(S, f) # "none" THEN add_fault(S, f)
                         ELSE IF ~branches_known(f, switch_job(f)) THEN "branch"
                         ELSE IF log_after(S) \notin Chain[f.head] THEN "below" ELSE "none")
            /\ fdb' = f /\ log' = log_after(S) /\ reversible' = reversible_after(S)
            /\ db' = [db EXCEPT !.floor = floor_after(S)]
            /\ job' = (IF fault' = "none" THEN switch_job(f) ELSE Idle)
            /\ ~pending.open
            /\ UNCHANGED <<head, pending, unapplied, mode, bad, made, was, left>>
BY DEF push_block, world

LEMMA PushBlockStep ==
  ASSUME TypeOK, Inv, NEW b \in Blocks, push_block(b)
  PROVE  TypeOK' /\ ((Inv' /\ fault' = "none") \/ fault' \in {"empty", "below"})
<1>1. PICK g : g = insert(fdb, b)
  OBVIOUS
<1>2. PICK f : f = pruned(g)
  OBVIOUS
<1>3. PICK S : S = irreversible(g)
  OBVIOUS
<1>4. /\ Ready /\ b \notin fdb.blocks /\ Parent[b] \in fdb.blocks
      /\ fault' = (IF add_fault(S, f) # "none" THEN add_fault(S, f)
                   ELSE IF ~branches_known(f, switch_job(f)) THEN "branch"
                   ELSE IF log_after(S) \notin Chain[f.head] THEN "below" ELSE "none")
      /\ fdb' = f /\ log' = log_after(S) /\ reversible' = reversible_after(S)
      /\ db' = [db EXCEPT !.floor = floor_after(S)]
      /\ job' = (IF fault' = "none" THEN switch_job(f) ELSE Idle)
      /\ ~pending.open
      /\ UNCHANGED <<head, pending, unapplied, mode, bad, made, was, left>>
  BY <1>1, <1>2, <1>3, PushBlockDef
<1>5. /\ links_log(S) /\ log_after(S) \in Chain[head] /\ log_after(S) \in Blocks
      /\ reversible_after(S) = Chain[head] \ Chain[log_after(S)]
      /\ floor_after(S) \in Nat /\ floor_after(S) <= Num[log_after(S)]
      /\ WellFormed(f) /\ f.in_chain \subseteq f.blocks /\ f.validated \subseteq f.blocks
      /\ f.trxs \subseteq f.blocks /\ f.trxs \subseteq fdb.trxs
      /\ f.blocks \subseteq fdb.blocks \cup {b}
      /\ f.blocks = {} => f.head = NoBlock
      /\ f.blocks # {} =>
           /\ IsBest(f, f.head) /\ head \in f.blocks /\ Marked(f, head)
           /\ Chain[head] \ Chain[log_after(S)] \subseteq f.blocks
           /\ \A c \in f.blocks : c = f.head \/ ~better(c, head)
           /\ ~better(head, f.head)
           /\ f.head # head /\ Parent[f.head] # head =>
                f.head \notin Chain[head] /\ head \notin Chain[f.head]
           /\ Unshuffled => First(f, head) /\ (f.head # head => better(f.head, head))
  BY <1>1, <1>2, <1>3, <1>4, Pushed
<1>6. /\ fdb.blocks \subseteq Blocks /\ fdb.trxs \subseteq Own /\ head \in Blocks
      /\ f \in ForkDbs /\ f.blocks \subseteq Blocks /\ Chain[head] \subseteq Blocks
  BY <1>5, Types, ChainBasics DEF WellFormed, ForkDbs
<1>7. /\ mode = "up" /\ Known /\ Placed /\ ClearInv /\ Chain[head] \cap bad = {} /\ db.tip = head
      /\ db \in [tip : Blocks, floor : Nat] /\ pending = Closed /\ bad \subseteq Blocks
  BY <1>4, ControllerAssumption DEF Inv, Ready, Placed, TypeOK, ClearInv
<1>8. db' \in [tip : Blocks, floor : Nat] /\ db'.tip = head /\ db'.floor = floor_after(S)
  BY <1>4, <1>5, <1>7
<1>9. fdb' \in [blocks : SUBSET Blocks, before : SUBSET (Blocks \X Blocks),
                head : Blocks \cup {NoBlock}, in_chain : SUBSET Blocks,
                validated : SUBSET Blocks, trxs : SUBSET Own]
  BY <1>4, <1>5, <1>6, ForkDbType
<1>10. job' \in [phase : {"idle", "extend", "pop", "push", "unpop"},
                 new : Blocks \cup {NoBlock}, old : Blocks \cup {NoBlock},
                 first : SUBSET Blocks, second : SUBSET Blocks] => TypeOK'
  BY <1>4, <1>5, <1>6, <1>8, <1>9 DEF TypeOK
<1>11. CASE f.head = NoBlock
  <2>1. add_fault(S, f) = "empty"
    BY <1>5, <1>11 DEF add_fault
  <2>2. fault' = "empty" /\ job' = Idle
    BY <1>4, <2>1
  <2> QED BY <1>10, <2>2 DEF Idle
<1>12. CASE f.head # NoBlock
  <2>1. f.blocks # {}
    BY <1>5, <1>12
  <2>2. /\ IsBest(f, f.head) /\ f.head \in f.blocks /\ f.head \in Blocks /\ Chain[f.head] \subseteq Blocks
        /\ \A c \in f.blocks : ~better(c, f.head)
    BY <1>5, <1>6, <2>1, ChainBasics DEF IsBest
  <2>3. add_fault(S, f) = "none"
    BY <1>5, <1>12 DEF add_fault
  <2>9. Parent[f.head] = head => f.head # head
    BY <1>6, <2>2, NotGenesis, Tree1
  <2>4. /\ Parent[f.head] = head =>
             /\ switch_job(f).phase = "extend" /\ switch_job(f).new = f.head /\ switch_job(f).old = head
             /\ switch_job(f).first = {} /\ switch_job(f).second = {}
        /\ Parent[f.head] # head /\ f.head = head => switch_job(f) = Idle
        /\ Parent[f.head] # head /\ f.head # head =>
             /\ switch_job(f).phase = "pop" /\ switch_job(f).new = f.head /\ switch_job(f).old = head
             /\ switch_job(f).first = Chain[f.head] \ Chain[head]
             /\ switch_job(f).second = Chain[head] \ Chain[f.head]
             /\ f.head \notin Chain[head] /\ head \notin Chain[f.head]
        /\ switch_job(f) \in [phase : {"idle", "extend", "pop", "push", "unpop"},
                              new : Blocks \cup {NoBlock}, old : Blocks \cup {NoBlock},
                              first : SUBSET Blocks, second : SUBSET Blocks]
    <3>1. CASE Parent[f.head] = head
      <4>1. switch_job(f) = [Idle EXCEPT !.phase = "extend", !.new = f.head, !.old = head]
        BY <2>9, <3>1 DEF switch_job
      <4> QED BY <1>6, <2>2, <3>1, <4>1 DEF Idle
    <3>2. CASE Parent[f.head] # head /\ f.head = head
      <4>1. switch_job(f) = Idle
        BY <3>2 DEF switch_job
      <4> QED BY <3>2, <4>1 DEF Idle
    <3>3. CASE Parent[f.head] # head /\ f.head # head
      <4>1. switch_job(f) = [phase |-> "pop", new |-> f.head, old |-> head,
                first |-> branch_from(f.head, head), second |-> branch_from(head, f.head)]
        BY <3>3 DEF switch_job
      <4>2. f.head \notin Chain[head] /\ head \notin Chain[f.head]
        BY <1>5, <2>1, <3>3
      <4>3. /\ branch_from(f.head, head) = Chain[f.head] \ Chain[head]
            /\ branch_from(head, f.head) = Chain[head] \ Chain[f.head]
        BY <4>2 DEF branch_from
      <4> QED BY <1>6, <2>2, <3>3, <4>1, <4>2, <4>3
    <3> QED BY <3>1, <3>2, <3>3
  <2>5. branches_known(f, switch_job(f))
    <3>1. Chain[f.head] \ Chain[head] \subseteq f.blocks /\ Chain[head] \ Chain[f.head] \subseteq f.blocks
      BY <1>5, <2>1, <2>2 DEF WellFormed, Rooted
    <3> QED BY <2>4, <3>1 DEF branches_known, Idle
  <2>6. fault' = IF log_after(S) \notin Chain[f.head] THEN "below" ELSE "none"
    BY <1>4, <2>3, <2>5
  <2>7. CASE log_after(S) \notin Chain[f.head]
    <3>1. fault' = "below" /\ job' = Idle
      BY <1>4, <2>6, <2>7
    <3> QED BY <1>10, <3>1 DEF Idle
  <2>8. CASE log_after(S) \in Chain[f.head]
    <3>1. fault' = "none" /\ job' = switch_job(f)
      BY <1>4, <2>6, <2>8
    <3>2. TypeOK'
      BY <1>10, <2>4, <3>1
    <3>3. Known' /\ Placed' /\ Stored'
      <4>1. Known'
        BY <1>4, <1>5, <2>2 DEF Known
      <4>2. Placed'
        BY <1>4, <1>5, <1>7, <1>8, <2>1 DEF Placed
      <4> QED BY <1>4, <1>5, <4>1, <4>2 DEF Stored
    <3>4. ClearInv'
      <4>1. ChainTxs(head)' = ChainTxs(head)
        BY <1>4 DEF ChainTxs
      <4> QED BY <1>4, <1>7, <4>1 DEF ClearInv
    <3>5. DownInv' /\ ReplayInv'
      BY <1>4, <1>7 DEF DownInv, ReplayInv
    <3>6. Unshuffled' => Unshuffled
      BY <1>4, <1>7 DEF Unshuffled
    <3>7. CASE Parent[f.head] # head /\ f.head = head
      <4>1. job' = Idle /\ mode' = "up"
        BY <1>4, <1>7, <2>4, <3>1, <3>7
      <4>2. \A c \in fdb'.blocks : ~better(c, head')
        BY <1>4, <2>2, <3>7
      <4>3. Unshuffled' => First(fdb', head') /\ fdb'.head = head'
        BY <1>4, <1>5, <2>1, <3>6, <3>7
      <4>4. log' \in Chain[head'] /\ reversible' = Chain[head'] \ Chain[log']
        BY <1>4, <1>5
      <4>5. Inv'
        BY <3>3, <3>4, <4>1, <4>2, <4>3, <4>4, IdleAgain
      <4> QED BY <3>1, <3>2, <4>5
    <3>8. CASE Parent[f.head] = head \/ f.head # head
      <4>0. f.head # head
        BY <2>9, <3>8
      <4>1. job'.phase \in {"extend", "pop"} /\ job'.new = f.head /\ job'.old = head
        BY <2>4, <3>1, <3>8
      <4>2. BusyInv'
        BY <1>4, <1>5, <1>7, <2>1, <2>2, <2>8, <4>1 DEF BusyInv
      <4>3. IdleInv'
        BY <4>1 DEF IdleInv
      <4>4. OrderInv'
        BY <1>4, <1>5, <2>1, <3>6, <4>0, <4>1 DEF OrderInv
      <4>5. CASE Parent[f.head] = head
        <5>1. job'.phase = "extend" /\ f.head # Genesis
          BY <1>6, <2>2, <2>4, <3>1, <4>5, NotGenesis
        <5>2. ExtendInv' /\ SwitchInv'
          BY <1>4, <4>1, <4>5, <5>1 DEF ExtendInv, SwitchInv
        <5> QED BY <3>1, <3>2, <3>3, <3>4, <3>5, <4>2, <4>3, <4>4, <5>2 DEF Inv
      <4>6. CASE Parent[f.head] # head
        <5>1. /\ job'.phase = "pop" /\ job'.first = Chain[f.head] \ Chain[head]
              /\ job'.second = Chain[head] \ Chain[f.head]
              /\ f.head \notin Chain[head] /\ head \notin Chain[f.head]
          BY <2>4, <3>1, <4>0, <4>6
        <5>2. job'.first \cup job'.second \subseteq f.blocks
          BY <2>5, <3>1 DEF branches_known
        <5>3. head \in Chain[head]
          BY <1>6, ChainBasics
        <5>4. SwitchInv'
          BY <1>4, <4>1, <5>1, <5>2, <5>3 DEF SwitchInv
        <5>5. ExtendInv'
          BY <5>1 DEF ExtendInv
        <5> QED BY <3>1, <3>2, <3>3, <3>4, <3>5, <4>2, <4>3, <4>4, <5>4, <5>5 DEF Inv
      <4> QED BY <4>5, <4>6
    <3> QED BY <3>7, <3>8
  <2> QED BY <2>7, <2>8
<1> QED
  BY <1>11, <1>12

(* What commit_block does to the variables. *)
LEMMA CommitBlockDef ==
  ASSUME NEW b, commit_block(b)
  PROVE  LET m == [fdb EXCEPT !.in_chain = @ \cup {b}, !.validated = @ \cup {b}, !.trxs = @ \cup {b}]
             g == insert(m, b)
             f == pruned(g)
             S == irreversible(g)
         IN /\ Ready /\ pending.trxs = TxsOf[b] /\ Parent[b] = head
            /\ fault' = (IF add_fault(S, f) # "none" THEN add_fault(S, f)
                         ELSE IF f.head # b THEN "commit"
                         ELSE IF ~unique_num(b) THEN "reversible" ELSE "none")
            /\ fdb' = f /\ head' = f.head /\ log' = log_after(S)
            /\ reversible' = reversible_after(S) \cup {b}
            /\ db' = [tip |-> b, floor |-> floor_after(S)]
            /\ pending' = Closed /\ made' = made \cup {b}
            /\ UNCHANGED <<unapplied, job, mode, bad, was, left>>
BY DEF commit_block

LEMMA CommitBlockStep ==
  ASSUME TypeOK, Inv, NEW b \in Own, commit_block(b)
  PROVE  TypeOK' /\ Inv' /\ fault' = "none"
<1>1. PICK m : m = [fdb EXCEPT !.in_chain = @ \cup {b}, !.validated = @ \cup {b}, !.trxs = @ \cup {b}]
  OBVIOUS
<1>2. PICK g : g = insert(m, b)
  OBVIOUS
<1>3. PICK f : f = pruned(g)
  OBVIOUS
<1>4. PICK S : S = irreversible(g)
  OBVIOUS
<1>5. /\ Ready /\ pending.trxs = TxsOf[b] /\ Parent[b] = head
      /\ fault' = (IF add_fault(S, f) # "none" THEN add_fault(S, f)
                   ELSE IF f.head # b THEN "commit"
                   ELSE IF ~unique_num(b) THEN "reversible" ELSE "none")
      /\ fdb' = f /\ head' = f.head /\ log' = log_after(S)
      /\ reversible' = reversible_after(S) \cup {b}
      /\ db' = [tip |-> b, floor |-> floor_after(S)]
      /\ pending' = Closed /\ made' = made \cup {b}
      /\ UNCHANGED <<unapplied, job, mode, bad, was, left>>
  BY <1>1, <1>2, <1>3, <1>4, CommitBlockDef
<1>6. /\ fdb \in ForkDbs /\ fdb.blocks \subseteq Blocks /\ head \in Blocks /\ log \in Blocks /\ b \in Blocks
      /\ fdb.validated \subseteq fdb.blocks /\ fdb.trxs \subseteq fdb.blocks /\ fdb.trxs \subseteq Own
      /\ db.floor \in Nat /\ db.tip \in Blocks /\ Num[head] \in Nat /\ Num[b] \in Nat
  BY Types, Tree1 DEF Own
<1>7. /\ mode = "up" /\ job = Idle /\ Known /\ Placed /\ ClearInv
      /\ log \in Chain[head] /\ reversible = Chain[head] \ Chain[log]
      /\ \A c \in fdb.blocks : ~better(c, head)
      /\ WellFormed(fdb) /\ head \in fdb.blocks /\ Marked(fdb, head)
      /\ Chain[head] \ Chain[log] \subseteq fdb.blocks /\ db.floor <= Num[log]
      /\ Chain[head] \cap bad = {}
  BY <1>5 DEF Inv, Stored, Ready, IdleInv, Known, Placed
<1>8. b # Genesis
  BY <1>5, <1>6, NotGenesis
<1>9. /\ Chain[b] = Chain[head] \cup {b} /\ Num[b] = Num[head] + 1 /\ b \notin Chain[head]
      /\ head \in Chain[b] /\ head # b /\ log \in Chain[b] /\ b \in Chain[b] /\ Chain[head] \subseteq Blocks
      /\ \A c \in Chain[head] : Num[c] <= Num[head] /\ Num[c] \in Nat
  BY <1>5, <1>6, <1>7, <1>8, Tree1, ChainBasics
<1>10. \A c \in fdb.blocks : better(b, c)
  <2>1. better(b, head)
    BY <1>6, <1>9, Outranks
  <2> QED BY <1>6, <1>7, <2>1, RankFacts
<1>11. b \notin fdb.blocks /\ b \notin bad
  <2>1. b \notin fdb.blocks
    BY <1>6, <1>10, RankFacts
  <2> QED BY <2>1, ControllerAssumption DEF TypeOK
<1>12. /\ m.blocks = fdb.blocks /\ m.before = fdb.before /\ m.in_chain = fdb.in_chain \cup {b}
       /\ m.validated = fdb.validated \cup {b} /\ m.trxs = fdb.trxs \cup {b} /\ m \in ForkDbs
  BY <1>1, <1>6 DEF ForkDbs
<1>13. WellFormed(m)
  BY <1>7, <1>12, SameIndex
<1>14. Marked(insert(m, b), b)
  <2>1. insert(m, b).blocks = m.blocks \cup {b} /\ insert(m, b).in_chain = m.in_chain
    BY <1>5, <1>6, <1>7, <1>8, <1>11, <1>12, <1>13, Inserted
  <2> QED BY <1>7, <1>8, <1>9, <1>11, <1>12, <2>1 DEF Marked
<1> DEFINE o == oldest(g)
<1>15. /\ WellFormed(g) /\ g.blocks = m.blocks \cup {b} /\ IsBest(g, g.head)
       /\ WellFormed(f) /\ f.blocks \subseteq g.blocks
       /\ f.in_chain = m.in_chain \cap f.blocks
       /\ m.validated \subseteq g.blocks => f.validated = m.validated \cap f.blocks
       /\ m.trxs \subseteq g.blocks => f.trxs = m.trxs \cap f.blocks
       /\ f.blocks # {} => IsBest(f, f.head)
       /\ S = {} => f = g
       /\ S # {} => S = {o} /\ f.blocks = {c \in g.blocks : c # o /\ o \in Chain[c]}
       /\ o \in Chain[head] /\ o \in m.blocks /\ Num[o] <= Num[log] + 1 /\ S \in {{}, {o}}
  BY <1>2, <1>3, <1>4, <1>5, <1>6, <1>7, <1>8, <1>9, <1>11, <1>12, <1>13, <1>14, Added
<1> HIDE DEF o
<1>16. b \in f.blocks
  BY <1>9, <1>11, <1>12, <1>15
<1>17. f.head = b /\ IsBest(f, b)
  <2>1. IsBest(f, f.head) /\ f.head \in f.blocks /\ ~better(b, f.head)
    BY <1>15, <1>16 DEF IsBest
  <2> QED BY <1>10, <1>12, <1>15, <2>1
<1>18. /\ links_log(S) /\ log_after(S) \in Chain[head]
       /\ Chain[log] \subseteq Chain[log_after(S)]
       /\ S # {} => o \in Chain[log_after(S)]
       /\ reversible_after(S) = Chain[head] \ Chain[log_after(S)]
       /\ floor_after(S) \in Nat /\ floor_after(S) <= Num[log_after(S)]
  BY <1>6, <1>7, <1>15, Committed
<1>19. log_after(S) \in Blocks /\ b \notin Chain[log_after(S)]
  BY <1>6, <1>9, <1>18, ChainBasics
<1>20. unique_num(b)
  BY <1>6, <1>7, <1>9 DEF unique_num
<1>21. add_fault(S, f) = "none"
  BY <1>6, <1>17, <1>18, Tree1 DEF add_fault
<1>22. fault' = "none"
  BY <1>5, <1>17, <1>20, <1>21
<1>23. Chain[b] \ Chain[log_after(S)] \subseteq f.blocks
  <2>1. PICK l : l = log_after(S)
    OBVIOUS
  <2>2. ASSUME NEW c \in Chain[head], c \notin Chain[l] PROVE c \in f.blocks
    <3>1. c \in g.blocks /\ (S # {} => o \in Chain[l]) /\ l \in Blocks
      BY <1>7, <1>12, <1>15, <1>18, <1>19, <2>1, <2>2
    <3>2. CASE S = {}
      BY <1>15, <3>1, <3>2
    <3>3. CASE S # {}
      <4>1. c # o /\ o \in Chain[c]
        BY <1>6, <1>15, <2>2, <3>1, <3>3, AboveLog
      <4> QED BY <1>15, <3>1, <3>3, <4>1
    <3> QED BY <3>2, <3>3
  <2> QED BY <1>9, <1>16, <2>1, <2>2
<1>24. Known'
  BY <1>5, <1>15, <1>17 DEF Known, IsBest
<1>25. Marked(f, b)
  BY <1>7, <1>8, <1>9, <1>11, <1>12, <1>15, <1>16 DEF Marked
<1>26. db' \in [tip : Blocks, floor : Nat] /\ db'.tip = b /\ db'.floor = floor_after(S)
  BY <1>5, <1>6, <1>18
<1>27. Placed'
  BY <1>5, <1>7, <1>9, <1>11, <1>16, <1>17, <1>18, <1>23, <1>25, <1>26 DEF Placed
<1>28. log' \in Chain[head'] /\ reversible' = Chain[head'] \ Chain[log']
  BY <1>5, <1>9, <1>17, <1>18, <1>19
<1>29. ClearInv'
  <2>1. ChainTxs(b) = ChainTxs(head) \cup TxsOf[b]
    BY <1>5, <1>6, <1>8, TxsAbove
  <2>2. pending' = Closed /\ pending'.trxs = {}
    BY <1>5 DEF Closed
  <2>3. ChainTxs(head)' = ChainTxs(b)
    BY <1>5, <1>17 DEF ChainTxs
  <2> QED BY <1>5, <1>7, <2>1, <2>2, <2>3 DEF ClearInv
<1>30. \A c \in fdb'.blocks : ~better(c, head')
  BY <1>5, <1>17 DEF IsBest
<1>31. First(fdb', head') /\ fdb'.head = head'
  BY <1>5, <1>17 DEF First, IsBest
<1>32. Inv'
  BY <1>5, <1>7, <1>24, <1>27, <1>28, <1>29, <1>30, <1>31, IdleAgain
<1>33. TypeOK'
  <2>1. /\ f.trxs \subseteq Own /\ f.in_chain \subseteq f.blocks /\ f.validated \subseteq f.blocks
        /\ f.trxs \subseteq f.blocks /\ f \in ForkDbs
    BY <1>6, <1>12, <1>15 DEF WellFormed
  <2>2. fdb' \in [blocks : SUBSET Blocks, before : SUBSET (Blocks \X Blocks),
                  head : Blocks \cup {NoBlock}, in_chain : SUBSET Blocks,
                  validated : SUBSET Blocks, trxs : SUBSET Own]
    BY <1>5, <2>1, ForkDbType
  <2>3. pending' \in [open : BOOLEAN, trxs : SUBSET Txs]
    BY <1>5 DEF Closed
  <2>4. reversible' \subseteq Blocks /\ head' \in Blocks /\ log' \in Blocks
    BY <1>5, <1>6, <1>9, <1>17, <1>18, <1>19
  <2> QED BY <1>5, <1>26, <2>1, <2>2, <2>3, <2>4 DEF TypeOK
<1> QED
  BY <1>22, <1>32, <1>33

-------------------------------------------------------------------------------
(* The end of the process, and its start. *)

LEMMA ShutdownStep ==
  ASSUME TypeOK, Inv, shutdown
  PROVE  TypeOK' /\ Inv' /\ fault' = "none"
<1>1. PICK o : o = oldest(fdb)
  OBVIOUS
<1>2. PICK S : S = IF Num[o] <= Lib[fdb.head] THEN {o} ELSE {}
  OBVIOUS
<1>3. /\ Ready /\ left.restarts > 0
      /\ fault' = (IF links_log(S) THEN "none" ELSE "log")
      /\ log' = log_after(S) /\ reversible' = reversible_after(S)
      /\ db' = [db EXCEPT !.floor = floor_after(S)]
      /\ fdb' = [fdb EXCEPT !.trxs = {}]
      /\ pending' = Closed /\ unapplied' = {} /\ mode' = "down" /\ was' = head
      /\ left' = [left EXCEPT !.restarts = @ - 1]
      /\ UNCHANGED <<head, job, bad, made>>
  BY <1>1, <1>2 DEF shutdown
<1>4. /\ fdb \in ForkDbs /\ fdb.blocks \subseteq Blocks /\ head \in Blocks /\ log \in Blocks
      /\ fdb.validated \subseteq fdb.blocks /\ fdb.in_chain \subseteq fdb.blocks
      /\ db.floor \in Nat /\ db.tip \in Blocks
  BY Types
<1>5. /\ job = Idle /\ Known /\ Placed /\ WellFormed(fdb) /\ head \in fdb.blocks /\ Marked(fdb, head)
      /\ log \in Chain[head] /\ reversible = Chain[head] \ Chain[log]
      /\ Chain[head] \ Chain[log] \subseteq fdb.blocks /\ db.floor <= Num[log] /\ db.tip = head
      /\ \A b \in fdb.blocks : ~better(b, head)
      /\ head \in Chain[head] /\ mode = "up" /\ Chain[head] \cap bad = {}
  BY <1>3, <1>4, ChainBasics DEF Inv, Stored, Ready, IdleInv, Known, Placed
<1>6. o \in Chain[head] /\ o \in fdb.blocks /\ \A c \in fdb.blocks : Num[o] <= Num[c]
  BY <1>1, <1>5, OldestIs, OldestOnChain
<1>7. Num[o] <= Num[log] + 1
  BY <1>4, <1>5, <1>6, LowEnough
<1>8. /\ links_log(S) /\ log_after(S) \in Chain[head] /\ Chain[log] \subseteq Chain[log_after(S)]
      /\ reversible_after(S) = Chain[head] \ Chain[log_after(S)]
      /\ floor_after(S) \in Nat /\ floor_after(S) <= Num[log_after(S)]
  <2>1. S \in {{}, {o}}
    BY <1>2
  <2> QED BY <1>4, <1>5, <1>6, <1>7, <2>1, Committed
<1>9. log' \in Blocks /\ reversible' \subseteq Blocks
  BY <1>3, <1>4, <1>8, ChainBasics
<1>10. /\ fdb'.blocks = fdb.blocks /\ fdb'.before = fdb.before /\ fdb'.head = fdb.head
       /\ fdb'.in_chain = fdb.in_chain /\ fdb'.validated = fdb.validated /\ fdb'.trxs = {}
       /\ fdb' \in ForkDbs
  BY <1>3, <1>4 DEF ForkDbs
<1>11. db' \in [tip : Blocks, floor : Nat] /\ db'.tip = head /\ db'.floor = floor_after(S)
  <2>1. db \in [tip : Blocks, floor : Nat]
    BY DEF TypeOK
  <2> QED BY <1>3, <1>5, <1>8, <2>1
<1>12. /\ left' \in [restarts : 0..MaxRestarts, crashes : 0..MaxCrashes]
       /\ left'.restarts = left.restarts - 1 /\ left'.restarts < MaxRestarts
       /\ left.restarts \in 0..MaxRestarts
  <2>1. left \in [restarts : 0..MaxRestarts, crashes : 0..MaxCrashes] /\ MaxRestarts \in Nat
    BY ControllerAssumption DEF TypeOK
  <2>2. left.restarts \in 0..MaxRestarts
    BY <2>1
  <2>3. left.restarts - 1 \in 0..MaxRestarts /\ left.restarts - 1 < MaxRestarts
    BY <1>3, <2>1, <2>2
  <2> QED BY <1>3, <2>1, <2>2, <2>3
<1>13. TypeOK'
  <2>1. fdb' \in [blocks : SUBSET Blocks, before : SUBSET (Blocks \X Blocks),
                  head : Blocks \cup {NoBlock}, in_chain : SUBSET Blocks,
                  validated : SUBSET Blocks, trxs : SUBSET Own]
    BY <1>10, ForkDbType
  <2>2. pending' \in [open : BOOLEAN, trxs : SUBSET Txs]
    BY <1>3 DEF Closed
  <2> QED BY <1>3, <1>9, <1>10, <1>11, <1>12, <2>1, <2>2 DEF TypeOK
<1>14. Known'
  <2>1. WellFormed(fdb')
    BY <1>5, <1>10, SameIndex
  <2> QED BY <1>5, <1>10, <2>1 DEF Known
<1>15. Marked(fdb', head')
  BY <1>3, <1>5, <1>10 DEF Marked
<1>16. Placed'
  BY <1>3, <1>5, <1>8, <1>10, <1>11, <1>15 DEF Placed
<1>17. job' = Idle /\ job'.phase = "idle"
  BY <1>3, <1>5 DEF Idle
<1>18. Stored' /\ IdleInv' /\ BusyInv' /\ ExtendInv' /\ SwitchInv' /\ DownInv' /\ ReplayInv'
  BY <1>3, <1>5, <1>8, <1>10, <1>12, <1>17
     DEF Stored, IdleInv, BusyInv, ExtendInv, SwitchInv, DownInv, ReplayInv
<1>19. OrderInv'
  <2>1. Unshuffled' => Unshuffled
    <3>1. MaxRestarts \in Nat /\ left.restarts \in Nat
      BY <1>12, ControllerAssumption
    <3>2. left'.restarts # MaxRestarts
      BY <1>12, <3>1
    <3>3. left'.restarts = MaxRestarts - 1 => left.restarts = MaxRestarts
      BY <1>12, <3>1
    <3> QED BY <3>2, <3>3 DEF Unshuffled
  <2>2. First(fdb, head) => First(fdb', head')
    BY <1>3, <1>10 DEF First
  <2> QED BY <1>3, <1>5, <1>10, <1>17, <2>1, <2>2 DEF Inv, OrderInv
<1>20. ClearInv'
  BY <1>3 DEF ClearInv, Closed
<1> QED
  BY <1>3, <1>8, <1>13, <1>14, <1>16, <1>18, <1>19, <1>20 DEF Inv

(* Another order of the blocks of each number. *)
LEMMA ReorderedIs ==
  ASSUME NEW f, WellFormed(f), NEW r \in Reordered(f.before)
  PROVE  /\ WellFormed([f EXCEPT !.before = r])
         /\ [f EXCEPT !.before = r].blocks = f.blocks /\ [f EXCEPT !.before = r].head = f.head
         /\ [f EXCEPT !.before = r].in_chain = f.in_chain
         /\ [f EXCEPT !.before = r].validated = f.validated /\ [f EXCEPT !.before = r].trxs = f.trxs
<1>1. f \in ForkDbs /\ Ordered(f) /\ Rooted(f) /\ f.blocks \subseteq Blocks
      /\ f.before \subseteq f.blocks \X f.blocks
  BY DEF WellFormed, ForkDbs, Ordered
<1>2. PICK F \in SUBSET f.before : r = (f.before \ F) \cup {<<p[2], p[1]>> : p \in F}
  BY DEF Reordered
<1>3. \A p, q \in r : p[2] = q[1] => <<p[1], q[2]>> \in r
  BY DEF Reordered
<1>4. \A a, c : <<a, c>> \in {<<p[2], p[1]>> : p \in F} <=> <<c, a>> \in F
  <2>1. \A p \in F : p = <<p[1], p[2]>>
    BY <1>1, <1>2
  <2> QED BY <2>1
<1>5. \A a, c : <<a, c>> \in r <=> (<<a, c>> \in f.before /\ <<a, c>> \notin F) \/ <<c, a>> \in F
  BY <1>2, <1>4
<1>6. r \subseteq f.blocks \X f.blocks
  BY <1>1, <1>2
<1>7. PICK g : g = [f EXCEPT !.before = r]
  OBVIOUS
<1>8. /\ g.blocks = f.blocks /\ g.before = r /\ g.in_chain = f.in_chain /\ g.head = f.head
      /\ g.validated = f.validated /\ g.trxs = f.trxs /\ g \in ForkDbs
  BY <1>1, <1>6, <1>7 DEF ForkDbs
<1>9. \A a, c \in f.blocks : <<a, c>> \in F => <<a, c>> \in f.before
  BY <1>2
<1>10. Ordered(g)
  <2>1. \A a, c \in g.blocks : a # c /\ Num[a] = Num[c] => <<a, c>> \in g.before \/ <<c, a>> \in g.before
    BY <1>1, <1>5, <1>8 DEF Ordered
  <2>2. \A a, c \in g.blocks : <<a, c>> \in g.before => <<c, a>> \notin g.before /\ Num[a] = Num[c]
    <3>1. SUFFICES ASSUME NEW a \in f.blocks, NEW c \in f.blocks, <<a, c>> \in r
                   PROVE  <<c, a>> \notin r /\ Num[a] = Num[c]
      BY <1>8
    <3>2. CASE <<a, c>> \in f.before /\ <<a, c>> \notin F
      BY <1>1, <1>5, <1>9, <3>2 DEF Ordered
    <3>3. CASE <<c, a>> \in F
      BY <1>1, <1>5, <1>9, <3>3 DEF Ordered
    <3> QED BY <1>5, <3>1, <3>2, <3>3
  <2>3. \A a, c, d \in g.blocks : <<a, c>> \in g.before /\ <<c, d>> \in g.before => <<a, d>> \in g.before
    <3>1. SUFFICES ASSUME NEW a, NEW c, NEW d, <<a, c>> \in r, <<c, d>> \in r PROVE <<a, d>> \in r
      BY <1>8
    <3>2. <<a, c>>[2] = <<c, d>>[1]
      OBVIOUS
    <3>3. <<(<<a, c>>[1]), (<<c, d>>[2])>> \in r
      BY <1>3, <3>1, <3>2
    <3> QED BY <3>3
  <2> QED BY <1>6, <1>8, <2>1, <2>2, <2>3 DEF Ordered
<1>11. Rooted(g)
  BY <1>1, <1>8 DEF Rooted
<1> QED
  BY <1>7, <1>8, <1>10, <1>11 DEF WellFormed

(* The head is what init finds in the reversible blocks or the log. *)
LEMMA Consistent ==
  ASSUME TypeOK, log \in Chain[head], reversible = Chain[head] \ Chain[log], db.tip = head,
         NEW h \in Blocks, Num[h] = Num[head]
  PROVE  consistent(h)
<1>1. head \in Blocks /\ log \in Blocks /\ head \in Chain[head] /\ Num[head] \in Nat
      /\ \A r \in Chain[head] : Num[r] <= Num[head]
  BY Types, ChainBasics
<1>2. CASE reversible = {}
  <2>1. head \in Chain[log]
    BY <1>1, <1>2
  <2>2. head = log
    BY <1>1, <2>1, ChainBasics, Tree1
  <2> QED BY <1>1, <1>2, <2>2 DEF consistent
<1>3. CASE reversible # {}
  <2>1. head \in reversible
    <3>1. SUFFICES ASSUME head \in Chain[log] PROVE FALSE
      BY <1>1
    <3>2. Chain[head] \subseteq Chain[log]
      BY <1>1, <3>1, ChainBasics
    <3> QED BY <1>3, <3>2
  <2> QED BY <1>1, <1>3, <2>1 DEF consistent
<1> QED
  BY <1>2, <1>3

LEMMA StartupStep ==
  ASSUME TypeOK, Inv, startup
  PROVE  /\ TypeOK'
         /\ \/ Inv' /\ fault' = "none" /\ head' = was /\ db'.tip = was
            \/ fault' = "stray" /\ left'.restarts + 2 <= MaxRestarts
<1>1. /\ mode = "down" /\ head' = fdb.head /\ mode' = "up"
      /\ fault' = (IF ~consistent(fdb.head) THEN "startup"
                   ELSE IF fdb.head # head THEN "stray" ELSE "none")
      /\ db' = [db EXCEPT !.tip = CHOOSE b \in Chain[@] : Num[b] = Min(Num[fdb.head], Num[@])]
      /\ UNCHANGED <<reversible, log, pending, unapplied, job, bad, made, was, left>>
  BY DEF startup, disk, world
<1>2. PICK r \in Reordered(fdb.before) : fdb' = [fdb EXCEPT !.before = r]
  BY DEF startup
<1>3. /\ fdb \in ForkDbs /\ fdb.blocks \subseteq Blocks /\ head \in Blocks /\ log \in Blocks
      /\ fdb.validated \subseteq fdb.blocks /\ fdb.in_chain \subseteq fdb.blocks
      /\ fdb.trxs \subseteq fdb.blocks /\ fdb.trxs \subseteq Own
      /\ db.floor \in Nat /\ db.tip \in Blocks /\ db \in [tip : Blocks, floor : Nat]
  BY Types DEF TypeOK
<1>4. /\ job = Idle /\ job.phase = "idle" /\ Known /\ Placed /\ pending = Closed /\ was = head
      /\ WellFormed(fdb) /\ head \in fdb.blocks /\ Marked(fdb, head) /\ ClearInv
      /\ log \in Chain[head] /\ reversible = Chain[head] \ Chain[log]
      /\ Chain[head] \ Chain[log] \subseteq fdb.blocks /\ db.floor <= Num[log] /\ db.tip = head
      /\ Chain[head] \cap bad = {} /\ left.restarts < MaxRestarts
      /\ \A b \in fdb.blocks : ~better(b, head)
      /\ fdb.head \in fdb.blocks /\ \A b \in fdb.blocks : ~better(b, fdb.head)
  BY <1>1 DEF Inv, Stored, IdleInv, Known, Placed, DownInv, Idle
<1>5. fdb.head \in Blocks /\ Num[fdb.head] = Num[head] /\ Num[head] \in Nat
  BY <1>3, <1>4, RankFacts, Tree1
<1>6. consistent(fdb.head)
  BY <1>4, <1>5, Consistent
<1>7. /\ WellFormed(fdb') /\ fdb'.blocks = fdb.blocks /\ fdb'.head = fdb.head
      /\ fdb'.in_chain = fdb.in_chain /\ fdb'.validated = fdb.validated /\ fdb'.trxs = fdb.trxs
  <2>1. PICK f : f = fdb
    OBVIOUS
  <2>2. WellFormed(f) /\ r \in Reordered(f.before) /\ fdb' = [f EXCEPT !.before = r]
    BY <1>2, <1>4, <2>1
  <2> QED BY <2>1, <2>2, ReorderedIs
<1>8. db' = [db EXCEPT !.tip = head]
  <2>1. Min(Num[fdb.head], Num[db.tip]) = Num[head]
    BY <1>4, <1>5 DEF Min
  <2>2. PICK t : t = CHOOSE b \in Chain[db.tip] : Num[b] = Min(Num[fdb.head], Num[db.tip])
    OBVIOUS
  <2>3. t \in Chain[head] /\ Num[t] = Num[head]
    <3>1. head \in Chain[head]
      BY <1>3, ChainBasics
    <3> QED BY <1>4, <2>1, <2>2, <3>1
  <2>4. t = head
    BY <1>3, <2>3, ChainBasics
  <2>5. db' = [db EXCEPT !.tip = t]
    BY <1>1, <2>2
  <2> QED BY <2>4, <2>5
<1>9. db' \in [tip : Blocks, floor : Nat] /\ db'.tip = head /\ db'.floor = db.floor
  BY <1>3, <1>8
<1>10. TypeOK'
  <2>1. fdb' \in [blocks : SUBSET Blocks, before : SUBSET (Blocks \X Blocks),
                  head : Blocks \cup {NoBlock}, in_chain : SUBSET Blocks,
                  validated : SUBSET Blocks, trxs : SUBSET Own]
    BY <1>3, <1>7, ForkDbType DEF WellFormed
  <2> QED BY <1>1, <1>3, <1>5, <1>7, <1>9, <2>1 DEF TypeOK
<1>11. CASE fdb.head = head
  <2>1. fault' = "none" /\ head' = head
    BY <1>1, <1>6, <1>11
  <2>2. Known'
    BY <1>4, <1>7 DEF Known
  <2>3. Marked(fdb', head')
    BY <1>4, <1>7, <2>1 DEF Marked
  <2>4. Placed'
    BY <1>1, <1>4, <1>7, <1>9, <2>1, <2>3 DEF Placed
  <2>5. ClearInv'
    <3>1. ChainTxs(head)' = ChainTxs(head)
      BY <2>1 DEF ChainTxs
    <3> QED BY <1>1, <1>4, <3>1 DEF ClearInv
  <2>6. ~Unshuffled'
    BY <1>1, <1>4, ControllerAssumption DEF Unshuffled, TypeOK
  <2>7. Inv'
    BY <1>1, <1>4, <1>7, <2>1, <2>2, <2>4, <2>5, <2>6, IdleAgain
  <2> QED BY <1>4, <1>9, <1>10, <2>1, <2>7
<1>12. CASE fdb.head # head
  <2>1. fault' = "stray"
    BY <1>1, <1>6, <1>12
  <2>2. ~Unshuffled
    BY <1>4, <1>12 DEF Inv, OrderInv
  <2>3. left.restarts \in 0..MaxRestarts /\ MaxRestarts \in Nat
    BY ControllerAssumption DEF TypeOK
  <2>4. left.restarts + 2 <= MaxRestarts
    BY <1>1, <1>4, <2>2, <2>3 DEF Unshuffled
  <2> QED BY <1>1, <1>10, <2>1, <2>4
<1> QED
  BY <1>11, <1>12

(* Nothing is missing between the log and a head above it. *)
LEMMA NoGap ==
  ASSUME NEW l \in Blocks, NEW h \in Blocks, NEW r \in Chain[h] \ Chain[l], l \in Chain[h],
         NEW n \in Num[l]+1..Num[r]
  PROVE  \E q \in Chain[h] \ Chain[l] : Num[q] = n
<1>1. /\ r \in Blocks /\ Num[r] \in Nat /\ Num[l] \in Nat /\ n \in Nat /\ Num[l] < n /\ n <= Num[r]
      /\ 1 <= n
  BY ChainBasics, Tree1
<1>2. PICK q \in Chain[r] : Num[q] = n
  BY <1>1, ChainAt
<1>3. q \in Chain[h]
  BY <1>2, ChainBasics
<1>4. q \notin Chain[l]
  BY <1>1, <1>2, ChainBasics
<1> QED
  BY <1>2, <1>3, <1>4

(* The fork database that a replay starts from. *)
LEMMA GenesisKnown ==
  /\ WellFormed(GenesisForkDb) /\ GenesisForkDb.blocks = {Genesis} /\ GenesisForkDb.head = Genesis
  /\ GenesisForkDb.in_chain = {} /\ GenesisForkDb.validated = {} /\ GenesisForkDb.trxs = {}
  /\ GenesisForkDb.before = {} /\ ~better(Genesis, Genesis) /\ Marked(GenesisForkDb, Genesis)
<1>1. /\ GenesisForkDb.blocks = {Genesis} /\ GenesisForkDb.head = Genesis
      /\ GenesisForkDb.in_chain = {} /\ GenesisForkDb.validated = {} /\ GenesisForkDb.trxs = {}
      /\ GenesisForkDb.before = {} /\ GenesisForkDb \in ForkDbs
  BY Tree1 DEF GenesisForkDb, ForkDbs
<1>2. Chain[Genesis] = {Genesis} /\ Genesis \in Blocks
  BY Tree1
<1>3. WellFormed(GenesisForkDb)
  BY <1>1, <1>2 DEF WellFormed, Ordered, Rooted
<1>4. ~better(Genesis, Genesis)
  BY <1>2, RankFacts
<1> QED
  BY <1>1, <1>2, <1>3, <1>4 DEF Marked

LEMMA CrashStep ==
  ASSUME TypeOK, Inv, crash
  PROVE  TypeOK' /\ Inv' /\ fault' = fault
<1>1. PICK w : w = IF mode = "up" THEN head ELSE was
  OBVIOUS
<1>2. PICK gapless : gapless = {r \in reversible : \A n \in Num[log]+1..Num[r] : \E q \in reversible : Num[q] = n}
  OBVIOUS
<1>3. /\ mode \in {"up", "replay"} /\ left.crashes > 0
      /\ reversible' = gapless
      /\ fdb' = GenesisForkDb /\ head' = Genesis
      /\ db' = [tip |-> Genesis, floor |-> 1]
      /\ pending' = Closed /\ unapplied' = {} /\ job' = Idle
      /\ mode' = "replay" /\ was' = w
      /\ left' = [left EXCEPT !.crashes = @ - 1]
      /\ UNCHANGED <<log, fault, bad, made>>
  BY <1>1, <1>2 DEF crash
<1>4. w \in Blocks /\ log \in Blocks
  BY <1>1, Types
<1>5. log \in Chain[w] /\ reversible = Chain[w] \ Chain[log] /\ Chain[w] \cap bad = {}
  BY <1>1, <1>3 DEF Inv, Stored, Placed, ReplayInv
<1>6. gapless = reversible
  BY <1>2, <1>4, <1>5, NoGap
<1>7. Genesis \in Chain[w] /\ Genesis \in Chain[log] /\ Num[Genesis] = 1 /\ Genesis \in Blocks
      /\ Chain[Genesis] = {Genesis} /\ 1 <= Num[log] /\ Num[log] \in Nat
  BY <1>4, ChainBasics, Tree1
<1>8. left'.restarts = left.restarts /\ left' \in [restarts : 0..MaxRestarts, crashes : 0..MaxCrashes]
  <2>1. left \in [restarts : 0..MaxRestarts, crashes : 0..MaxCrashes] /\ MaxCrashes \in Nat
    BY ControllerAssumption DEF TypeOK
  <2>2. left.crashes - 1 \in 0..MaxCrashes
    BY <1>3, <2>1
  <2> QED BY <1>3, <2>1, <2>2
<1>9. TypeOK'
  <2>1. fdb' \in [blocks : SUBSET Blocks, before : SUBSET (Blocks \X Blocks),
                  head : Blocks \cup {NoBlock}, in_chain : SUBSET Blocks,
                  validated : SUBSET Blocks, trxs : SUBSET Own]
    BY <1>3, <1>7 DEF GenesisForkDb
  <2>2. pending' \in [open : BOOLEAN, trxs : SUBSET Txs]
    BY <1>3 DEF Closed
  <2>3. job' \in [phase : {"idle", "extend", "pop", "push", "unpop"},
                  new : Blocks \cup {NoBlock}, old : Blocks \cup {NoBlock},
                  first : SUBSET Blocks, second : SUBSET Blocks]
    BY <1>3 DEF Idle
  <2>4. db' \in [tip : Blocks, floor : Nat]
    BY <1>3, <1>7
  <2>5. fdb'.in_chain \cup fdb'.validated \cup fdb'.trxs \subseteq fdb'.blocks
    BY <1>3, GenesisKnown
  <2> QED BY <1>3, <1>4, <1>6, <1>7, <1>8, <2>1, <2>2, <2>3, <2>4, <2>5 DEF TypeOK
<1>10. Known' /\ \A b \in fdb'.blocks : ~better(b, head')
  BY <1>3, GenesisKnown DEF Known
<1>11. db'.tip = Genesis /\ db'.floor = 1 /\ job'.phase = "idle"
  BY <1>3 DEF Idle
<1>12. Placed'
  <2>1. Chain[head'] \ Chain[log'] = {}
    BY <1>3, <1>7
  <2>2. Chain[head'] \cap bad' = {}
    BY <1>3, <1>5, <1>7
  <2> QED BY <1>3, <1>7, <1>11, <2>1, <2>2, GenesisKnown DEF Placed
<1>13. Stored' /\ IdleInv' /\ BusyInv' /\ ExtendInv' /\ SwitchInv' /\ DownInv'
  BY <1>3, <1>10, <1>11 DEF Stored, IdleInv, BusyInv, ExtendInv, SwitchInv, DownInv
<1>14. ReplayInv'
  BY <1>3, <1>5, <1>6, <1>7, <1>11, GenesisKnown DEF ReplayInv
<1>15. OrderInv'
  BY <1>3, <1>11, GenesisKnown DEF OrderInv, First
<1>16. ClearInv'
  BY <1>3 DEF ClearInv, Closed
<1> QED
  BY <1>3, <1>9, <1>10, <1>12, <1>13, <1>14, <1>15, <1>16 DEF Inv

(* What a replay takes next is the block above the head on the chain of    *)
(* the head that the process ended with.                                   *)
LEMMA ToReplay ==
  ASSUME TypeOK, Inv, mode = "replay", NEW b \in to_replay
  PROVE  /\ b \in Chain[was] /\ b \in Blocks \ {Genesis} /\ Parent[b] = head /\ Num[log] > 1
         /\ b \notin bad
<1>1. /\ head \in Blocks /\ log \in Blocks /\ was \in Blocks
      /\ head \in Chain[was] /\ log \in Chain[was] /\ reversible = Chain[was] \ Chain[log]
      /\ Chain[was] \cap bad = {}
  BY Types DEF Inv, ReplayInv
<1>2. Num[head] \in Nat /\ Num[log] \in Nat /\ 1 <= Num[head] /\ Chain[log] \subseteq Chain[was]
  BY <1>1, ChainBasics, Tree1
<1>3. b \in Chain[was] /\ Num[b] = Num[head] + 1 /\ Num[log] > 1
  BY <1>1, <1>2 DEF to_replay
<1>4. b \in Blocks /\ b # Genesis
  BY <1>1, <1>2, <1>3, ChainBasics, Tree1
<1>5. Parent[b] \in Blocks /\ Num[Parent[b]] = Num[head] /\ Parent[b] \in Chain[b]
  BY <1>2, <1>3, <1>4, Tree1, ChainBasics
<1>6. Parent[b] \in Chain[was]
  BY <1>1, <1>3, <1>5, ChainBasics
<1>7. Parent[b] \in Chain[head]
  BY <1>1, <1>2, <1>5, <1>6, ChainLinear
<1>8. Parent[b] = head
  BY <1>1, <1>5, <1>7, ChainBasics
<1> QED
  BY <1>1, <1>3, <1>4, <1>8

LEMMA ReplayBlockDef ==
  ASSUME NEW b, replay_block(b)
  PROVE  LET g == insert(fdb, b)
             f == pruned(g)
             S == irreversible(g)
         IN /\ mode = "replay" /\ b \in to_replay
            /\ fault' = (IF Parent[b] # head \/ ~applies(b) THEN "startup"
                         ELSE IF add_fault(S, f) # "none" THEN add_fault(S, f)
                         ELSE IF f.head # b THEN "startup" ELSE "none")
            /\ fdb' = accepted(f, b) /\ head' = b
            /\ db' = [tip |-> b, floor |-> floor_after(S)]
            /\ log' = log_after(S) /\ reversible' = reversible_after(S)
            /\ UNCHANGED <<pending, unapplied, job, mode, bad, made, was, left>>
BY DEF replay_block, world

LEMMA ReplayBlockStep ==
  ASSUME TypeOK, Inv, NEW b \in Blocks, replay_block(b)
  PROVE  TypeOK' /\ Inv' /\ fault' = "none"
<1>1. PICK g : g = insert(fdb, b)
  OBVIOUS
<1>2. PICK f : f = pruned(g)
  OBVIOUS
<1>3. PICK S : S = irreversible(g)
  OBVIOUS
<1>4. /\ mode = "replay" /\ b \in to_replay
      /\ fault' = (IF Parent[b] # head \/ ~applies(b) THEN "startup"
                   ELSE IF add_fault(S, f) # "none" THEN add_fault(S, f)
                   ELSE IF f.head # b THEN "startup" ELSE "none")
      /\ fdb' = accepted(f, b) /\ head' = b
      /\ db' = [tip |-> b, floor |-> floor_after(S)]
      /\ log' = log_after(S) /\ reversible' = reversible_after(S)
      /\ UNCHANGED <<pending, unapplied, job, mode, bad, made, was, left>>
  BY <1>1, <1>2, <1>3, ReplayBlockDef
<1>5. /\ b \in Chain[was] /\ b # Genesis /\ Parent[b] = head /\ Num[log] > 1 /\ b \notin bad
  BY <1>4, ToReplay
<1>6. /\ fdb \in ForkDbs /\ fdb.blocks \subseteq Blocks /\ head \in Blocks /\ log \in Blocks /\ was \in Blocks
      /\ fdb.validated \subseteq fdb.blocks /\ fdb.trxs \subseteq fdb.blocks /\ fdb.trxs \subseteq Own
      /\ db.floor \in Nat /\ db.tip \in Blocks /\ Num[head] \in Nat /\ Num[b] \in Nat /\ Num[log] \in Nat
  BY Types, Tree1
<1>7. /\ job = Idle /\ job.phase = "idle" /\ pending = Closed /\ unapplied = {} /\ ClearInv
      /\ head \in Chain[was] /\ log \in Chain[was] /\ reversible = Chain[was] \ Chain[log]
      /\ Chain[was] \cap bad = {} /\ fdb.blocks \subseteq Chain[head] /\ db.floor <= Num[head]
      /\ WellFormed(fdb) /\ head \in fdb.blocks /\ Marked(fdb, head) /\ db.tip = head
      /\ Chain[head] \ Chain[log] \subseteq fdb.blocks /\ db.floor <= Num[log]
  BY <1>4 DEF Inv, ReplayInv, Known, Placed, Idle
<1>8. /\ Chain[b] = Chain[head] \cup {b} /\ Num[b] = Num[head] + 1 /\ b \notin Chain[head]
      /\ head \in Chain[b] /\ head \in Chain[head] /\ b \in Chain[b]
  BY <1>5, <1>6, Tree1, ChainBasics
<1>9. b \notin fdb.blocks
  BY <1>7, <1>8
<1>10. Marked(insert(fdb, b), head)
  <2>1. insert(fdb, b).blocks = fdb.blocks \cup {b} /\ insert(fdb, b).in_chain = fdb.in_chain
    BY <1>5, <1>7, <1>9, Inserted
  <2> QED BY <1>7, <1>8, <2>1 DEF Marked
<1> DEFINE o == oldest(g)
<1>11. /\ WellFormed(g) /\ g.blocks = fdb.blocks \cup {b} /\ IsBest(g, g.head)
       /\ WellFormed(f) /\ f.blocks \subseteq g.blocks
       /\ f.in_chain = fdb.in_chain \cap f.blocks
       /\ fdb.validated \subseteq g.blocks => f.validated = fdb.validated \cap f.blocks
       /\ fdb.trxs \subseteq g.blocks => f.trxs = fdb.trxs \cap f.blocks
       /\ f.blocks # {} => IsBest(f, f.head)
       /\ S = {} => f = g
       /\ S # {} => S = {o} /\ f.blocks = {c \in g.blocks : c # o /\ o \in Chain[c]}
       /\ o \in Chain[head] /\ o \in fdb.blocks /\ Num[o] <= Num[log] + 1 /\ S \in {{}, {o}}
  BY <1>1, <1>2, <1>3, <1>5, <1>6, <1>7, <1>8, <1>9, <1>10, Added
<1> HIDE DEF o
<1>12. b \in f.blocks
  BY <1>8, <1>9, <1>11
<1>13. f.head = b /\ IsBest(f, b)
  <2>1. IsBest(f, f.head) /\ f.head \in f.blocks /\ ~better(b, f.head)
    BY <1>11, <1>12 DEF IsBest
  <2>2. f.head \in Chain[head] \cup {b}
    BY <1>7, <1>11, <2>1
  <2>3. ASSUME f.head # b PROVE FALSE
    <3>1. better(b, f.head)
      <4>1. f.head \in Chain[b] /\ f.head # b
        BY <1>8, <2>2, <2>3
      <4> QED BY <4>1, Outranks
    <3> QED BY <2>1, <3>1
  <2> QED BY <2>1, <2>3
<1>14. o \in Chain[was]
  BY <1>6, <1>7, <1>11, ChainBasics
<1>15. /\ links_log(S) /\ log_after(S) \in Chain[was]
       /\ Chain[log] \subseteq Chain[log_after(S)] /\ Num[log] <= Num[log_after(S)]
       /\ S # {} => o \in Chain[log_after(S)]
       /\ reversible_after(S) = Chain[was] \ Chain[log_after(S)]
       /\ floor_after(S) \in Nat /\ floor_after(S) <= Num[log_after(S)]
       /\ floor_after(S) <= Num[head]
  BY <1>6, <1>7, <1>11, <1>14, Committed
<1>16. log_after(S) \in Blocks /\ Num[log_after(S)] \in Nat
  BY <1>6, <1>15, ChainBasics, Tree1
<1>17. add_fault(S, f) = "none"
  BY <1>5, <1>13, <1>15, Tree1 DEF add_fault
<1>18. fault' = "none"
  BY <1>4, <1>5, <1>7, <1>13, <1>17 DEF applies
<1>19. Chain[b] \ Chain[log_after(S)] \subseteq f.blocks
  <2>1. PICK l : l = log_after(S)
    OBVIOUS
  <2>2. ASSUME NEW c \in Chain[head], c \notin Chain[l] PROVE c \in f.blocks
    <3>1. c \in g.blocks /\ (S # {} => o \in Chain[l]) /\ l \in Blocks
      BY <1>7, <1>11, <1>15, <1>16, <2>1, <2>2
    <3>2. CASE S = {}
      BY <1>11, <3>1, <3>2
    <3>3. CASE S # {}
      <4>1. c # o /\ o \in Chain[c]
        BY <1>6, <1>11, <2>2, <3>1, <3>3, AboveLog
      <4> QED BY <1>11, <3>1, <3>3, <4>1
    <3> QED BY <3>2, <3>3
  <2> QED BY <1>8, <1>12, <2>1, <2>2
<1>20. /\ fdb'.blocks = f.blocks /\ fdb'.before = f.before /\ fdb'.head = f.head
       /\ fdb'.trxs = f.trxs /\ fdb'.in_chain = f.in_chain \cup {b}
       /\ fdb'.validated \subseteq f.validated \cup {b} /\ fdb' \in ForkDbs
  <2>1. f \in ForkDbs
    BY <1>11 DEF WellFormed
  <2>2. PICK k : k = accepted(f, b)
    OBVIOUS
  <2>3. /\ k.blocks = f.blocks /\ k.before = f.before /\ k.head = f.head
        /\ k.trxs = f.trxs /\ k.in_chain = f.in_chain \cup {b}
        /\ k.validated \subseteq f.validated \cup {b} /\ k \in ForkDbs
    <3>1. b \in Blocks /\ (k = accepted(f, b) \/ k = mark_in_current_chain(f, b, TRUE))
      BY <2>2
    <3> QED BY <2>1, <3>1, MarkedIn
  <2>4. fdb' = k
    BY <1>4, <2>2
  <2> QED BY <2>3, <2>4
<1>21. Known' /\ \A c \in fdb'.blocks : ~better(c, head')
  <2>1. WellFormed(fdb')
    BY <1>11, <1>20, SameIndex
  <2> QED BY <1>4, <1>13, <1>20, <2>1 DEF Known, IsBest
<1>22. Marked(fdb', b)
  BY <1>5, <1>7, <1>8, <1>11, <1>12, <1>20 DEF Marked
<1>23. db' \in [tip : Blocks, floor : Nat] /\ db'.tip = b /\ db'.floor = floor_after(S)
  BY <1>4, <1>15
<1>24. Chain[b] \subseteq Chain[was]
  BY <1>5, <1>6, ChainBasics
<1>25. Placed'
  BY <1>4, <1>7, <1>12, <1>15, <1>19, <1>20, <1>22, <1>23, <1>24 DEF Placed
<1>26. Stored' /\ IdleInv' /\ BusyInv' /\ ExtendInv' /\ SwitchInv' /\ DownInv'
  BY <1>4, <1>7, <1>21 DEF Stored, IdleInv, BusyInv, ExtendInv, SwitchInv, DownInv
<1>27. ReplayInv'
  <2>1. fdb'.blocks \subseteq Chain[head']
    BY <1>4, <1>7, <1>8, <1>11, <1>20
  <2>2. floor_after(S) <= Num[b] /\ Num[log_after(S)] # 1
    BY <1>5, <1>6, <1>8, <1>15, <1>16
  <2> QED BY <1>4, <1>5, <1>7, <1>13, <1>15, <1>20, <1>23, <2>1, <2>2 DEF ReplayInv
<1>28. OrderInv'
  BY <1>4, <1>7, <1>13, <1>20 DEF OrderInv, First, IsBest
<1>29. ClearInv'
  BY <1>4, <1>7 DEF ClearInv, Closed
<1>30. TypeOK'
  <2>1. fdb'.trxs \subseteq Own /\ fdb'.in_chain \cup fdb'.validated \cup fdb'.trxs \subseteq fdb'.blocks
    BY <1>6, <1>11, <1>12, <1>20
  <2>2. fdb' \in [blocks : SUBSET Blocks, before : SUBSET (Blocks \X Blocks),
                  head : Blocks \cup {NoBlock}, in_chain : SUBSET Blocks,
                  validated : SUBSET Blocks, trxs : SUBSET Own]
    BY <1>20, <2>1, ForkDbType
  <2>3. reversible' \subseteq Blocks
    BY <1>4, <1>6, <1>15, ChainBasics
  <2> QED BY <1>4, <1>16, <1>23, <2>1, <2>2, <2>3 DEF TypeOK
<1> QED
  BY <1>18, <1>21, <1>25, <1>26, <1>27, <1>28, <1>29, <1>30 DEF Inv

LEMMA ReplayDoneStep ==
  ASSUME TypeOK, Inv, replay_done
  PROVE  /\ TypeOK'
         /\ \/ Inv' /\ fault' = "none" /\ head' = was /\ db'.tip = was
            \/ fault' = "startup" /\ log' = Genesis
<1>1. /\ mode = "replay" /\ to_replay = {} /\ mode' = "up"
      /\ fault' = (IF consistent(head) THEN "none" ELSE "startup")
      /\ UNCHANGED <<fdb, head, db, reversible, log, pending, unapplied, job, bad, made, was, left>>
  BY DEF replay_done, disk, world
<1>2. TypeOK'
  BY <1>1 DEF TypeOK
<1>3. /\ head \in Blocks /\ log \in Blocks /\ was \in Blocks /\ Num[head] \in Nat /\ Num[log] \in Nat
      /\ 1 <= Num[log]
  BY Types, ChainBasics, Tree1
<1>4. /\ job = Idle /\ job.phase = "idle" /\ Known /\ Placed /\ ClearInv /\ IdleInv /\ OrderInv
      /\ head \in Chain[was] /\ log \in Chain[was] /\ reversible = Chain[was] \ Chain[log]
      /\ Num[log] = 1 => head = Genesis
      /\ db.tip = head
  BY <1>1 DEF Inv, ReplayInv, Placed, Idle
<1>5. log = Genesis => Num[log] = 1
  BY Tree1
<1>6. Num[log] = 1 => log = Genesis
  <2>1. Genesis \in Chain[log] /\ Num[Genesis] = 1
    BY <1>3, ChainBasics, Tree1
  <2> QED BY <1>3, <2>1, ChainBasics
<1>7. CASE head = was
  <2>1. consistent(head)
    BY <1>3, <1>4, <1>7, Consistent
  <2>2. fault' = "none" /\ head' = head
    BY <1>1, <2>1
  <2>3. Known' /\ Placed' /\ ClearInv' /\ IdleInv'
    <3>1. ChainTxs(head)' = ChainTxs(head)
      BY <1>1 DEF ChainTxs
    <3>2. Marked(fdb, head) <=> Marked(fdb', head')
      BY <1>1
    <3> QED BY <1>1, <1>4, <3>1, <3>2 DEF Known, Placed, ClearInv, IdleInv
  <2>4. Unshuffled' => First(fdb', head') /\ fdb'.head = head'
    BY <1>1, <1>4 DEF OrderInv, Unshuffled
  <2>5. Inv'
    BY <1>1, <1>4, <1>7, <2>2, <2>3, <2>4, IdleAgain DEF IdleInv
  <2> QED BY <1>1, <1>2, <1>4, <1>7, <2>2, <2>5
<1>8. CASE head # was /\ Num[log] # 1
  <2>1. PICK c \in Chain[was] \ {Genesis} : Parent[c] = head /\ Num[c] = Num[head] + 1
    BY <1>3, <1>4, <1>8, ChildAbove
  <2>2. c \in Blocks
    BY <1>3, <2>1, ChainBasics
  <2>3. CASE Num[head] < Num[log]
    <3>1. c \in Chain[log]
      BY <1>3, <1>4, <2>1, <2>3, ChainLinear
    <3> QED BY <1>1, <2>1, <2>3, <3>1 DEF to_replay
  <2>4. CASE ~(Num[head] < Num[log])
    <3>1. c \notin Chain[log]
      BY <1>3, <2>1, <2>4, ChainBasics
    <3>2. c \in reversible
      BY <1>4, <2>1, <3>1
    <3>3. Num[log] > 1
      BY <1>3, <1>8
    <3> QED BY <1>1, <2>1, <2>4, <3>2, <3>3 DEF to_replay
  <2> QED BY <2>3, <2>4
<1>9. CASE head # was /\ Num[log] = 1
  <2>1. log = Genesis /\ head = Genesis
    BY <1>4, <1>6, <1>9
  <2>2. was \in reversible
    <3>1. was \in Chain[was] /\ Chain[log] = {Genesis}
      BY <1>3, <2>1, ChainBasics, Tree1
    <3> QED BY <1>4, <1>9, <2>1, <3>1
  <2>3. Num[was] > Num[head] /\ Num[was] \in Nat
    BY <1>3, <1>4, <1>9, ChainBasics, Tree1
  <2>4. ~consistent(head)
    BY <1>3, <2>2, <2>3 DEF consistent
  <2> QED BY <1>1, <1>2, <2>1, <2>4
<1> QED
  BY <1>7, <1>8, <1>9

-------------------------------------------------------------------------------
(* The invariant holds initially, and every step keeps it. *)

LEMMA InitHolds ==
  ASSUME Init
  PROVE  IInv
<1>1. /\ fdb = GenesisForkDb /\ head = Genesis /\ db = [tip |-> Genesis, floor |-> 1]
      /\ reversible = {} /\ log = Genesis /\ pending = Closed /\ unapplied = {}
      /\ job = Idle /\ mode = "up" /\ fault = "none"
      /\ bad \in SUBSET Suspects /\ made = {} /\ was = Genesis
      /\ left = [restarts |-> MaxRestarts, crashes |-> MaxCrashes]
  BY DEF Init
<1>2. /\ Genesis \in Blocks /\ Chain[Genesis] = {Genesis} /\ Num[Genesis] = 1 /\ Genesis \notin bad
  BY <1>1, Tree1, ControllerAssumption
<1>3. TypeOK
  <2>1. fdb \in [blocks : SUBSET Blocks, before : SUBSET (Blocks \X Blocks),
                 head : Blocks \cup {NoBlock}, in_chain : SUBSET Blocks,
                 validated : SUBSET Blocks, trxs : SUBSET Own]
    BY <1>1, <1>2 DEF GenesisForkDb
  <2>2. fdb.in_chain \cup fdb.validated \cup fdb.trxs \subseteq fdb.blocks
    BY <1>1, GenesisKnown
  <2>3. pending \in [open : BOOLEAN, trxs : SUBSET Txs]
    BY <1>1 DEF Closed
  <2>4. job \in [phase : {"idle", "extend", "pop", "push", "unpop"},
                 new : Blocks \cup {NoBlock}, old : Blocks \cup {NoBlock},
                 first : SUBSET Blocks, second : SUBSET Blocks]
    BY <1>1 DEF Idle
  <2>5. left \in [restarts : 0..MaxRestarts, crashes : 0..MaxCrashes]
    BY <1>1, ControllerAssumption
  <2> QED BY <1>1, <1>2, <2>1, <2>2, <2>3, <2>4, <2>5 DEF TypeOK
<1>4. Known /\ \A b \in fdb.blocks : ~better(b, head)
  BY <1>1, GenesisKnown DEF Known
<1>5. Placed
  BY <1>1, <1>2, GenesisKnown DEF Placed
<1>6. job.phase = "idle"
  BY <1>1 DEF Idle
<1>7. Stored /\ IdleInv /\ BusyInv /\ ExtendInv /\ SwitchInv /\ DownInv /\ ReplayInv
  BY <1>1, <1>2, <1>4, <1>6 DEF Stored, IdleInv, BusyInv, ExtendInv, SwitchInv, DownInv, ReplayInv
<1>8. OrderInv
  BY <1>1, <1>6, GenesisKnown DEF OrderInv, First
<1>9. ClearInv
  BY <1>1 DEF ClearInv, Closed
<1> QED
  BY <1>1, <1>3, <1>4, <1>5, <1>7, <1>8, <1>9 DEF IInv, Inv, OnlyKnownFaults

(* Nothing happens after a fault. *)
LEMMA FaultEnds ==
  ASSUME Next
  PROVE  fault = "none"
BY DEF Next, Ready, Busy, start_block, abort_block, push_transaction, drop_unapplied_transaction,
       commit_block, push_block, extend, switch_pop, switch_apply, switch_unpop, switch_reapply,
       shutdown, startup, crash, replay_block, replay_done

LEMMA NextHolds ==
  ASSUME IInv, Next
  PROVE  IInv'
<1>1. TypeOK /\ Inv /\ fault = "none"
  BY FaultEnds DEF IInv
<1>2. ASSUME TypeOK', Inv', fault' = "none" PROVE IInv'
  BY <1>2 DEF IInv, OnlyKnownFaults
<1>3. CASE start_block
  BY <1>1, <1>2, <1>3, StartBlockStep
<1>4. CASE abort_block
  BY <1>1, <1>2, <1>4, AbortBlockStep
<1>5. ASSUME NEW t \in Txs, push_transaction(t) PROVE IInv'
  BY <1>1, <1>2, <1>5, PushTransactionStep
<1>6. ASSUME NEW t \in Txs, drop_unapplied_transaction(t) PROVE IInv'
  BY <1>1, <1>2, <1>6, DropStep
<1>7. ASSUME NEW b \in Own, commit_block(b) PROVE IInv'
  BY <1>1, <1>2, <1>7, CommitBlockStep
<1>8. ASSUME NEW b \in Blocks, push_block(b) PROVE IInv'
  BY <1>1, <1>2, <1>8, PushBlockStep DEF IInv, OnlyKnownFaults
<1>9. CASE extend
  BY <1>1, <1>2, <1>9, ExtendStep
<1>10. CASE switch_pop
  BY <1>1, <1>2, <1>10, SwitchPopStep DEF IInv, OnlyKnownFaults
<1>11. CASE switch_apply
  BY <1>1, <1>2, <1>11, SwitchApplyStep
<1>12. CASE switch_unpop
  BY <1>1, <1>2, <1>12, SwitchUnpopStep
<1>13. CASE switch_reapply
  BY <1>1, <1>2, <1>13, SwitchReapplyStep
<1>14. CASE shutdown
  BY <1>1, <1>2, <1>14, ShutdownStep
<1>15. CASE startup
  BY <1>1, <1>2, <1>15, StartupStep DEF IInv, OnlyKnownFaults
<1>16. CASE crash
  BY <1>1, <1>2, <1>16, CrashStep
<1>17. ASSUME NEW b \in Blocks, replay_block(b) PROVE IInv'
  BY <1>1, <1>2, <1>17, ReplayBlockStep
<1>18. CASE replay_done
  BY <1>1, <1>2, <1>18, ReplayDoneStep DEF IInv, OnlyKnownFaults
<1> QED
  BY <1>3, <1>4, <1>5, <1>6, <1>7, <1>8, <1>9, <1>10, <1>11, <1>12, <1>13, <1>14, <1>15, <1>16,
     <1>17, <1>18 DEF Next

LEMMA StutterHolds ==
  ASSUME IInv, UNCHANGED vars
  PROVE  IInv'
BY DEF IInv, OnlyKnownFaults, TypeOK, Inv, Known, Placed, Stored, IdleInv, BusyInv, ExtendInv,
       SwitchInv, DownInv, ReplayInv, OrderInv, ClearInv, Unshuffled, First, Marked, WellFormed,
       Ordered, Rooted, ChainTxs, vars

(* The inductive invariant: types, what holds between the stores of the    *)
(* node while nothing has failed, and what may have failed.                *)
THEOREM Invariance == Spec => []IInv
<1>1. Init => IInv
  BY InitHolds
<1>2. IInv /\ [Next]_vars => IInv'
  BY NextHolds, StutterHolds
<1> QED
  BY <1>1, <1>2, PTL DEF Spec

(* Every variable of the controller keeps its type, also when an assertion *)
(* has failed.                                                             *)
THEOREM TypeCorrect == Spec => []TypeOK
<1>1. IInv => TypeOK
  BY DEF IInv
<1> QED
  BY <1>1, Invariance, PTL

(* Of the assertions in commit_block, push_block, maybe_switch_forks,      *)
(* on_irreversible, init and replay, only those can fail that              *)
(* OnlyKnownFaults names, whatever the blocks and however often the node   *)
(* stops: the log gets no gap and no fork, no reversible number is used    *)
(* twice, both branches of a switch are found, an own block becomes the    *)
(* head, and a replay of more than the genesis block goes through.         *)
THEOREM FaultsKnown == Spec => []OnlyKnownFaults
<1>1. IInv => OnlyKnownFaults
  BY DEF IInv
<1> QED
  BY <1>1, Invariance, PTL

(* Chain state, reversible blocks and block log are those of the head, at  *)
(* every step of maybe_switch_forks and of a replay.                       *)
THEOREM StateOfHead == Spec => []StateFollowsHead
<1>1. ASSUME IInv, fault = "none" PROVE StateFollowsHead
  <2>1. TypeOK /\ Placed /\ Stored /\ ReplayInv
    BY <1>1 DEF IInv, Inv
  <2>2. head \in Blocks /\ log \in Blocks /\ db.floor \in Nat /\ Num[head] \in Nat /\ Num[log] \in Nat
    BY <2>1, Types
  <2>3. CASE mode = "replay"
    BY <2>1, <2>3 DEF StateFollowsHead, ReplayInv, Placed
  <2>4. CASE mode # "replay"
    <3>1. log \in Chain[head] /\ Num[log] <= Num[head]
      BY <2>1, <2>2, <2>4, ChainBasics DEF Stored
    <3> QED BY <2>1, <2>2, <2>4, <3>1 DEF StateFollowsHead, Placed, Stored
  <2> QED BY <2>3, <2>4
<1>2. IInv => StateFollowsHead
  BY <1>1 DEF StateFollowsHead
<1> QED
  BY <1>2, Invariance, PTL

(* Outside maybe_switch_forks the head is a best known block, with exactly *)
(* its valid ancestors marked as in the current chain.                     *)
THEOREM BestHeadKept == Spec => []HeadIsBest
<1>1. IInv => HeadIsBest
  BY DEF IInv, Inv, Placed, IdleInv, Marked, HeadIsBest, Ready
<1> QED
  BY <1>1, Invariance, PTL

(* unapplied_transactions never has one that is in the chain or in the     *)
(* pending block.                                                          *)
THEOREM UnappliedClear == Spec => []UnappliedNotApplied
<1>1. IInv => UnappliedNotApplied
  BY DEF IInv, Inv, ClearInv, UnappliedNotApplied, Ready
<1> QED
  BY <1>1, Invariance, PTL

(* What prune leaves descends from the newest block in the log, once that  *)
(* block itself has been pruned.                                           *)
THEOREM ForksEndAtLog == Spec => []NoForkBelowLog
<1>1. ASSUME IInv, Ready, log \notin fdb.blocks, NEW b \in fdb.blocks PROVE log \in Chain[b]
  <2>1. Rooted(fdb) /\ head \in fdb.blocks /\ log \in Chain[head]
    BY <1>1 DEF IInv, Inv, Known, WellFormed, Placed, Stored, Ready
  <2> QED BY <1>1, <2>1 DEF Rooted
<1>2. IInv => NoForkBelowLog
  BY <1>1 DEF NoForkBelowLog
<1> QED
  BY <1>2, Invariance, PTL

(* maybe_switch_forks ends with the new head, or with the old one after it *)
(* has met an invalid block.                                               *)
THEOREM SwitchesEnd == Spec => SwitchOrRestore
<1> DEFINE A == job.phase # "idle" /\ job'.phase = "idle" /\ mode' = "up" /\ fault' = "none" =>
                  head' \in {job.new, job.old} /\ (head' = job.old => bad \cap Chain[job.new] # {})
<1>1. ASSUME IInv, Next, job.phase # "idle", job'.phase = "idle", mode' = "up", fault' = "none"
      PROVE  head' \in {job.new, job.old} /\ (head' = job.old => bad \cap Chain[job.new] # {})
  <2>1. /\ TypeOK /\ fault = "none" /\ Placed /\ BusyInv /\ ExtendInv /\ SwitchInv /\ DownInv
        /\ ReplayInv /\ mode = "up" /\ job.new \in Blocks /\ job.old \in Blocks /\ db.tip = head
    <3>1. TypeOK /\ Inv /\ fault = "none"
      BY <1>1, FaultEnds DEF IInv
    <3>2. /\ Placed /\ BusyInv /\ ExtendInv /\ SwitchInv /\ DownInv /\ ReplayInv
      BY <3>1 DEF Inv
    <3>3. fdb.blocks \subseteq Blocks
      BY <3>1, Types
    <3> QED BY <1>1, <3>1, <3>2, <3>3 DEF BusyInv, Placed
  <2>2. job.new \in Chain[job.new] /\ job.old \in Chain[job.old]
    BY <2>1, ChainBasics
  <2>3. CASE extend
    <3>1. job.old = head /\ Parent[job.new] = head /\ job.new # head
      BY <2>1, <2>3, Tree1 DEF extend, Busy, ExtendInv
    <3>2. CASE applies(job.new) /\ head' = job.new
      BY <3>1, <3>2
    <3>3. CASE ~applies(job.new) /\ head' = head
      BY <2>1, <2>2, <3>1, <3>3 DEF applies
    <3> QED BY <2>3, <3>2, <3>3 DEF extend, apply_block, apply_block_fails
  <2>4. CASE switch_pop
    BY <1>1, <2>4 DEF switch_pop
  <2>5. CASE switch_apply
    <3>1. PICK b : b = NextIn(job.first)
      OBVIOUS
    <3>2. \/ head' = b /\ job' = IF b = job.new THEN Idle ELSE [job EXCEPT !.phase = "push"]
          \/ job' = [job EXCEPT !.phase = "unpop"]
      BY <2>5, <3>1 DEF switch_apply, apply_block
    <3>3. head' = job.new
      BY <1>1, <2>1, <3>2 DEF TypeOK
    <3>4. job.new # job.old
      BY <2>1, <2>2, <2>5 DEF SwitchInv, switch_apply
    <3> QED BY <3>3, <3>4
  <2>6. CASE switch_unpop
    BY <1>1, <2>6 DEF switch_unpop
  <2>7. CASE switch_reapply
    <3>1. PICK b : b = NextIn(job.second)
      OBVIOUS
    <3>2. head' = b /\ job' = (IF b = job.old THEN Idle ELSE job) /\ job.phase = "unpop"
      BY <2>7, <3>1 DEF switch_reapply, apply_block, Busy
    <3> QED BY <1>1, <2>1, <3>2 DEF SwitchInv
  <2>8. CASE crash
    BY <1>1, <2>8 DEF crash
  <2>9. CASE start_block \/ abort_block \/ shutdown
    BY <1>1, <2>9 DEF start_block, abort_block, shutdown, Ready
  <2>10. CASE (\E t \in Txs : push_transaction(t) \/ drop_unapplied_transaction(t))
              \/ (\E b \in Own : commit_block(b)) \/ (\E b \in Blocks : push_block(b))
    BY <1>1, <2>10 DEF push_transaction, drop_unapplied_transaction, commit_block, push_block, Ready
  <2>11. CASE startup \/ (\E b \in Blocks : replay_block(b)) \/ replay_done
    BY <2>1, <2>11 DEF startup, replay_block, replay_done
  <2> QED BY <1>1, <2>3, <2>4, <2>5, <2>6, <2>7, <2>8, <2>9, <2>10, <2>11 DEF Next
<1>2. IInv /\ [Next]_vars => [A]_vars
  BY <1>1
<1> QED
  BY <1>2, Invariance, PTL DEF Spec, SwitchOrRestore

(* init ends with the head there was when the process ended, after a clean *)
(* shutdown and after a replay, unless it fails.                           *)
THEOREM HeadSurvives == Spec => RestartKeepsHead
<1> DEFINE A == mode # "up" /\ mode' = "up" /\ fault' = "none" => head' = was /\ db'.tip = was
<1>1. ASSUME IInv, Next, mode # "up", mode' = "up", fault' = "none"
      PROVE  head' = was /\ db'.tip = was
  <2>1. TypeOK /\ Inv
    BY <1>1, FaultEnds DEF IInv
  <2>2. CASE startup
    BY <1>1, <2>1, <2>2, StartupStep
  <2>3. CASE replay_done
    BY <1>1, <2>1, <2>3, ReplayDoneStep
  <2>4. CASE crash \/ \E b \in Blocks : replay_block(b)
    BY <1>1, <2>4 DEF crash, replay_block
  <2>5. CASE start_block \/ abort_block \/ shutdown
             \/ extend \/ switch_pop \/ switch_apply \/ switch_unpop \/ switch_reapply
    BY <1>1, <2>5 DEF start_block, abort_block, shutdown, Ready, extend, switch_pop, switch_apply,
                      switch_unpop, switch_reapply, Busy
  <2>6. CASE (\E t \in Txs : push_transaction(t) \/ drop_unapplied_transaction(t))
              \/ (\E b \in Own : commit_block(b)) \/ (\E b \in Blocks : push_block(b))
    BY <1>1, <2>6 DEF push_transaction, drop_unapplied_transaction, commit_block, push_block, Ready
  <2> QED BY <1>1, <2>2, <2>3, <2>4, <2>5, <2>6 DEF Next
<1>2. IInv /\ [Next]_vars => [A]_vars
  BY <1>1
<1> QED
  BY <1>2, Invariance, PTL DEF Spec, RestartKeepsHead

-------------------------------------------------------------------------------
(* No fault without a leap.                                                *)

(* What is in the log was made irreversible by a block, known or failed,   *)
(* whose parent is not better than k; the number is even below that        *)
(* block's irreversible number once the block has left the fork database.  *)
SettledIn(l, known, k) ==
  \/ l = Genesis /\ Genesis \in known
  \/ \E y \in Blocks \ {Genesis} : /\ l \in Chain[y] /\ Num[l] <= Lib[y]
                                   /\ l \notin known => Num[l] < Lib[y]
                                   /\ ~better(Parent[y], k)

Settled == SettledIn(log, fdb.blocks, IF job.phase = "idle" THEN head ELSE job.old)

LEMMA SettledOn ==
  ASSUME NEW l \in Blocks, NEW B, NEW k \in Blocks, SettledIn(l, B, k),
         NEW C, l \in B => l \in C, NEW j \in Blocks, ~better(k, j)
  PROVE  SettledIn(l, C, j)
<1>1. CASE l = Genesis /\ Genesis \in B
  BY <1>1 DEF SettledIn
<1>2. ASSUME NEW y \in Blocks \ {Genesis}, l \in Chain[y], Num[l] <= Lib[y],
             l \notin B => Num[l] < Lib[y], ~better(Parent[y], k)
      PROVE  SettledIn(l, C, j)
  <2>1. Parent[y] \in Blocks
    BY <1>2, Tree1
  <2>2. ~better(Parent[y], j)
    BY <1>2, <2>1, RankFacts
  <2> QED BY <1>2, <2>2 DEF SettledIn
<1> QED
  BY <1>1, <1>2 DEF SettledIn

(* A block makes nothing irreversible that is not on the chain of k. *)
LEMMA OnChainOf ==
  ASSUME NoLeap, NEW k \in Blocks, NEW x \in Blocks \ {Genesis}, ~better(Parent[x], k),
         NEW n \in Nat, 1 <= n, n <= Lib[x], NEW o \in Chain[k], Num[o] = n
  PROVE  o \in Chain[x] /\ o # x
<1>1. Lib[x] < Num[x] /\ Lib[x] \in Nat /\ Num[x] \in Nat
  BY LibBelow
<1>2. n <= Num[x]
  BY <1>1
<1>3. PICK l \in Chain[x] : Num[l] = n
  BY <1>2, ChainAt
<1>4. l \in Chain[k]
  BY <1>3 DEF NoLeap
<1>5. l \in Chain[o]
  BY <1>3, <1>4, ChainLinear
<1>6. o \in Blocks
  BY ChainBasics
<1>7. l = o
  BY <1>3, <1>5, <1>6, ChainBasics
<1> QED
  BY <1>1, <1>3, <1>7

(* add(b): what is pruned is below the new head x. *)
LEMMA SettledAdd ==
  ASSUME NoLeap, fdb.blocks \subseteq Blocks, head \in fdb.blocks, \A c \in fdb.blocks : ~better(c, head),
         log \in Chain[head], SettledIn(log, fdb.blocks, head),
         NEW b \in Blocks \ {Genesis}, Parent[b] \in fdb.blocks, NEW x \in fdb.blocks \cup {b},
         NEW o \in Chain[head], Num[o] < Lib[x],
         NEW F, \A c : c \in F <=> c \in fdb.blocks \cup {b} /\ c # o /\ o \in Chain[c]
  PROVE  /\ x \in F /\ SettledIn(o, F, head)
         /\ ~(Num[o] > Num[log]) => SettledIn(log, F, head)
<1>1. /\ x \in Blocks /\ o \in Blocks /\ log \in Blocks /\ head \in Blocks
      /\ Num[o] \in Nat /\ Num[log] \in Nat /\ Lib[x] \in Nat /\ 1 <= Num[o]
  BY ChainBasics, Tree1
<1>2. x # Genesis
  BY <1>1, Tree1
<1>3. Parent[x] \in Blocks /\ Parent[x] \in Chain[x]
  BY <1>1, <1>2, Tree1, ChainBasics
<1>4. ~better(Parent[x], head)
  <2>1. CASE x = b
    BY <2>1
  <2>2. CASE x \in fdb.blocks
    <3>1. ~better(Parent[x], x) /\ ~better(x, head)
      BY <1>1, <1>3, <2>2, Outranks
    <3> QED BY <1>1, <1>3, <3>1, RankFacts
  <2> QED BY <2>1, <2>2
<1>5. o \in Chain[x] /\ o # x
  <2>1. PICK n : n = Num[o]
    OBVIOUS
  <2>2. n \in Nat /\ 1 <= n /\ n <= Lib[x] /\ Num[o] = n
    BY <1>1, <2>1
  <2> QED BY <1>1, <1>2, <1>4, <2>2, OnChainOf
<1>6. x \in F
  BY <1>5
<1>7. SettledIn(o, F, head)
  BY <1>1, <1>2, <1>4, <1>5 DEF SettledIn
<1>8. CASE log # o /\ ~(Num[o] > Num[log])
  <2>1. o \in Chain[log]
    BY <1>1, <1>8, ChainLinear
  <2>2. log \in fdb.blocks => log \in F
    BY <1>8, <2>1
  <2>3. ~better(head, head)
    BY <1>1, RankFacts
  <2>4. SettledIn(log, F, head)
    <3>1. PICK B, l, k : B = fdb.blocks /\ l = log /\ k = head
      OBVIOUS
    <3> QED BY <1>1, <2>2, <2>3, <3>1, SettledOn
  <2> QED BY <1>6, <1>7, <2>4
<1> QED
  BY <1>6, <1>7, <1>8

(* log_after for the block o that becomes irreversible. *)
LEMMA LogAfter ==
  ASSUME NEW o, NEW S
  PROVE  /\ S = {} => log_after(S) = log
         /\ S = {o} => log_after(S) = IF Num[o] > Num[log] THEN o ELSE log
<1>1. CASE S = {}
  <2>1. fresh(S) = {}
    BY <1>1 DEF fresh
  <2> QED BY <1>1, <2>1 DEF log_after
<1>2. CASE S = {o}
  <2>1. CASE Num[o] > Num[log]
    <3>1. fresh(S) = {o}
      BY <1>2, <2>1 DEF fresh
    <3> QED BY <1>2, <2>1, <3>1 DEF log_after
  <2>2. CASE ~(Num[o] > Num[log])
    <3>1. fresh(S) = {}
      BY <1>2, <2>2 DEF fresh
    <3> QED BY <1>2, <2>2, <3>1 DEF log_after
  <2> QED BY <2>1, <2>2
<1> QED
  BY <1>1, <1>2

LEMMA AddSettles ==
  ASSUME TypeOK, Inv, Ready, NoLeap, Settled,
         NEW m \in ForkDbs, m.blocks = fdb.blocks, m.before = fdb.before,
         NEW b \in Blocks \ {Genesis}, b \notin fdb.blocks, Parent[b] \in fdb.blocks,
         NEW h \in fdb.blocks \cup {b}, Marked(insert(m, b), h), head \in Chain[h],
         NEW g, g = insert(m, b), NEW f, f = pruned(g), NEW S, S = irreversible(g)
  PROVE  f.blocks # {} /\ SettledIn(log_after(S), f.blocks, head)
<1>1. /\ fdb.blocks \subseteq Blocks /\ head \in Blocks /\ log \in Blocks /\ b \in Blocks /\ h \in Blocks
  BY Types
<1>2. /\ WellFormed(fdb) /\ head \in fdb.blocks /\ log \in Chain[head] /\ job.phase = "idle"
      /\ Chain[head] \ Chain[log] \subseteq fdb.blocks
      /\ \A c \in fdb.blocks : ~better(c, head)
  BY DEF Inv, Stored, Ready, IdleInv, Known, Placed
<1>3. WellFormed(m)
  BY <1>2, SameIndex
<1>4. log \in Chain[h] /\ h \in Chain[h]
  BY <1>1, <1>2, ChainBasics
<1> DEFINE o == oldest(g)
<1>5. /\ WellFormed(g) /\ g.blocks = fdb.blocks \cup {b} /\ IsBest(g, g.head)
      /\ S = {} => f = g
      /\ S # {} => /\ S = {o} /\ Num[o] < Lib[g.head]
                   /\ f.blocks = {c \in g.blocks : c # o /\ o \in Chain[c]}
      /\ o \in Chain[head] /\ S \in {{}, {o}}
  BY <1>1, <1>2, <1>3, <1>4, Added
<1> HIDE DEF o
<1>6. SettledIn(log, fdb.blocks, head)
  BY <1>2 DEF Settled
<1>7. CASE S = {}
  <2>1. log_after(S) = log /\ f.blocks = fdb.blocks \cup {b}
    BY <1>5, <1>7, LogAfter
  <2>2. ~better(head, head)
    BY <1>1, RankFacts
  <2>3. PICK F : F = f.blocks
    OBVIOUS
  <2>4. PICK B : B = fdb.blocks
    OBVIOUS
  <2>5. SettledIn(log, F, head)
    BY <1>1, <1>6, <2>1, <2>2, <2>3, <2>4, SettledOn
  <2> QED BY <2>1, <2>3, <2>5
<1>8. CASE S # {}
  <2>1. PICK F, x : F = f.blocks /\ x = g.head
    OBVIOUS
  <2>2. /\ x \in fdb.blocks \cup {b} /\ Num[o] < Lib[x]
        /\ \A c : c \in F <=> c \in fdb.blocks \cup {b} /\ c # o /\ o \in Chain[c]
    BY <1>5, <1>8, <2>1 DEF IsBest
  <2>3. x \in F /\ SettledIn(o, F, head) /\ (~(Num[o] > Num[log]) => SettledIn(log, F, head))
    BY <1>1, <1>2, <1>5, <1>6, <2>2, SettledAdd
  <2>4. log_after(S) = IF Num[o] > Num[log] THEN o ELSE log
    BY <1>5, <1>8, LogAfter
  <2> QED BY <2>1, <2>3, <2>4
<1> QED
  BY <1>7, <1>8

LEMMA PushBlockSettles ==
  ASSUME TypeOK, Inv, NoLeap, Settled, NEW b \in Blocks, push_block(b)
  PROVE  TypeOK' /\ Inv' /\ fault' = "none" /\ Settled'
<1>1. PICK g : g = insert(fdb, b)
  OBVIOUS
<1>2. PICK f : f = pruned(g)
  OBVIOUS
<1>3. PICK S : S = irreversible(g)
  OBVIOUS
<1>4. PICK todo : todo = switch_job(f)
  OBVIOUS
<1>5. /\ Ready /\ b \notin fdb.blocks /\ Parent[b] \in fdb.blocks
      /\ fault' = (IF add_fault(S, f) # "none" THEN add_fault(S, f)
                   ELSE IF ~branches_known(f, todo) THEN "branch"
                   ELSE IF log_after(S) \notin Chain[f.head] THEN "below" ELSE "none")
      /\ fdb' = f /\ log' = log_after(S) /\ job' = (IF fault' = "none" THEN todo ELSE Idle)
      /\ head' = head
  BY <1>1, <1>2, <1>3, <1>4, PushBlockDef
<1>6. /\ fdb \in ForkDbs /\ fdb.blocks \subseteq Blocks /\ head \in Blocks /\ b # Genesis
  BY <1>5, Types, NotGenesis
<1>7. /\ WellFormed(fdb) /\ head \in fdb.blocks /\ Marked(fdb, head) /\ head \in Chain[head]
  BY <1>5, <1>6, ChainBasics DEF Inv, Known, Placed
<1>8. Marked(insert(fdb, b), head)
  <2>1. insert(fdb, b).blocks = fdb.blocks \cup {b} /\ insert(fdb, b).in_chain = fdb.in_chain
    BY <1>5, <1>6, <1>7, Inserted
  <2>2. b \notin Chain[head]
    BY <1>5, <1>6, <1>7, NotInIndex
  <2> QED BY <1>7, <2>1, <2>2 DEF Marked
<1>9. f.blocks # {} /\ SettledIn(log_after(S), f.blocks, head)
  <2>1. PICK m : m = fdb
    OBVIOUS
  <2>2. m \in ForkDbs /\ m.blocks = fdb.blocks /\ m.before = fdb.before /\ Marked(insert(m, b), head)
        /\ g = insert(m, b)
    BY <1>1, <1>6, <1>8, <2>1
  <2> QED BY <1>2, <1>3, <1>5, <1>6, <1>7, <2>2, AddSettles
<1>10. /\ links_log(S) /\ log_after(S) \in Blocks /\ IsBest(f, f.head) /\ ~better(head, f.head)
       /\ WellFormed(f)
  BY <1>1, <1>2, <1>3, <1>5, <1>9, Pushed
<1>11. f.head \in Blocks
  BY <1>10 DEF IsBest, WellFormed, ForkDbs
<1>12. add_fault(S, f) = "none"
  BY <1>10, <1>11, Tree1 DEF add_fault
<1>13. log_after(S) \in Chain[f.head]
  <2>1. PICK l, x : l = log_after(S) /\ x = f.head
    OBVIOUS
  <2>2. CASE l = Genesis
    BY <1>11, <2>1, <2>2, ChainBasics
  <2>3. CASE l # Genesis
    <3>1. PICK y \in Blocks \ {Genesis} : l \in Chain[y] /\ Num[l] <= Lib[y] /\ ~better(Parent[y], head)
      BY <1>9, <2>1, <2>3 DEF SettledIn
    <3>2. Parent[y] \in Blocks
      BY <3>1, Tree1
    <3>3. ~better(Parent[y], x)
      BY <1>6, <1>10, <1>11, <2>1, <3>1, <3>2, RankFacts
    <3> QED BY <1>11, <2>1, <3>1, <3>3 DEF NoLeap
  <2> QED BY <2>2, <2>3
<1>14. fault' # "empty" /\ fault' # "below"
  BY <1>5, <1>12, <1>13
<1>15. TypeOK' /\ Inv' /\ fault' = "none"
  BY <1>14, PushBlockStep
<1>16. job'.phase # "idle" => job'.old = head
  BY <1>4, <1>5, <1>15 DEF switch_job, Idle
<1>17. Settled'
  BY <1>5, <1>9, <1>16 DEF Settled
<1> QED
  BY <1>15, <1>17

LEMMA CommitBlockSettles ==
  ASSUME TypeOK, Inv, NoLeap, Settled, NEW b \in Own, commit_block(b), TypeOK', Inv', fault' = "none"
  PROVE  Settled'
<1>1. PICK m : m = [fdb EXCEPT !.in_chain = @ \cup {b}, !.validated = @ \cup {b}, !.trxs = @ \cup {b}]
  OBVIOUS
<1>2. PICK g : g = insert(m, b)
  OBVIOUS
<1>3. PICK f : f = pruned(g)
  OBVIOUS
<1>4. PICK S : S = irreversible(g)
  OBVIOUS
<1>5. /\ Ready /\ Parent[b] = head /\ fdb' = f /\ head' = f.head /\ log' = log_after(S) /\ job' = job
      /\ db' = [tip |-> b, floor |-> floor_after(S)]
  BY <1>1, <1>2, <1>3, <1>4, CommitBlockDef
<1>6. /\ fdb \in ForkDbs /\ head \in Blocks /\ log \in Blocks /\ b \in Blocks /\ fdb.blocks \subseteq Blocks
      /\ b # Genesis
  BY <1>5, Types, NotGenesis DEF Own
<1>7. /\ WellFormed(fdb) /\ head \in fdb.blocks /\ Marked(fdb, head) /\ job.phase = "idle"
      /\ \A c \in fdb.blocks : ~better(c, head)
  BY <1>5 DEF Inv, Known, Placed, IdleInv, Ready
<1>8. /\ Chain[b] = Chain[head] \cup {b} /\ head \in Chain[b] /\ head # b
  BY <1>5, <1>6, Tree1, ChainBasics
<1>9. better(b, head) /\ b \notin fdb.blocks
  BY <1>6, <1>7, <1>8, Outranks
<1>10. /\ m.blocks = fdb.blocks /\ m.before = fdb.before /\ m.in_chain = fdb.in_chain \cup {b} /\ m \in ForkDbs
  BY <1>1, <1>6 DEF ForkDbs
<1>11. WellFormed(m)
  BY <1>7, <1>10, SameIndex
<1>12. Marked(insert(m, b), b)
  <2>1. insert(m, b).blocks = m.blocks \cup {b} /\ insert(m, b).in_chain = m.in_chain
    BY <1>5, <1>6, <1>7, <1>9, <1>10, <1>11, Inserted
  <2> QED BY <1>6, <1>7, <1>8, <1>10, <2>1 DEF Marked
<1>13. SettledIn(log_after(S), f.blocks, head)
  BY <1>2, <1>3, <1>4, <1>5, <1>6, <1>7, <1>8, <1>9, <1>10, <1>12, AddSettles
<1>14. db'.tip = head' /\ log' \in Blocks
  BY DEF Inv, Placed, TypeOK
<1>15. head' = b
  BY <1>5, <1>14
<1>16. ~better(head, b)
  BY <1>6, <1>9, RankFacts
<1>17. SettledIn(log', fdb'.blocks, b)
  <2>1. PICK B, l : B = f.blocks /\ l = log_after(S)
    OBVIOUS
  <2>2. SettledIn(l, B, head) /\ l \in Blocks
    BY <1>5, <1>13, <1>14, <2>1
  <2>3. SettledIn(l, B, b)
    BY <1>6, <1>16, <2>2, SettledOn
  <2> QED BY <1>5, <2>1, <2>3
<1> QED
  BY <1>5, <1>7, <1>15, <1>17 DEF Settled

(* A step that adds nothing and takes the log's newest block from neither  *)
(* the log nor the fork database.                                          *)
LEMMA KeptSettled ==
  ASSUME TypeOK, Settled, log' = log, log \in fdb.blocks => log \in fdb'.blocks,
         NEW k \in Blocks, k = IF job.phase = "idle" THEN head ELSE job.old,
         NEW j \in Blocks, j = IF job'.phase = "idle" THEN head' ELSE job'.old,
         ~better(k, j)
  PROVE  Settled'
<1>1. PICK B, C, l : B = fdb.blocks /\ C = fdb'.blocks /\ l = log
  OBVIOUS
<1>2. l \in Blocks /\ SettledIn(l, B, k) /\ (l \in B => l \in C)
  BY <1>1, Types DEF Settled
<1>3. SettledIn(l, C, j)
  BY <1>2, SettledOn
<1> QED
  BY <1>1, <1>3 DEF Settled

LEMMA ExtendSettles ==
  ASSUME TypeOK, Inv, Settled, extend
  PROVE  Settled'
<1>1. job.phase = "extend" /\ job' = Idle /\ job'.phase = "idle" /\ log' = log
  BY DEF extend, Busy, Idle
<1>2. /\ job.old = head /\ Parent[job.new] = head /\ job.new # Genesis /\ job.new \in Blocks
      /\ head \in Blocks /\ ~better(head, job.new) /\ log \in Chain[head] /\ log \in Blocks
      /\ WellFormed(fdb) /\ fdb \in ForkDbs
  BY <1>1, Types DEF Inv, ExtendInv, BusyInv, Known
<1>3. job.new \notin Chain[head] /\ ~better(head, head)
  BY <1>2, Tree1, ChainBasics, RankFacts
<1>4. CASE head' = job.new /\ fdb' = accepted(fdb, job.new)
  <2>1. fdb'.blocks = fdb.blocks
    BY <1>2, <1>4 DEF accepted, mark_in_current_chain, ForkDbs
  <2> QED BY <1>1, <1>2, <1>4, <2>1, KeptSettled
<1>5. CASE head' = head /\ fdb' = remove(fdb, job.new)
  <2>1. job.new \notin Chain[log]
    BY <1>2, <1>3, ChainBasics
  <2>2. fdb'.blocks = {c \in fdb.blocks : job.new \notin Chain[c]}
    <3>1. PICK f, b : f = fdb /\ b = job.new
      OBVIOUS
    <3>2. WellFormed(f) /\ b \in Blocks
      BY <1>2, <3>1
    <3>3. remove(f, b).blocks = {c \in f.blocks : b \notin Chain[c]}
      BY <3>2, Removed
    <3> QED BY <1>5, <3>1, <3>3
  <2> QED BY <1>1, <1>2, <1>3, <1>5, <2>1, <2>2, KeptSettled
<1> QED
  BY <1>4, <1>5 DEF extend, apply_block, apply_block_fails

LEMMA SwitchSettles ==
  ASSUME TypeOK, Inv, Settled, switch_pop \/ switch_apply \/ switch_unpop \/ switch_reapply, Inv', fault' = "none"
  PROVE  Settled'
<1>1. /\ job.phase \in {"pop", "push", "unpop"} /\ log' = log
  BY DEF switch_pop, switch_apply, switch_unpop, switch_reapply, Busy
<1>2. /\ job.new \in Blocks /\ job.old \in Blocks /\ ~better(job.old, job.new) /\ log \in Chain[job.old]
      /\ log \in Blocks /\ WellFormed(fdb) /\ fdb \in ForkDbs /\ head \in Blocks
      /\ job.first = Chain[job.new] \ Chain[job.old]
      /\ ~better(job.old, job.old)
  <2>1. fdb.blocks \subseteq Blocks
    BY Types
  <2>2. job.new \in Blocks /\ job.old \in Blocks /\ ~better(job.old, job.new) /\ log \in Chain[job.old]
        /\ job.first = Chain[job.new] \ Chain[job.old]
    BY <1>1, <2>1 DEF Inv, BusyInv, SwitchInv
  <2> QED BY <2>2, Types, RankFacts DEF Inv, Known
<1>3. CASE switch_pop \/ switch_unpop
  <2>1. fdb' = mark_in_current_chain(fdb, head, FALSE) /\ job' = job
    BY <1>3 DEF switch_pop, switch_unpop
  <2>2. fdb'.blocks = fdb.blocks
    BY <1>2, <2>1 DEF mark_in_current_chain, ForkDbs
  <2> QED BY <1>1, <1>2, <2>1, <2>2, KeptSettled
<1>4. CASE switch_apply
  <2>1. PICK b : b = NextIn(job.first)
    OBVIOUS
  <2>2. \/ /\ head' = b /\ fdb' = accepted(fdb, b)
           /\ job' = IF b = job.new THEN Idle ELSE [job EXCEPT !.phase = "push"]
        \/ /\ fdb' = remove(fdb, b) /\ job' = [job EXCEPT !.phase = "unpop"]
    BY <1>4, <2>1 DEF switch_apply, apply_block
  <2>3. CASE fdb' = accepted(fdb, b) /\ head' = b /\ b = job.new /\ job' = Idle
    <3>1. fdb'.blocks = fdb.blocks /\ job'.phase = "idle"
      BY <1>2, <2>3 DEF accepted, mark_in_current_chain, ForkDbs, Idle
    <3> QED BY <1>1, <1>2, <2>3, <3>1, KeptSettled
  <2>4. CASE fdb' = accepted(fdb, b) /\ job' = [job EXCEPT !.phase = "push"]
    <3>1. fdb'.blocks = fdb.blocks /\ job'.phase = "push" /\ job'.old = job.old
      BY <1>2, <2>4 DEF accepted, mark_in_current_chain, ForkDbs, TypeOK
    <3> QED BY <1>1, <1>2, <3>1, KeptSettled
  <2>5. CASE fdb' = remove(fdb, b) /\ job' = [job EXCEPT !.phase = "unpop"]
    <3>1. job'.phase = "unpop" /\ job'.old = job.old
      BY <2>5 DEF TypeOK
    <3>2. b \in job.first
      <4>1. job.phase \in {"pop", "push"} /\ mode = "up" /\ (job.phase = "pop" => head \notin job.second)
        BY <1>4 DEF switch_apply, Busy
      <4> QED BY <2>1, <4>1, NextNew
    <3>3. b \in Blocks /\ b \notin Chain[job.old]
      BY <1>2, <3>2, ChainBasics
    <3>4. b \notin Chain[log]
      BY <1>2, <3>3, ChainBasics
    <3>5. fdb'.blocks = {c \in fdb.blocks : b \notin Chain[c]}
      <4>1. PICK f : f = fdb
        OBVIOUS
      <4>2. WellFormed(f)
        BY <1>2, <4>1
      <4>3. remove(f, b).blocks = {c \in f.blocks : b \notin Chain[c]}
        BY <3>3, <4>2, Removed
      <4> QED BY <2>5, <4>1, <4>3
    <3> QED BY <1>1, <1>2, <3>1, <3>4, <3>5, KeptSettled
  <2> QED BY <2>2, <2>3, <2>4, <2>5
<1>5. CASE switch_reapply
  <2>1. PICK b : b = NextIn(job.second)
    OBVIOUS
  <2>2. /\ head' = b /\ fdb' = mark_in_current_chain(fdb, b, TRUE)
        /\ job' = IF b = job.old THEN Idle ELSE job
    BY <1>5, <2>1 DEF switch_reapply, apply_block
  <2>3. fdb'.blocks = fdb.blocks
    BY <1>2, <2>2 DEF mark_in_current_chain, ForkDbs
  <2>4. job.old = IF job'.phase = "idle" THEN head' ELSE job'.old
    BY <1>1, <2>2 DEF Idle
  <2> QED BY <1>1, <1>2, <2>3, <2>4, KeptSettled
<1> QED
  BY <1>3, <1>4, <1>5

(* pop_block finds the previous block. *)
LEMMA MayPop ==
  ASSUME TypeOK, Inv, NoLeap, Settled, job.phase = "pop", mode = "up", head \in job.second
  PROVE  may_pop
<1>1. /\ job.new \in Blocks /\ job.old \in Blocks /\ ~better(job.old, job.new)
      /\ log \in Chain[job.new] /\ log \in Chain[job.old] /\ head \in Chain[job.old]
      /\ job.second = Chain[job.old] \ Chain[job.new]
      /\ log \in Chain[head] /\ Chain[head] \ Chain[log] \subseteq fdb.blocks
      /\ head \in Blocks /\ log \in Blocks
  <2>1. fdb.blocks \subseteq Blocks
    BY Types
  <2> QED BY <2>1, Types DEF Inv, BusyInv, SwitchInv, Stored, Placed
<1>2. head \notin Chain[job.new] /\ head # Genesis
  BY <1>1, ChainBasics
<1>3. /\ Parent[head] \in Blocks /\ Chain[head] = Chain[Parent[head]] \cup {head}
      /\ Parent[head] \in Chain[head] /\ Num[head] = Num[Parent[head]] + 1
  BY <1>1, <1>2, Tree1, ChainBasics
<1>4. CASE Parent[head] \notin Chain[log]
  BY <1>1, <1>3, <1>4 DEF may_pop
<1>5. CASE Parent[head] \in Chain[log]
  <2>1. log \in Chain[Parent[head]]
    BY <1>1, <1>2, <1>3
  <2>2. Parent[head] = log
    BY <1>1, <1>3, <1>5, <2>1, ChainBasics, Tree1
  <2>3. SUFFICES ASSUME log \notin fdb.blocks PROVE FALSE
    BY <2>2 DEF may_pop
  <2>4. PICK y \in Blocks \ {Genesis} : log \in Chain[y] /\ Num[log] < Lib[y] /\ ~better(Parent[y], job.old)
    BY <2>3 DEF Settled, SettledIn
  <2>5. Parent[y] \in Blocks /\ Lib[y] < Num[y] /\ Lib[y] \in Nat /\ Num[y] \in Nat /\ Num[log] \in Nat
    BY <1>1, <2>4, Tree1
  <2>6. PICK l \in Chain[y] \ {Genesis} : Parent[l] = log /\ Num[l] = Num[log] + 1
    BY <2>4, <2>5, ChildAbove
  <2>7. l \in Blocks /\ Num[l] <= Lib[y]
    BY <2>4, <2>5, <2>6, ChainBasics
  <2>8. ~better(Parent[y], job.new)
    BY <1>1, <2>4, <2>5, RankFacts
  <2>9. l \in Chain[job.old] /\ l \in Chain[job.new]
    BY <1>1, <2>4, <2>6, <2>7, <2>8 DEF NoLeap
  <2>10. Num[l] = Num[head]
    BY <1>3, <2>2, <2>6
  <2>11. l \in Chain[head]
    BY <1>1, <2>5, <2>6, <2>9, <2>10, ChainLinear
  <2>12. l = head
    BY <1>1, <2>10, <2>11, ChainBasics
  <2> QED BY <1>2, <2>9, <2>12
<1> QED
  BY <1>4, <1>5

LEMMA SwitchPopSettles ==
  ASSUME TypeOK, Inv, NoLeap, Settled, switch_pop, fault = "none"
  PROVE  TypeOK' /\ Inv' /\ fault' = "none" /\ Settled'
<1>1. job.phase = "pop" /\ mode = "up" /\ head \in job.second
  BY DEF switch_pop, Busy
<1>2. may_pop
  BY <1>1, MayPop
<1>3. fault' = fault
  BY <1>2 DEF switch_pop
<1>4. TypeOK' /\ Inv'
  BY <1>3, SwitchPopStep
<1> QED
  BY <1>3, <1>4, SwitchSettles

LEMMA ShutdownSettles ==
  ASSUME TypeOK, Inv, NoLeap, Settled, shutdown
  PROVE  Settled'
<1>1. PICK o : o = oldest(fdb)
  OBVIOUS
<1>2. PICK S : S = IF Num[o] <= Lib[fdb.head] THEN {o} ELSE {}
  OBVIOUS
<1>3. /\ Ready /\ log' = log_after(S) /\ fdb' = [fdb EXCEPT !.trxs = {}] /\ UNCHANGED <<head, job>>
  BY <1>1, <1>2 DEF shutdown
<1>4. /\ fdb \in ForkDbs /\ fdb.blocks \subseteq Blocks /\ head \in Blocks /\ log \in Blocks
  BY Types
<1>5. /\ WellFormed(fdb) /\ head \in fdb.blocks /\ Marked(fdb, head) /\ job.phase = "idle"
      /\ \A b \in fdb.blocks : ~better(b, head)
      /\ fdb.head \in fdb.blocks
  BY <1>3 DEF Inv, Ready, IdleInv, Known, Placed
<1>6. o \in Chain[head] /\ o \in fdb.blocks
  BY <1>1, <1>4, <1>5, OldestIs, OldestOnChain
<1>7. fdb'.blocks = fdb.blocks
  BY <1>3, <1>4 DEF ForkDbs
<1>8. ~better(head, head)
  BY <1>4, RankFacts
<1>9. CASE log' = log
  BY <1>3, <1>4, <1>5, <1>7, <1>8, <1>9, KeptSettled
<1>10. CASE log' = o /\ S = {o}
  <2>1. PICK x : x = fdb.head
    OBVIOUS
  <2>2. /\ x \in Blocks /\ Num[o] <= Lib[x] /\ o \in Blocks /\ Num[o] \in Nat /\ 1 <= Num[o]
        /\ ~better(x, head) /\ Lib[x] \in Nat
    BY <1>2, <1>4, <1>5, <1>6, <1>10, <2>1, ChainBasics, Tree1
  <2>3. x # Genesis
    BY <2>2, Tree1
  <2>4. Parent[x] \in Blocks /\ Parent[x] \in Chain[x]
    BY <2>2, <2>3, Tree1, ChainBasics
  <2>5. ~better(Parent[x], head)
    <3>1. ~better(Parent[x], x)
      BY <2>2, <2>4, Outranks
    <3> QED BY <1>4, <2>2, <2>4, <3>1, RankFacts
  <2>6. o \in Chain[x]
    <3>1. PICK n : n = Num[o]
      OBVIOUS
    <3>2. n \in Nat /\ 1 <= n /\ n <= Lib[x] /\ Num[o] = n
      BY <2>2, <3>1
    <3> QED BY <1>4, <1>6, <2>2, <2>3, <2>5, <3>2, OnChainOf
  <2>7. SettledIn(o, fdb.blocks, head)
    BY <1>6, <2>2, <2>3, <2>5, <2>6 DEF SettledIn
  <2> QED BY <1>3, <1>5, <1>7, <1>10, <2>7 DEF Settled
<1>11. S = {} \/ S = {o}
  BY <1>2
<1>12. log' = log \/ (log' = o /\ S = {o})
  BY <1>3, <1>11, LogAfter
<1> QED
  BY <1>9, <1>10, <1>12

LEMMA StartupSettles ==
  ASSUME TypeOK, Inv, Settled, startup, head' = was
  PROVE  Settled'
<1>1. mode = "down" /\ log' = log /\ job' = job /\ \E r : fdb' = [fdb EXCEPT !.before = r]
  BY DEF startup, disk
<1>2. job.phase = "idle" /\ was = head /\ head \in Blocks /\ fdb \in ForkDbs
  BY <1>1, Types DEF Inv, DownInv, Idle
<1>3. fdb'.blocks = fdb.blocks
  BY <1>1, <1>2 DEF ForkDbs
<1>4. ~better(head, head)
  BY <1>2, RankFacts
<1> QED
  BY <1>1, <1>2, <1>3, <1>4, KeptSettled

Calm == TypeOK /\ Inv /\ fault = "none" /\ mode # "replay" /\ Settled

LEMMA CalmNext ==
  ASSUME NoLeap, MaxCrashes = 0, MaxRestarts <= 1, Calm, Next
  PROVE  Calm'
<1>1. TypeOK /\ Inv /\ fault = "none" /\ mode # "replay" /\ Settled
  BY DEF Calm
<1>2. ASSUME UNCHANGED <<fdb, head, log, job, mode>>, TypeOK', Inv', fault' = fault PROVE Calm'
  BY <1>1, <1>2 DEF Calm, Settled
<1>3. ASSUME TypeOK', Inv', fault' = "none", mode' = mode, Settled' PROVE Calm'
  BY <1>1, <1>3 DEF Calm
<1>4. CASE start_block
  <2>1. UNCHANGED <<fdb, head, log, job, mode>>
    BY <1>4 DEF start_block, disk
  <2> QED BY <1>1, <1>2, <1>4, <2>1, StartBlockStep
<1>5. CASE abort_block
  <2>1. UNCHANGED <<fdb, head, log, job, mode>>
    BY <1>5 DEF abort_block, disk
  <2> QED BY <1>1, <1>2, <1>5, <2>1, AbortBlockStep
<1>6. ASSUME NEW t \in Txs, push_transaction(t) PROVE Calm'
  <2>1. UNCHANGED <<fdb, head, log, job, mode>>
    BY <1>6 DEF push_transaction, disk
  <2> QED BY <1>1, <1>2, <1>6, <2>1, PushTransactionStep
<1>7. ASSUME NEW t \in Txs, drop_unapplied_transaction(t) PROVE Calm'
  <2>1. UNCHANGED <<fdb, head, log, job, mode>>
    BY <1>7 DEF drop_unapplied_transaction, disk
  <2> QED BY <1>1, <1>2, <1>7, <2>1, DropStep
<1>8. ASSUME NEW b \in Own, commit_block(b) PROVE Calm'
  <2>1. mode' = mode
    BY <1>8 DEF commit_block
  <2>2. TypeOK' /\ Inv' /\ fault' = "none"
    BY <1>1, <1>8, CommitBlockStep
  <2> QED BY <1>1, <1>3, <1>8, <2>1, <2>2, CommitBlockSettles
<1>9. ASSUME NEW b \in Blocks, push_block(b) PROVE Calm'
  <2>1. mode' = mode
    BY <1>9 DEF push_block
  <2> QED BY <1>1, <1>3, <1>9, <2>1, PushBlockSettles
<1>10. CASE extend
  <2>1. mode' = mode
    BY <1>10 DEF extend
  <2> QED BY <1>1, <1>3, <1>10, <2>1, ExtendStep, ExtendSettles
<1>11. CASE switch_pop
  <2>1. mode' = mode
    BY <1>11 DEF switch_pop
  <2> QED BY <1>1, <1>3, <1>11, <2>1, SwitchPopSettles
<1>12. CASE switch_apply
  <2>1. mode' = mode
    BY <1>12 DEF switch_apply
  <2> QED BY <1>1, <1>3, <1>12, <2>1, SwitchApplyStep, SwitchSettles
<1>13. CASE switch_unpop
  <2>1. mode' = mode
    BY <1>13 DEF switch_unpop
  <2> QED BY <1>1, <1>3, <1>13, <2>1, SwitchUnpopStep, SwitchSettles
<1>14. CASE switch_reapply
  <2>1. mode' = mode
    BY <1>14 DEF switch_reapply
  <2> QED BY <1>1, <1>3, <1>14, <2>1, SwitchReapplyStep, SwitchSettles
<1>15. CASE shutdown
  <2>1. mode' = "down"
    BY <1>15 DEF shutdown
  <2> QED BY <1>1, <1>15, <2>1, ShutdownStep, ShutdownSettles DEF Calm
<1>16. CASE startup
  <2>1. mode' = "up"
    BY <1>16 DEF startup
  <2>2. ~(left'.restarts + 2 <= MaxRestarts)
    <3>1. left.restarts \in 0..MaxRestarts /\ MaxRestarts \in Nat
      BY <1>1, ControllerAssumption DEF TypeOK
    <3>2. left' = left
      BY <1>16 DEF startup, world
    <3> QED BY <3>1, <3>2
  <2>3. TypeOK' /\ Inv' /\ fault' = "none" /\ head' = was
    BY <1>1, <1>16, <2>2, StartupStep
  <2> QED BY <1>1, <1>16, <2>1, <2>3, StartupSettles DEF Calm
<1>17. CASE crash
  <2>1. left.crashes \in 0..MaxCrashes
    BY <1>1 DEF TypeOK
  <2> QED BY <1>17, <2>1 DEF crash
<1>18. CASE replay_done \/ \E b \in Blocks : replay_block(b)
  BY <1>1, <1>18 DEF replay_done, replay_block
<1> QED
  BY <1>4, <1>5, <1>6, <1>7, <1>8, <1>9, <1>10, <1>11, <1>12, <1>13, <1>14, <1>15, <1>16, <1>17, <1>18
     DEF Next

LEMMA CalmStutter ==
  ASSUME Calm, UNCHANGED vars
  PROVE  Calm'
<1>1. IInv
  BY DEF Calm, IInv, OnlyKnownFaults
<1>2. IInv'
  BY <1>1, StutterHolds
<1> QED
  BY <1>2 DEF Calm, IInv, Settled, vars

(* No assertion fails at all in a node that does not crash and restarts at *)
(* most once, if the irreversible number never leaps over a fork:          *)
(* pop_block always finds the previous block, and no switch goes below the *)
(* log.                                                                    *)
THEOREM NoFaultWithoutLeap ==
  ASSUME NoLeap, MaxCrashes = 0, MaxRestarts <= 1
  PROVE  Spec => []NoFault
<1>1. Init => Calm
  <2>1. ASSUME Init PROVE Calm
    <3>1. IInv /\ fault = "none" /\ mode = "up" /\ log = Genesis /\ fdb = GenesisForkDb
      BY <2>1, InitHolds DEF Init
    <3>2. Settled
      BY <3>1, GenesisKnown DEF Settled, SettledIn
    <3> QED BY <3>1, <3>2 DEF Calm, IInv
  <2> QED BY <2>1
<1>2. Calm /\ [Next]_vars => Calm'
  BY CalmNext, CalmStutter
<1>3. Calm => NoFault
  BY DEF Calm, NoFault
<1> QED
  BY <1>1, <1>2, <1>3, PTL DEF Spec
===============================================================================
