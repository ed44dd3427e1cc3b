---------------------------- MODULE TopChainProofs ----------------------------
(***************************************************************************)
(* Proofs about the top chain, for every value of the constants.           *)
(*                                                                         *)
(* The coin database and the registry of sub chains over it, for any tree  *)
(* of valid blocks: the flags of the cache mean what they say              *)
(* (EntriesSound), nothing throws (NoFault), a database that names a best  *)
(* block has exactly its unspent coins, whichever batch of a flush or of a *)
(* repair the process died at (DatabaseConsistent), no registration of the *)
(* chain is missing (RegistryComplete), and the whole implements a ledger  *)
(* that changes by blocks (ImplementsLedger).                              *)
(*                                                                         *)
(* The queue of script checks, for every number of workers and masters,    *)
(* every batch size and every number of checks and interruptions           *)
(* (TodoCounts, ResultExact, ChecksBelongToControl).                       *)
(***************************************************************************)
EXTENDS SubChainMeta, CheckQueue, FiniteSetTheorems, SequenceTheorems, WellFoundedInduction, TLAPS

(* The coins of a database that names b, or no block, as its best one. *)
CoinsOf(b) == IF b = NoBlock THEN [o \in Outpoints |-> Spent] ELSE Utxo[b]

(* The flags of an entry, over a view that has coin below. *)
Sound(e, below) ==
  e # NoEntry => (e.fresh => below = Spent) /\ (~e.dirty => e.coin = below)

(* On disk are the coins of the best block, or in each place those of the  *)
(* old or of the new tip of a flush.                                       *)
DiskInv ==
  \/ heads = <<>> /\ db = CoinsOf(best_db) /\ job \in {"idle", "flush", "abort"}
  \/ /\ heads # <<>> /\ best_db = NoBlock /\ best = heads[1] /\ job # "idle"
     /\ \A o \in Outpoints : db[o] \in {CoinsOf(heads[2])[o], Utxo[best][o]}

Replaying == job \in {"rollback", "forward"}

(* Through the cache the coins of the best block are seen; in ReplayBlocks *)
(* in each place those of it or of the block that it has got to; after a   *)
(* failed write only what is still in the cache can be relied on.          *)
CacheInv ==
  /\ Replaying => /\ old \in Blocks
                  /\ \A o \in Outpoints : CoinAt(o) \in {Utxo[old][o], Utxo[best][o]}
  /\ ~Replaying => \A o \in Outpoints : /\ tip[o] # NoEntry => tip[o].coin = Utxo[best][o]
                                        /\ ~lost => CoinAt(o) = Utxo[best][o]

(* The inductive invariant. *)
IInv ==
  /\ TypeOK
  /\ \A o \in Outpoints : Sound(tip[o], db[o])
  /\ fault \in {"none", "lost"}
  /\ fault = "lost" => job = "idle"
  /\ fault = "none" => DiskInv /\ CacheInv /\ (lost => job \in {"flush", "abort"})

-------------------------------------------------------------------------------
(* A set of naturals has a least element. *)
LEMMA Least ==
  ASSUME NEW S \in SUBSET Nat, S # {}
  PROVE  \E m \in S : \A n \in S : m <= n
<1>1. PICK m \in S : \A n \in S : ~(<<n, m>> \in OpToRel(<, Nat))
  BY NatLessThanWellFounded, WFMin
<1>2. ASSUME NEW n \in S PROVE m <= n
  <2>1. ~(n < m)
    BY <1>1 DEF OpToRel
  <2> QED
    BY <2>1
<1> QED
  BY <1>2

(* A set of blocks has a lowest one. *)
LEMMA Lowest ==
  ASSUME NEW S \in SUBSET Blocks, S # {}
  PROVE  \E b \in S : \A c \in S : Height[b] <= Height[c]
<1>1. \A b \in Blocks : Height[b] \in Nat
  BY TreeAssumption
<1>2. PICK H : H = {Height[b] : b \in S}
  OBVIOUS
<1>3. H \in SUBSET Nat /\ H # {}
  BY <1>1, <1>2
<1>4. PICK m \in H : \A n \in H : m <= n
  BY <1>3, Least
<1>5. PICK b \in S : Height[b] = m
  BY <1>2, <1>4
<1> QED
  BY <1>2, <1>4, <1>5

-------------------------------------------------------------------------------
(* Recursion along the chain of a block has a solution.  T[b] takes the    *)
(* value at the parent of b to that at b.                                  *)
Value(v0, T, f, b) == IF b = Genesis THEN v0 ELSE T[b][f[Parent[b]]]

SolvesTo(V, v0, T, f, n) ==
  f \in [Blocks -> V] /\ \A b \in Blocks : Height[b] <= n => f[b] = Value(v0, T, f, b)

LEMMA ParentLower ==
  ASSUME NEW b \in Blocks \ {Genesis}
  PROVE  Parent[b] \in Blocks /\ Height[Parent[b]] \in Nat /\ Height[b] = Height[Parent[b]] + 1
BY TreeAssumption

LEMMA Heights == \A b \in Blocks : Height[b] \in Nat
BY TreeAssumption

LEMMA SolutionTo ==
  ASSUME NEW V, NEW v0 \in V, NEW T \in [Blocks -> [V -> V]], NEW n \in Nat
  PROVE  \E f : SolvesTo(V, v0, T, f, n)
<1> DEFINE S == {k \in Nat : ~\E f : SolvesTo(V, v0, T, f, k)}
<1>1. SUFFICES ASSUME S # {} PROVE FALSE
  OBVIOUS
<1>2. PICK k \in S : \A m \in S : k <= m
  <2>1. S \in SUBSET Nat
    OBVIOUS
  <2> HIDE DEF S
  <2> QED BY <1>1, <2>1, Least
<1>3. k \in Nat /\ ~\E f : SolvesTo(V, v0, T, f, k)
  BY <1>2
<1>4. k # 0
  <2> SUFFICES ASSUME k = 0 PROVE FALSE
    OBVIOUS
  <2>1. PICK f : f = [b \in Blocks |-> v0]
    OBVIOUS
  <2>2. ASSUME NEW b \in Blocks, Height[b] <= 0 PROVE f[b] = Value(v0, T, f, b)
    <3>1. b = Genesis
      BY <2>2, ParentLower
    <3> QED
      BY <2>1, <3>1 DEF Value
  <2>3. SolvesTo(V, v0, T, f, 0)
    BY <2>1, <2>2 DEF SolvesTo
  <2> QED
    BY <1>3, <2>3
<1>5. k - 1 \in Nat /\ ~(k <= k - 1)
  BY <1>3, <1>4
<1>6. PICK f : SolvesTo(V, v0, T, f, k - 1)
  BY <1>2, <1>5
<1>7. f \in [Blocks -> V] /\ \A b \in Blocks : Height[b] <= k - 1 => f[b] = Value(v0, T, f, b)
  BY <1>6 DEF SolvesTo
<1>8. PICK g : g = [b \in Blocks |-> Value(v0, T, f, b)]
  OBVIOUS
<1>9. ASSUME NEW b \in Blocks PROVE g[b] = Value(v0, T, f, b) /\ g[b] \in V
  <2>1. CASE b = Genesis
    BY <1>8, <2>1 DEF Value
  <2>2. CASE b # Genesis
    <3>1. f[Parent[b]] \in V
      BY <1>7, <2>2, ParentLower
    <3> QED
      BY <1>8, <2>2, <3>1 DEF Value
  <2> QED
    BY <2>1, <2>2
<1>10. ASSUME NEW b \in Blocks, Height[b] <= k PROVE g[b] = Value(v0, T, g, b)
  <2>1. CASE b = Genesis
    BY <1>9, <2>1 DEF Value
  <2>2. CASE b # Genesis
    <3>1. Parent[b] \in Blocks /\ Height[Parent[b]] <= k - 1
      BY <1>3, <1>10, <2>2, ParentLower
    <3>2. g[Parent[b]] = f[Parent[b]]
      BY <1>7, <1>9, <3>1
    <3> QED
      BY <1>9, <2>2, <3>2 DEF Value
  <2> QED
    BY <2>1, <2>2
<1>11. g \in [Blocks -> V]
  BY <1>8, <1>9
<1>12. SolvesTo(V, v0, T, g, k)
  BY <1>10, <1>11 DEF SolvesTo
<1> QED
  BY <1>3, <1>12

LEMMA SolutionsAgree ==
  ASSUME NEW V, NEW v0, NEW T, NEW f, NEW g, NEW m \in Nat, NEW n \in Nat, m <= n,
         SolvesTo(V, v0, T, f, m), SolvesTo(V, v0, T, g, n)
  PROVE  \A b \in Blocks : Height[b] <= m => f[b] = g[b]
<1> DEFINE S == {b \in Blocks : Height[b] <= m /\ f[b] # g[b]}
<1>1. SUFFICES ASSUME S # {} PROVE FALSE
  OBVIOUS
<1>2. PICK b \in S : \A c \in S : Height[b] <= Height[c]
  <2>1. S \in SUBSET Blocks
    OBVIOUS
  <2> HIDE DEF S
  <2> QED BY <1>1, <2>1, Lowest
<1>3. b \in Blocks /\ Height[b] <= m /\ f[b] # g[b] /\ Height[b] \in Nat
  BY <1>2, Heights
<1>4. Height[b] <= n
  BY <1>3
<1>5. f[b] = Value(v0, T, f, b) /\ g[b] = Value(v0, T, g, b)
  BY <1>3, <1>4 DEF SolvesTo
<1>6. b # Genesis
  BY <1>3, <1>5 DEF Value
<1>7. Parent[b] \in Blocks /\ Height[Parent[b]] <= m /\ ~(Height[b] <= Height[Parent[b]])
  BY <1>3, <1>6, ParentLower
<1>8. f[Parent[b]] = g[Parent[b]]
  BY <1>2, <1>7
<1> QED
  BY <1>3, <1>5, <1>6, <1>8 DEF Value

LEMMA Solution ==
  ASSUME NEW V, NEW v0 \in V, NEW T \in [Blocks -> [V -> V]]
  PROVE  \E f \in [Blocks -> V] : \A b \in Blocks : f[b] = Value(v0, T, f, b)
<1>1. PICK s : s = [n \in Nat |-> CHOOSE f : SolvesTo(V, v0, T, f, n)]
  OBVIOUS
<1>2. ASSUME NEW n \in Nat PROVE SolvesTo(V, v0, T, s[n], n)
  <2>1. \E f : SolvesTo(V, v0, T, f, n)
    BY SolutionTo
  <2>2. s[n] = CHOOSE f : SolvesTo(V, v0, T, f, n)
    BY <1>1
  <2> QED
    BY <2>1, <2>2, Zenon
<1>3. PICK f : f = [b \in Blocks |-> s[Height[b]][b]]
  OBVIOUS
<1>4. \A b \in Blocks : f[b] = s[Height[b]][b]
  BY <1>3
<1>5. f \in [Blocks -> V]
  <2>1. \A b \in Blocks : s[Height[b]][b] \in V
    BY <1>2, Heights DEF SolvesTo
  <2> QED
    BY <1>3, <2>1
<1>6. ASSUME NEW b \in Blocks PROVE f[b] = Value(v0, T, f, b)
  <2>1. Height[b] \in Nat /\ Height[b] <= Height[b]
    BY Heights
  <2>2. f[b] = Value(v0, T, s[Height[b]], b)
    BY <1>2, <1>4, <2>1 DEF SolvesTo
  <2>3. CASE b = Genesis
    BY <2>2, <2>3 DEF Value
  <2>4. CASE b # Genesis
    <3>1. /\ Parent[b] \in Blocks /\ Height[Parent[b]] \in Nat /\ Height[Parent[b]] <= Height[b]
          /\ Height[Parent[b]] <= Height[Parent[b]]
      BY <2>4, ParentLower
    <3>2. s[Height[Parent[b]]][Parent[b]] = s[Height[b]][Parent[b]]
      BY <1>2, <2>1, <3>1, SolutionsAgree
    <3>3. f[Parent[b]] = s[Height[b]][Parent[b]]
      BY <1>4, <3>1, <3>2
    <3> QED
      BY <2>2, <2>4, <3>3 DEF Value
  <2> QED
    BY <2>3, <2>4
<1> QED
  BY <1>5, <1>6

(* The coins at a block, after those at its parent. *)
After(b, u) ==
  [o \in Outpoints |-> IF Spends(b, o) THEN Spent ELSE IF Creates(b, o) THEN Height[b] ELSE u[o]]

NoCoins == [o \in Outpoints |-> Spent]

LEMMA CoinTypes == Spent \in Coins /\ \A b \in Blocks : Height[b] \in Coins /\ Height[b] # Spent
BY TreeAssumption DEF Coins

LEMMA UtxoSolution ==
  \E f : f = [b \in Blocks |->
               [o \in Outpoints |->
                  IF b = Genesis \/ Spends(b, o) THEN Spent
                  ELSE IF Creates(b, o) THEN Height[b]
                  ELSE f[Parent[b]][o]]]
<1>1. PICK V : V = [Outpoints -> Coins]
  OBVIOUS
<1>2. NoCoins \in V
  BY <1>1, CoinTypes DEF NoCoins
<1>3. PICK T : T = [b \in Blocks |-> [u \in V |-> After(b, u)]]
  OBVIOUS
<1>4. \A b \in Blocks : \A u \in V : After(b, u) \in V
  BY <1>1, CoinTypes DEF After
<1>5. T \in [Blocks -> [V -> V]]
  BY <1>3, <1>4
<1>6. PICK f \in [Blocks -> V] : \A b \in Blocks : f[b] = Value(NoCoins, T, f, b)
  BY <1>2, <1>5, Solution
<1>7. ASSUME NEW b \in Blocks
      PROVE  f[b] = [o \in Outpoints |-> IF b = Genesis \/ Spends(b, o) THEN Spent
                                         ELSE IF Creates(b, o) THEN Height[b]
                                         ELSE f[Parent[b]][o]]
  <2>1. CASE b = Genesis
    <3>1. f[b] = NoCoins
      BY <1>6, <2>1 DEF Value
    <3> QED
      BY <2>1, <3>1 DEF NoCoins
  <2>2. CASE b # Genesis
    <3>1. f[Parent[b]] \in V
      BY <1>6, <2>2, ParentLower
    <3>2. f[b] = T[b][f[Parent[b]]]
      BY <1>6, <2>2 DEF Value
    <3>3. f[b] = After(b, f[Parent[b]])
      BY <1>3, <3>1, <3>2
    <3> QED
      BY <2>2, <3>3 DEF After
  <2> QED
    BY <2>1, <2>2
<1>8. f = [b \in Blocks |-> f[b]]
  BY <1>6
<1>9. f = [b \in Blocks |-> [o \in Outpoints |-> IF b = Genesis \/ Spends(b, o) THEN Spent
                                                 ELSE IF Creates(b, o) THEN Height[b]
                                                 ELSE f[Parent[b]][o]]]
  BY <1>7, <1>8
<1> QED
  BY <1>9

LEMMA UtxoUnfolds ==
  Utxo = [b \in Blocks |->
            [o \in Outpoints |->
               IF b = Genesis \/ Spends(b, o) THEN Spent
               ELSE IF Creates(b, o) THEN Height[b]
               ELSE Utxo[Parent[b]][o]]]
BY UtxoSolution, Zenon DEF Utxo

(* The unspent coins, block by block. *)
LEMMA UtxoAt ==
  /\ Utxo[Genesis] = NoCoins
  /\ \A b \in Blocks \ {Genesis} : Utxo[b] = After(b, Utxo[Parent[b]])
<1>1. Utxo[Genesis] = NoCoins
  <2>1. Genesis \in Blocks
    BY TreeAssumption
  <2> QED
    BY <2>1, UtxoUnfolds DEF NoCoins
<1>2. ASSUME NEW b \in Blocks \ {Genesis} PROVE Utxo[b] = After(b, Utxo[Parent[b]])
  BY UtxoUnfolds DEF After
<1> QED
  BY <1>1, <1>2

LEMMA UtxoTypes == \A b \in Blocks : Utxo[b] \in [Outpoints -> Coins]
<1> DEFINE S == {b \in Blocks : Utxo[b] \notin [Outpoints -> Coins]}
<1>1. SUFFICES ASSUME S # {} PROVE FALSE
  OBVIOUS
<1>2. PICK b \in S : \A c \in S : Height[b] <= Height[c]
  <2>1. S \in SUBSET Blocks
    OBVIOUS
  <2> HIDE DEF S
  <2> QED BY <1>1, <2>1, Lowest
<1>3. b \in Blocks /\ Utxo[b] \notin [Outpoints -> Coins]
  BY <1>2
<1>4. b # Genesis
  BY <1>3, UtxoAt, CoinTypes DEF NoCoins
<1>5. Parent[b] \in Blocks /\ ~(Height[b] <= Height[Parent[b]])
  BY <1>3, <1>4, ParentLower
<1>6. Utxo[Parent[b]] \in [Outpoints -> Coins]
  BY <1>2, <1>5
<1>7. After(b, Utxo[Parent[b]]) \in [Outpoints -> Coins]
  BY <1>3, <1>6, CoinTypes DEF After
<1> QED
  BY <1>3, <1>4, <1>7, UtxoAt

LEMMA AncestorsUnfold ==
  Ancestors = [b \in Blocks |-> {b} \cup IF b = Genesis THEN {} ELSE Ancestors[Parent[b]]]
<1>1. PICK V : V = SUBSET Blocks
  OBVIOUS
<1>2. {Genesis} \in V
  BY <1>1, TreeAssumption
<1>3. PICK T : T = [b \in Blocks |-> [u \in V |-> {b} \cup u]]
  OBVIOUS
<1>4. T \in [Blocks -> [V -> V]]
  BY <1>1, <1>3
<1>5. PICK f \in [Blocks -> V] : \A b \in Blocks : f[b] = Value({Genesis}, T, f, b)
  BY <1>2, <1>4, Solution
<1>6. ASSUME NEW b \in Blocks PROVE f[b] = {b} \cup IF b = Genesis THEN {} ELSE f[Parent[b]]
  <2>1. CASE b = Genesis
    BY <1>5, <2>1 DEF Value
  <2>2. CASE b # Genesis
    <3>1. f[Parent[b]] \in V
      BY <1>5, <2>2, ParentLower
    <3>2. f[b] = T[b][f[Parent[b]]]
      BY <1>5, <2>2 DEF Value
    <3> QED
      BY <1>3, <2>2, <3>1, <3>2
  <2> QED
    BY <2>1, <2>2
<1>7. f = [b \in Blocks |-> f[b]]
  BY <1>5
<1>8. f = [b \in Blocks |-> {b} \cup IF b = Genesis THEN {} ELSE f[Parent[b]]]
  BY <1>6, <1>7
<1> QED
  BY <1>8, Zenon DEF Ancestors

LEMMA AncestorsAt ==
  /\ Ancestors[Genesis] = {Genesis}
  /\ \A b \in Blocks \ {Genesis} : Ancestors[b] = {b} \cup Ancestors[Parent[b]]
<1>1. Genesis \in Blocks
  BY TreeAssumption
<1> QED
  BY <1>1, AncestorsUnfold

LEMMA GenesisAncestor == \A b \in Blocks : Genesis \in Ancestors[b]
<1> DEFINE S == {b \in Blocks : Genesis \notin Ancestors[b]}
<1>1. SUFFICES ASSUME S # {} PROVE FALSE
  OBVIOUS
<1>2. PICK b \in S : \A c \in S : Height[b] <= Height[c]
  <2>1. S \in SUBSET Blocks
    OBVIOUS
  <2> HIDE DEF S
  <2> QED BY <1>1, <2>1, Lowest
<1>3. b \in Blocks /\ Genesis \notin Ancestors[b]
  BY <1>2
<1>4. b # Genesis
  BY <1>3, AncestorsAt
<1>5. Parent[b] \in Blocks /\ ~(Height[b] <= Height[Parent[b]])
  BY <1>3, <1>4, ParentLower
<1> QED
  BY <1>2, <1>3, <1>4, <1>5, AncestorsAt

-------------------------------------------------------------------------------
(* Entries of a cache. *)
Entries == Entry \cup {NoEntry}

LEMMA Fetching ==
  ASSUME NEW e \in Entries, NEW below \in Coins, Sound(e, below)
  PROVE  /\ FetchCoin(e, below) \in Entries /\ Sound(FetchCoin(e, below), below)
         /\ GetCoin(FetchCoin(e, below), below) = GetCoin(e, below)
         /\ FetchCoin(e, below) = NoEntry => e = NoEntry /\ below = Spent
         /\ GetCoin(e, below) \in Coins
<1>1. NoEntry \notin Entry
  BY EntryAssumption
<1>2. CASE e # NoEntry \/ below = Spent
  BY <1>1, <1>2 DEF FetchCoin, GetCoin, Entries, Entry
<1>3. CASE e = NoEntry /\ below # Spent
  <2>1. PICK r : r = [coin |-> below, dirty |-> FALSE, fresh |-> FALSE]
    OBVIOUS
  <2>2. FetchCoin(e, below) = r
    BY <1>3, <2>1 DEF FetchCoin
  <2>3. r \in Entry /\ r.coin = below /\ r.fresh = FALSE /\ r.dirty = FALSE
    BY <2>1 DEF Entry
  <2> QED
    BY <1>1, <1>3, <2>2, <2>3 DEF GetCoin, Entries, Sound
<1> QED
  BY <1>2, <1>3

(* AddCoin, of an outpoint without a coin unless it may be overwritten. *)
LEMMA Adding ==
  ASSUME NEW e \in Entries, NEW below \in Coins, Sound(e, below), NEW c \in Coins, NEW w \in BOOLEAN,
         w \/ GetCoin(e, below) = Spent
  PROVE  /\ AddCoin(e, c, w) \in Entry /\ AddCoin(e, c, w) # NoEntry
         /\ Sound(AddCoin(e, c, w), below) /\ AddCoin(e, c, w).coin = c
<1>1. NoEntry \notin Entry
  BY EntryAssumption
<1>2. PICK it : it = IF e = NoEntry THEN Blank ELSE e
  OBVIOUS
<1>3. it \in Entry /\ it.fresh \in BOOLEAN /\ it.dirty \in BOOLEAN
  BY <1>2, CoinTypes DEF Blank, Entries, Entry
<1>4. PICK r : r = [coin |-> c, dirty |-> TRUE, fresh |-> it.fresh \/ (~w /\ ~it.dirty)]
  OBVIOUS
<1>5. AddCoin(e, c, w) = r
  BY <1>2, <1>4 DEF AddCoin
<1>6. r \in Entry /\ r.coin = c /\ r.dirty = TRUE /\ r.fresh = (it.fresh \/ (~w /\ ~it.dirty))
  BY <1>3, <1>4 DEF Entry
<1>7. it.fresh => below = Spent
  BY <1>2 DEF Blank, Sound
<1>8. ~w /\ ~it.dirty => below = Spent
  BY <1>2 DEF Sound, GetCoin
<1> QED
  BY <1>1, <1>5, <1>6, <1>7, <1>8 DEF Sound

(* SpendCoin. *)
LEMMA Spending ==
  ASSUME NEW e \in Entries, NEW below \in Coins, Sound(e, below)
  PROVE  /\ SpendCoin(e, below) \in Entries /\ Sound(SpendCoin(e, below), below)
         /\ GetCoin(SpendCoin(e, below), below) = Spent
<1>1. NoEntry \notin Entry
  BY EntryAssumption
<1>2. PICK it : it = FetchCoin(e, below)
  OBVIOUS
<1>3. it \in Entries /\ Sound(it, below) /\ (it = NoEntry => below = Spent)
  BY <1>2, Fetching
<1>4. CASE it = NoEntry \/ it.fresh
  <2>1. SpendCoin(e, below) = NoEntry
    BY <1>2, <1>4 DEF SpendCoin
  <2>2. below = Spent
    BY <1>3, <1>4 DEF Sound
  <2> QED
    BY <2>1, <2>2 DEF Entries, Sound, GetCoin
<1>5. CASE it # NoEntry /\ ~it.fresh
  <2>1. PICK r : r = [it EXCEPT !.dirty = TRUE, !.coin = Spent]
    OBVIOUS
  <2>2. SpendCoin(e, below) = r
    BY <1>2, <1>5, <2>1 DEF SpendCoin
  <2>3. it \in Entry
    BY <1>3, <1>5 DEF Entries
  <2>4. r \in Entry /\ r.dirty = TRUE /\ r.coin = Spent /\ r.fresh = it.fresh
    BY <2>1, <2>3, CoinTypes DEF Entry
  <2> QED
    BY <1>1, <1>5, <2>2, <2>4 DEF Entries, Sound, GetCoin
<1> QED
  BY <1>4, <1>5

(* BatchWrite: what is seen through the child is seen through the parent,  *)
(* and FRESH is not misapplied.                                            *)
LEMMA Merging ==
  ASSUME NEW us \in Entries, NEW below \in Coins, Sound(us, below),
         NEW it \in Entries, Sound(it, GetCoin(us, below))
  PROVE  /\ BatchWrite(us, it) \in Entries /\ Sound(BatchWrite(us, it), below)
         /\ GetCoin(BatchWrite(us, it), below) = GetCoin(it, GetCoin(us, below))
         /\ ~Misapplied(us, it)
<1>1. NoEntry \notin Entry
  BY EntryAssumption
<1>2. ~Misapplied(us, it)
  BY DEF Misapplied, Sound, GetCoin
<1>3. CASE it = NoEntry \/ ~it.dirty
  <2>1. BatchWrite(us, it) = us
    BY <1>3 DEF BatchWrite
  <2> QED
    BY <1>2, <1>3, <2>1 DEF Sound, GetCoin
<1>4. CASE it # NoEntry /\ it.dirty /\ us = NoEntry
  <2>1. BatchWrite(us, it) = IF it.fresh /\ it.coin = Spent THEN NoEntry ELSE it
    BY <1>4 DEF BatchWrite
  <2>2. GetCoin(us, below) = below
    BY <1>4 DEF GetCoin
  <2>3. CASE it.fresh /\ it.coin = Spent
    BY <1>2, <1>4, <2>1, <2>2, <2>3 DEF Sound, GetCoin, Entries
  <2>4. CASE ~(it.fresh /\ it.coin = Spent)
    BY <1>2, <1>4, <2>1, <2>2, <2>4 DEF Sound, GetCoin, Entries
  <2> QED
    BY <2>3, <2>4
<1>5. CASE it # NoEntry /\ it.dirty /\ us # NoEntry
  <2>1. us \in Entry /\ it \in Entry
    BY <1>5 DEF Entries
  <2>2. CASE us.fresh /\ it.coin = Spent
    <3>1. BatchWrite(us, it) = NoEntry
      BY <1>5, <2>2 DEF BatchWrite
    <3> QED
      BY <1>2, <1>5, <2>2, <3>1 DEF Sound, GetCoin, Entries
  <2>3. CASE ~(us.fresh /\ it.coin = Spent)
    <3>1. PICK r : r = [us EXCEPT !.coin = it.coin, !.dirty = TRUE]
      OBVIOUS
    <3>2. BatchWrite(us, it) = r
      BY <1>5, <2>3, <3>1 DEF BatchWrite
    <3>3. r \in Entry /\ r.coin = it.coin /\ r.dirty = TRUE /\ r.fresh = us.fresh
      BY <2>1, <3>1 DEF Entry
    <3> QED
      BY <1>1, <1>2, <1>5, <3>2, <3>3 DEF Sound, GetCoin, Entries
  <2> QED
    BY <2>2, <2>3
<1> QED
  BY <1>3, <1>4, <1>5

-------------------------------------------------------------------------------
(* Blocks in a cache. *)
LEMMA UtxoCases ==
  ASSUME NEW b \in Blocks \ {Genesis}, NEW o \in Outpoints
  PROVE  /\ Parent[b] \in Blocks /\ Utxo[Parent[b]][o] \in Coins /\ Utxo[b][o] \in Coins
         /\ Utxo[b][o] = IF Spends(b, o) THEN Spent ELSE IF Creates(b, o) THEN Height[b] ELSE Utxo[Parent[b]][o]
         /\ Creates(b, o) => Utxo[Parent[b]][o] = Spent
         /\ Spends(b, o) => Creates(b, o) \/ Utxo[Parent[b]][o] # Spent
         /\ Height[b] \in Coins /\ Height[b] # Spent
<1>1. Parent[b] \in Blocks
  BY ParentLower
<1>2. Utxo[Parent[b]][o] \in Coins /\ Utxo[b][o] \in Coins
  BY <1>1, UtxoTypes
<1>3. Utxo[b][o] = IF Spends(b, o) THEN Spent ELSE IF Creates(b, o) THEN Height[b] ELSE Utxo[Parent[b]][o]
  BY UtxoAt, ZenonT(60) DEF After
<1> QED
  BY <1>1, <1>2, <1>3, CoinTypes, ValidAssumption

Touches(b, o) == Creates(b, o) \/ Spends(b, o)

LEMMA HaveCoins ==
  ASSUME NEW e \in Entries, NEW below \in Coins, Sound(e, below)
  PROVE  /\ HaveCoin(FetchCoin(e, below), below) \in BOOLEAN
         /\ HaveCoin(FetchCoin(e, below), below) <=> GetCoin(e, below) # Spent
<1>1. GetCoin(FetchCoin(e, below), below) = GetCoin(e, below)
  BY Fetching
<1> QED
  BY <1>1 DEF HaveCoin

LEMMA ConnectedCoin ==
  ASSUME NEW b \in Blocks \ {Genesis}, NEW o \in Outpoints, NEW e \in Entries, NEW below \in Coins,
         Sound(e, below), GetCoin(e, below) = Utxo[Parent[b]][o]
  PROVE  /\ Connected(b, o, e, below) \in Entries /\ Sound(Connected(b, o, e, below), below)
         /\ GetCoin(Connected(b, o, e, below), below) = Utxo[b][o]
         /\ ~Touches(b, o) => Connected(b, o, e, below) = e
<1>1. /\ Utxo[b][o] = IF Spends(b, o) THEN Spent ELSE IF Creates(b, o) THEN Height[b] ELSE Utxo[Parent[b]][o]
      /\ Creates(b, o) => Utxo[Parent[b]][o] = Spent
      /\ Height[b] \in Coins
  BY UtxoCases
<1>2. PICK made : made = IF Creates(b, o) THEN AddCoin(e, Height[b], o \in Coinbase) ELSE e
  OBVIOUS
<1>3. made \in Entries /\ Sound(made, below)
      /\ GetCoin(made, below) = IF Creates(b, o) THEN Height[b] ELSE Utxo[Parent[b]][o]
  <2>1. CASE Creates(b, o)
    <3>1. (o \in Coinbase) \in BOOLEAN /\ GetCoin(e, below) = Spent
      BY <1>1, <2>1
    <3>2. made \in Entry /\ made # NoEntry /\ Sound(made, below) /\ made.coin = Height[b]
      BY <1>1, <1>2, <2>1, <3>1, Adding
    <3> QED
      BY <2>1, <3>2 DEF Entries, GetCoin
  <2>2. CASE ~Creates(b, o)
    BY <1>2, <2>2
  <2> QED
    BY <2>1, <2>2
<1>4. Connected(b, o, e, below) = IF Spends(b, o) THEN SpendCoin(made, below) ELSE made
  BY <1>2 DEF Connected
<1>5. CASE Spends(b, o)
  BY <1>1, <1>3, <1>4, <1>5, Spending DEF Touches
<1>6. CASE ~Spends(b, o)
  BY <1>1, <1>2, <1>3, <1>4, <1>6 DEF Touches
<1> QED
  BY <1>5, <1>6

LEMMA DisconnectedCoin ==
  ASSUME NEW b \in Blocks \ {Genesis}, NEW o \in Outpoints, NEW e \in Entries, NEW below \in Coins,
         Sound(e, below)
  PROVE  /\ Disconnected(b, o, e, below) \in Entries /\ Sound(Disconnected(b, o, e, below), below)
         /\ Touches(b, o) => GetCoin(Disconnected(b, o, e, below), below) = Utxo[Parent[b]][o]
         /\ ~Touches(b, o) => Disconnected(b, o, e, below) = e
<1>1. /\ Creates(b, o) => Utxo[Parent[b]][o] = Spent
      /\ Height[b] \in Coins /\ Utxo[Parent[b]][o] \in Coins
  BY UtxoCases
<1>2. PICK it : it = FetchCoin(e, below)
  OBVIOUS
<1>3. it \in Entries /\ Sound(it, below) /\ GetCoin(it, below) = GetCoin(e, below)
  BY <1>2, Fetching
<1>4. HaveCoin(it, below) \in BOOLEAN /\ (HaveCoin(it, below) \/ GetCoin(it, below) = Spent)
  BY <1>2, <1>3, HaveCoins
<1>5. Undo(b, o) \in Coins /\ (~Creates(b, o) => Undo(b, o) = Utxo[Parent[b]][o])
  BY <1>1 DEF Undo
<1>6. PICK restored : restored = IF Spends(b, o) THEN AddCoin(it, Undo(b, o), HaveCoin(it, below)) ELSE e
  OBVIOUS
<1>7. restored \in Entries /\ Sound(restored, below)
      /\ (Spends(b, o) => GetCoin(restored, below) = Undo(b, o))
  <2>1. CASE Spends(b, o)
    <3>1. restored \in Entry /\ restored # NoEntry /\ Sound(restored, below) /\ restored.coin = Undo(b, o)
      BY <1>3, <1>4, <1>5, <1>6, <2>1, Adding
    <3> QED
      BY <2>1, <3>1 DEF Entries, GetCoin
  <2>2. CASE ~Spends(b, o)
    BY <1>6, <2>2
  <2> QED
    BY <2>1, <2>2
<1>8. Disconnected(b, o, e, below) = IF Creates(b, o) THEN SpendCoin(restored, below) ELSE restored
  BY <1>2, <1>6 DEF Disconnected
<1>9. CASE Creates(b, o)
  BY <1>1, <1>7, <1>8, <1>9, Spending DEF Touches
<1>10. CASE ~Creates(b, o)
  BY <1>5, <1>6, <1>7, <1>8, <1>10 DEF Touches
<1> QED
  BY <1>9, <1>10

LEMMA RolledForwardCoin ==
  ASSUME NEW b \in Blocks \ {Genesis}, NEW o \in Outpoints, NEW e \in Entries, NEW below \in Coins,
         Sound(e, below)
  PROVE  /\ RolledForward(b, o, e, below) \in Entries /\ Sound(RolledForward(b, o, e, below), below)
         /\ Touches(b, o) => GetCoin(RolledForward(b, o, e, below), below) = Utxo[b][o]
         /\ ~Touches(b, o) => RolledForward(b, o, e, below) = e
<1>1. /\ Utxo[b][o] = IF Spends(b, o) THEN Spent ELSE IF Creates(b, o) THEN Height[b] ELSE Utxo[Parent[b]][o]
      /\ Height[b] \in Coins
  BY UtxoCases
<1>2. PICK it : it = FetchCoin(e, below)
  OBVIOUS
<1>3. it \in Entries /\ Sound(it, below) /\ GetCoin(it, below) = GetCoin(e, below)
  BY <1>2, Fetching
<1>4. HaveCoin(it, below) \in BOOLEAN /\ (HaveCoin(it, below) \/ GetCoin(it, below) = Spent)
  BY <1>2, <1>3, HaveCoins
<1>5. PICK made : made = IF Creates(b, o) THEN AddCoin(it, Height[b], HaveCoin(it, below)) ELSE e
  OBVIOUS
<1>6. made \in Entries /\ Sound(made, below)
      /\ (Creates(b, o) => GetCoin(made, below) = Height[b])
  <2>1. CASE Creates(b, o)
    <3>1. made \in Entry /\ made # NoEntry /\ Sound(made, below) /\ made.coin = Height[b]
      BY <1>1, <1>3, <1>4, <1>5, <2>1, Adding
    <3> QED
      BY <2>1, <3>1 DEF Entries, GetCoin
  <2>2. CASE ~Creates(b, o)
    BY <1>5, <2>2
  <2> QED
    BY <2>1, <2>2
<1>7. RolledForward(b, o, e, below) = IF Spends(b, o) THEN SpendCoin(made, below) ELSE made
  BY <1>2, <1>5 DEF RolledForward
<1>8. CASE Spends(b, o)
  BY <1>1, <1>6, <1>7, <1>8, Spending DEF Touches
<1>9. CASE ~Spends(b, o)
  BY <1>1, <1>5, <1>6, <1>7, <1>9 DEF Touches
<1> QED
  BY <1>8, <1>9

-------------------------------------------------------------------------------
(* The steps. *)
LEMMA Types ==
  ASSUME IInv
  PROVE  /\ \A o \in Outpoints : tip[o] \in Entries /\ db[o] \in Coins /\ Sound(tip[o], db[o])
         /\ tip \in [Outpoints -> Entries] /\ db \in [Outpoints -> Coins]
         /\ best \in Blocks /\ best_db \in Blocks \cup {NoBlock} /\ old \in Blocks \cup {NoBlock}
         /\ heads = <<>> \/ (heads[1] \in Blocks /\ heads[2] \in Blocks \cup {NoBlock})
         /\ lost \in BOOLEAN
BY DEF IInv, TypeOK, Entries

LEMMA CoinsOfTypes ==
  /\ \A b \in Blocks : CoinsOf(b) = Utxo[b] /\ CoinsOf(b) \in [Outpoints -> Coins]
  /\ CoinsOf(NoBlock) = NoCoins /\ NoCoins \in [Outpoints -> Coins]
  /\ \A o \in Outpoints : NoCoins[o] = Spent
<1>1. NoBlock \notin Blocks
  BY TreeAssumption
<1> QED
  BY <1>1, UtxoTypes, CoinTypes DEF CoinsOf, NoCoins

LEMMA Started == Init => IInv
<1> SUFFICES ASSUME Init PROVE IInv
  OBVIOUS
<1>1. Genesis \in Blocks
  BY TreeAssumption
<1>2. /\ db = NoCoins /\ best_db = NoBlock /\ heads = <<>>
      /\ tip = Empty /\ best = Genesis /\ job = "idle" /\ old = NoBlock
      /\ lost = FALSE /\ fault = "none"
  BY DEF Init, NoCoins
<1>3. \A o \in Outpoints : tip[o] = NoEntry
  BY <1>2 DEF Empty
<1>4. TypeOK
  BY <1>1, <1>2, CoinsOfTypes DEF TypeOK, Empty
<1>5. DiskInv
  BY <1>2, CoinsOfTypes DEF DiskInv
<1>6. \A o \in Outpoints : CoinAt(o) = Utxo[best][o]
  BY <1>2, <1>3, UtxoAt, CoinsOfTypes DEF CoinAt, GetCoin
<1>7. CacheInv
  BY <1>2, <1>3, <1>6 DEF CacheInv, Replaying
<1>8. \A o \in Outpoints : Sound(tip[o], db[o])
  BY <1>3 DEF Sound
<1> QED
  BY <1>2, <1>4, <1>5, <1>7, <1>8 DEF IInv

(* What a step that changes the cache of an idle node has to keep. *)
LEMMA IdleStep ==
  ASSUME IInv, Ready, best' \in Blocks, tip' \in [Outpoints -> Entries], fault' = "none",
         UNCHANGED <<db, best_db, heads, job, old, lost>>,
         \A o \in Outpoints : Sound(tip'[o], db[o]) /\ GetCoin(tip'[o], db[o]) = Utxo[best'][o]
  PROVE  IInv'
<1>1. job = "idle" /\ fault = "none"
  BY DEF Ready
<1>2. TypeOK /\ DiskInv
  BY <1>1 DEF IInv
<1>3. heads = <<>> /\ db = CoinsOf(best_db) /\ ~lost
  BY <1>1, <1>2 DEF DiskInv, IInv
<1>4. TypeOK'
  BY <1>2 DEF TypeOK, Entries
<1>5. DiskInv'
  BY <1>1, <1>3 DEF DiskInv
<1>6. CacheInv'
  BY <1>1, <1>3 DEF CacheInv, Replaying, CoinAt, GetCoin
<1> QED
  BY <1>1, <1>3, <1>4, <1>5, <1>6 DEF IInv

LEMMA IdleCoins ==
  ASSUME IInv, Ready
  PROVE  \A o \in Outpoints : CoinAt(o) = Utxo[best][o]
BY DEF IInv, Ready, CacheInv, Replaying

LEMMA AccessStep ==
  ASSUME IInv, NEW p \in Outpoints, AccessCoin(p)
  PROVE  IInv'
<1>1. /\ Ready /\ tip' = [tip EXCEPT ![p] = Fetched(p)]
      /\ UNCHANGED <<db, best_db, heads, best, job, old, lost, fault>>
  BY DEF AccessCoin
<1>2. /\ \A o \in Outpoints : tip[o] \in Entries /\ db[o] \in Coins /\ Sound(tip[o], db[o])
      /\ tip \in [Outpoints -> Entries] /\ best \in Blocks
  BY Types
<1>3. \A o \in Outpoints : GetCoin(tip[o], db[o]) = Utxo[best][o]
  BY <1>1, IdleCoins DEF CoinAt
<1>4. Fetched(p) \in Entries /\ Sound(Fetched(p), db[p]) /\ GetCoin(Fetched(p), db[p]) = Utxo[best][p]
  BY <1>2, <1>3, Fetching DEF Fetched
<1>5. \A o \in Outpoints : Sound(tip'[o], db[o]) /\ GetCoin(tip'[o], db[o]) = Utxo[best'][o]
  BY <1>1, <1>2, <1>3, <1>4
<1>6. tip' \in [Outpoints -> Entries]
  BY <1>1, <1>2, <1>4
<1> QED
  BY <1>1, <1>2, <1>5, <1>6, IdleStep DEF Ready

LEMMA UncacheStep ==
  ASSUME IInv, NEW p \in Outpoints, Uncache(p)
  PROVE  IInv'
<1>1. /\ Ready /\ tip[p] # NoEntry /\ ~tip[p].dirty /\ tip' = [tip EXCEPT ![p] = NoEntry]
      /\ UNCHANGED <<db, best_db, heads, best, job, old, lost, fault>>
  BY DEF Uncache
<1>2. /\ \A o \in Outpoints : tip[o] \in Entries /\ db[o] \in Coins /\ Sound(tip[o], db[o])
      /\ tip \in [Outpoints -> Entries] /\ best \in Blocks
  BY Types
<1>3. \A o \in Outpoints : GetCoin(tip[o], db[o]) = Utxo[best][o]
  BY <1>1, IdleCoins DEF CoinAt
<1>4. NoEntry \in Entries /\ Sound(NoEntry, db[p]) /\ GetCoin(NoEntry, db[p]) = Utxo[best][p]
  BY <1>1, <1>2, <1>3 DEF Entries, Sound, GetCoin
<1>5. \A o \in Outpoints : Sound(tip'[o], db[o]) /\ GetCoin(tip'[o], db[o]) = Utxo[best'][o]
  BY <1>1, <1>2, <1>3, <1>4
<1>6. tip' \in [Outpoints -> Entries]
  BY <1>1, <1>2, <1>4
<1> QED
  BY <1>1, <1>2, <1>5, <1>6, IdleStep DEF Ready

(* A view over the tip, flushed. *)
LEMMA MergedCoins ==
  ASSUME IInv, NEW S, NEW view, NEW c,
         \A o \in Outpoints : /\ view[o] \in Entries /\ Sound(view[o], CoinAt(o))
                              /\ GetCoin(view[o], CoinAt(o)) = c[o]
                              /\ o \notin S => view[o] = NoEntry
  PROVE  /\ Merged(S, view) \in [Outpoints -> Entries]
         /\ \A o \in Outpoints : /\ Sound(Merged(S, view)[o], db[o])
                                 /\ GetCoin(Merged(S, view)[o], db[o]) = c[o]
                                 /\ ~Misapplied(Fetched(o), view[o])
<1>1. \A o \in Outpoints : tip[o] \in Entries /\ db[o] \in Coins /\ Sound(tip[o], db[o])
  BY Types
<1>2. ASSUME NEW o \in Outpoints
      PROVE  /\ BatchWrite(IF o \in S THEN Fetched(o) ELSE tip[o], view[o]) \in Entries
             /\ Sound(BatchWrite(IF o \in S THEN Fetched(o) ELSE tip[o], view[o]), db[o])
             /\ GetCoin(BatchWrite(IF o \in S THEN Fetched(o) ELSE tip[o], view[o]), db[o]) = c[o]
             /\ ~Misapplied(Fetched(o), view[o])
  <2>1. /\ Fetched(o) \in Entries /\ Sound(Fetched(o), db[o])
        /\ GetCoin(Fetched(o), db[o]) = CoinAt(o) /\ GetCoin(tip[o], db[o]) = CoinAt(o)
    BY <1>1, Fetching DEF Fetched, CoinAt
  <2>2. ~Misapplied(Fetched(o), view[o])
    BY <1>1, <2>1, Merging
  <2>3. PICK us : us = IF o \in S THEN Fetched(o) ELSE tip[o]
    OBVIOUS
  <2>4. us \in Entries /\ Sound(us, db[o]) /\ GetCoin(us, db[o]) = CoinAt(o)
    BY <1>1, <2>1, <2>3
  <2>5. /\ BatchWrite(us, view[o]) \in Entries /\ Sound(BatchWrite(us, view[o]), db[o])
        /\ GetCoin(BatchWrite(us, view[o]), db[o]) = c[o]
    BY <1>1, <2>4, Merging
  <2> QED
    BY <2>2, <2>3, <2>5
<1> QED
  BY <1>2 DEF Merged

LEMMA ConnectTipStep ==
  ASSUME IInv, NEW b \in Blocks, ConnectTip(b)
  PROVE  /\ IInv' /\ Ready' /\ b # Genesis /\ Parent[b] = best /\ best' = b
         /\ \A o \in Outpoints : CoinAt(o)' = Utxo[b][o]
<1>1. PICK view : view = [o \in Outpoints |-> Connected(b, o, NoEntry, CoinAt(o))]
  OBVIOUS
<1>2. /\ Ready /\ b # Genesis /\ Parent[b] = best
      /\ fault' = IF \E o \in Tree[b].spends \ Tree[b].creates : CoinAt(o) = Spent
                  THEN "spent"
                  ELSE IF \E o \in Outpoints : Misapplied(Fetched(o), view[o])
                  THEN "fresh" ELSE "none"
      /\ tip' = Merged(Tree[b].spends \cup Tree[b].creates, view)
      /\ best' = b
      /\ UNCHANGED <<db, best_db, heads, job, old, lost>>
  BY <1>1 DEF ConnectTip
<1>3. \A o \in Outpoints : CoinAt(o) = Utxo[Parent[b]][o] /\ CoinAt(o) \in Coins
  BY <1>2, IdleCoins, UtxoTypes, ParentLower
<1>4. ASSUME NEW o \in Outpoints
      PROVE  /\ view[o] \in Entries /\ Sound(view[o], CoinAt(o))
             /\ GetCoin(view[o], CoinAt(o)) = Utxo[b][o]
             /\ o \notin Tree[b].spends \cup Tree[b].creates => view[o] = NoEntry
  <2>1. NoEntry \in Entries /\ Sound(NoEntry, CoinAt(o)) /\ GetCoin(NoEntry, CoinAt(o)) = CoinAt(o)
    BY DEF Entries, Sound, GetCoin
  <2>2. view[o] = Connected(b, o, NoEntry, CoinAt(o))
    BY <1>1
  <2>3. o \notin Tree[b].spends \cup Tree[b].creates => ~Touches(b, o)
    BY DEF Touches, Creates, Spends
  <2> QED
    BY <1>2, <1>3, <2>1, <2>2, <2>3, ConnectedCoin
<1>5. /\ tip' \in [Outpoints -> Entries]
      /\ \A o \in Outpoints : /\ Sound(tip'[o], db[o]) /\ GetCoin(tip'[o], db[o]) = Utxo[b][o]
                              /\ ~Misapplied(Fetched(o), view[o])
  BY <1>2, <1>4, MergedCoins
<1>6. ~\E o \in Tree[b].spends \ Tree[b].creates : CoinAt(o) = Spent
  <2> SUFFICES ASSUME NEW o \in Tree[b].spends \ Tree[b].creates PROVE CoinAt(o) # Spent
    OBVIOUS
  <2>1. o \in Outpoints /\ Spends(b, o) /\ ~Creates(b, o)
    BY TreeAssumption DEF Spends, Creates
  <2> QED
    BY <1>2, <1>3, <2>1, ValidAssumption
<1>7. fault' = "none"
  BY <1>2, <1>5, <1>6
<1>8. IInv'
  BY <1>2, <1>5, <1>7, IdleStep
<1> QED
  BY <1>2, <1>5, <1>7, <1>8 DEF Ready, CoinAt

LEMMA DisconnectTipStep ==
  ASSUME IInv, DisconnectTip
  PROVE  /\ IInv' /\ Ready' /\ best \in Blocks \ {Genesis} /\ best' = Parent[best]
         /\ \A o \in Outpoints : CoinAt(o)' = Utxo[Parent[best]][o]
<1>1. PICK view : view = [o \in Outpoints |-> Disconnected(best, o, NoEntry, CoinAt(o))]
  OBVIOUS
<1>2. /\ Ready /\ best # Genesis
      /\ fault' = IF \E o \in Outpoints : ~Clean(best, o, NoEntry, CoinAt(o))
                  THEN "unclean"
                  ELSE IF \E o \in Outpoints : Misapplied(Fetched(o), view[o])
                  THEN "fresh" ELSE "none"
      /\ tip' = Merged(Tree[best].spends \cup Tree[best].creates, view)
      /\ best' = Parent[best]
      /\ UNCHANGED <<db, best_db, heads, job, old, lost>>
  BY <1>1 DEF DisconnectTip
<1>3. best \in Blocks \ {Genesis} /\ Parent[best] \in Blocks
  BY <1>2, Types, ParentLower
<1>4. \A o \in Outpoints : CoinAt(o) = Utxo[best][o] /\ CoinAt(o) \in Coins
  BY <1>2, <1>3, IdleCoins, UtxoTypes
<1>5. ASSUME NEW o \in Outpoints
      PROVE  /\ view[o] \in Entries /\ Sound(view[o], CoinAt(o))
             /\ GetCoin(view[o], CoinAt(o)) = Utxo[Parent[best]][o]
             /\ o \notin Tree[best].spends \cup Tree[best].creates => view[o] = NoEntry
             /\ Clean(best, o, NoEntry, CoinAt(o))
  <2>1. NoEntry \in Entries /\ Sound(NoEntry, CoinAt(o)) /\ GetCoin(NoEntry, CoinAt(o)) = CoinAt(o)
    BY DEF Entries, Sound, GetCoin
  <2>2. view[o] = Disconnected(best, o, NoEntry, CoinAt(o))
    BY <1>1
  <2>3. o \notin Tree[best].spends \cup Tree[best].creates => ~Touches(best, o)
    BY DEF Touches, Creates, Spends
  <2>4. Utxo[best][o] = IF Spends(best, o) THEN Spent
                        ELSE IF Creates(best, o) THEN Height[best] ELSE Utxo[Parent[best]][o]
    BY <1>3, UtxoCases
  <2>5. Clean(best, o, NoEntry, CoinAt(o))
    BY <1>4, <2>1, <2>4 DEF Clean, HaveCoin
  <2>6. /\ view[o] \in Entries /\ Sound(view[o], CoinAt(o))
        /\ Touches(best, o) => GetCoin(view[o], CoinAt(o)) = Utxo[Parent[best]][o]
        /\ ~Touches(best, o) => view[o] = NoEntry
    BY <1>3, <1>4, <2>1, <2>2, DisconnectedCoin
  <2>7. ~Touches(best, o) => Utxo[best][o] = Utxo[Parent[best]][o]
    BY <2>4 DEF Touches
  <2> QED
    BY <1>4, <2>1, <2>3, <2>5, <2>6, <2>7
<1>6. /\ tip' \in [Outpoints -> Entries]
      /\ \A o \in Outpoints : /\ Sound(tip'[o], db[o]) /\ GetCoin(tip'[o], db[o]) = Utxo[Parent[best]][o]
                              /\ ~Misapplied(Fetched(o), view[o])
  BY <1>2, <1>5, MergedCoins
<1>7. fault' = "none"
  BY <1>2, <1>5, <1>6
<1>8. IInv'
  BY <1>2, <1>3, <1>6, <1>7, IdleStep
<1> QED
  BY <1>2, <1>3, <1>6, <1>7, <1>8 DEF Ready, CoinAt

(* The beginning and the end of flushes. *)
LEMMA FlushStep ==
  ASSUME IInv, Flush \/ Shutdown
  PROVE  IInv'
<1>1. /\ (job = "idle" /\ fault = "none") \/ job = "abort"
      /\ job' = "flush"
      /\ UNCHANGED <<db, best_db, heads, tip, best, old, lost, fault>>
  BY DEF Flush, Shutdown, Ready
<1>2. fault = "none"
  BY <1>1 DEF IInv
<1>3. TypeOK /\ DiskInv /\ CacheInv /\ \A o \in Outpoints : Sound(tip[o], db[o])
  BY <1>2 DEF IInv
<1>4. TypeOK'
  BY <1>1, <1>3 DEF TypeOK
<1>5. DiskInv'
  BY <1>1, <1>3 DEF DiskInv
<1>6. CacheInv'
  BY <1>1, <1>3 DEF CacheInv, Replaying, CoinAt
<1> QED
  BY <1>1, <1>2, <1>3, <1>4, <1>5, <1>6 DEF IInv

(* What is written of the cache. *)
LEMMA WrittenCoins ==
  ASSUME IInv, job \in {"flush", "abort", "reflush"}, NEW S \in SUBSET Held
  PROVE  /\ Written(S) \in [Outpoints -> Coins]
         /\ \A o \in Outpoints : /\ o \notin S => Written(S)[o] = db[o]
                                 /\ o \in S => Written(S)[o] = Utxo[best][o]
                                 /\ tip[o] # NoEntry => tip[o] \in Entry /\ tip[o].coin = Utxo[best][o]
         /\ fault = "none" /\ DiskInv /\ CacheInv
<1>1. fault = "none" /\ DiskInv /\ CacheInv
  BY DEF IInv
<1>2. \A o \in Outpoints : tip[o] \in Entries /\ db[o] \in Coins /\ Sound(tip[o], db[o])
  BY Types
<1>3. \A o \in Outpoints : tip[o] # NoEntry => tip[o] \in Entry /\ tip[o].coin = Utxo[best][o]
                                             /\ tip[o].coin \in Coins
  BY <1>1, <1>2 DEF CacheInv, Replaying, Entries, Entry
<1>4. ASSUME NEW o \in Outpoints
      PROVE  /\ Written(S)[o] \in Coins
             /\ o \notin S => Written(S)[o] = db[o]
             /\ o \in S => Written(S)[o] = Utxo[best][o]
  <2>1. Written(S)[o] = IF o \in S /\ tip[o].dirty THEN tip[o].coin ELSE db[o]
    BY DEF Written
  <2>2. o \in S => tip[o] # NoEntry
    BY DEF Held
  <2> QED
    BY <1>2, <1>3, <2>1, <2>2 DEF Sound
<1> QED
  BY <1>1, <1>3, <1>4 DEF Written

LEMMA PartialStep ==
  ASSUME IInv, NEW S, WritePartial(S)
  PROVE  IInv'
<1>1. /\ job \in {"flush", "reflush"} /\ S \in SUBSET Held
      /\ db' = Written(S)
      /\ tip' = [o \in Outpoints |-> IF o \in S THEN NoEntry ELSE tip[o]]
      /\ heads' = <<best, old_tip>> /\ best_db' = NoBlock
      /\ UNCHANGED <<best, job, old, lost, fault>>
  BY DEF WritePartial
<1>2. /\ Written(S) \in [Outpoints -> Coins]
      /\ \A o \in Outpoints : /\ o \notin S => Written(S)[o] = db[o]
                              /\ o \in S => Written(S)[o] = Utxo[best][o]
                              /\ tip[o] # NoEntry => tip[o] \in Entry /\ tip[o].coin = Utxo[best][o]
      /\ fault = "none" /\ DiskInv /\ CacheInv
  BY <1>1, WrittenCoins
<1>3. /\ \A o \in Outpoints : tip[o] \in Entries /\ db[o] \in Coins /\ Sound(tip[o], db[o])
      /\ tip \in [Outpoints -> Entries]
      /\ best \in Blocks /\ best_db \in Blocks \cup {NoBlock}
      /\ heads = <<>> \/ (heads[1] \in Blocks /\ heads[2] \in Blocks \cup {NoBlock})
  BY Types
<1>4. old_tip \in Blocks \cup {NoBlock} /\ heads'[1] = best /\ heads'[2] = old_tip /\ heads' # <<>>
  BY <1>1, <1>3 DEF old_tip
<1>5. TypeOK'
  <2>1. TypeOK /\ tip' \in [Outpoints -> Entries]
    BY <1>1, <1>3 DEF IInv, Entries
  <2>2. heads' \in Blocks \X (Blocks \cup {NoBlock})
    BY <1>1, <1>3, <1>4
  <2> QED
    BY <1>1, <1>2, <2>1, <2>2 DEF TypeOK, Entries
<1>6. ASSUME NEW o \in Outpoints PROVE db[o] \in {CoinsOf(old_tip)[o], Utxo[best][o]}
  <2>1. CASE heads = <<>>
    <3>1. db = CoinsOf(best_db) /\ old_tip = best_db
      BY <1>2, <2>1 DEF DiskInv, old_tip
    <3> QED
      BY <3>1
  <2>2. CASE heads # <<>>
    <3>1. old_tip = heads[2] /\ db[o] \in {CoinsOf(heads[2])[o], Utxo[best][o]}
      BY <1>2, <2>2 DEF DiskInv, old_tip
    <3> QED
      BY <3>1
  <2> QED
    BY <2>1, <2>2
<1>7. \A o \in Outpoints : db'[o] \in {CoinsOf(old_tip)[o], Utxo[best][o]}
  BY <1>1, <1>2, <1>6
<1>8. DiskInv'
  BY <1>1, <1>4, <1>7 DEF DiskInv, CoinsOf
<1>9. \A o \in Outpoints : /\ o \in S => tip'[o] = NoEntry /\ db'[o] = Utxo[best][o]
                           /\ o \notin S => tip'[o] = tip[o] /\ db'[o] = db[o]
  BY <1>1, <1>2
<1>10. CacheInv'
  <2>1. ~Replaying' /\ ~Replaying
    BY <1>1 DEF Replaying
  <2>2. ASSUME NEW o \in Outpoints
        PROVE  /\ tip'[o] # NoEntry => tip'[o].coin = Utxo[best][o]
               /\ ~lost => GetCoin(tip'[o], db'[o]) = Utxo[best][o]
    <3>1. CASE o \in S
      BY <1>9, <3>1 DEF GetCoin
    <3>2. CASE o \notin S
      BY <1>2, <1>9, <2>1, <3>2 DEF CacheInv, CoinAt
    <3> QED
      BY <3>1, <3>2
  <2> QED
    BY <1>1, <2>1, <2>2 DEF CacheInv, CoinAt
<1>11. \A o \in Outpoints : Sound(tip'[o], db'[o])
  BY <1>3, <1>9 DEF Sound
<1>12. lost' => job' \in {"flush", "abort"}
  BY <1>1, <1>2 DEF IInv
<1> QED
  BY <1>1, <1>2, <1>5, <1>8, <1>10, <1>11, <1>12 DEF IInv

LEMMA FailsStep ==
  ASSUME IInv, NEW S, WriteFails(S)
  PROVE  IInv'
<1>1. /\ job = "flush" /\ S \in SUBSET Held
      /\ tip' = [o \in Outpoints |-> IF o \in S THEN NoEntry ELSE tip[o]]
      /\ lost' = (lost \/ \E o \in S : tip[o].dirty)
      /\ job' = "abort"
      /\ UNCHANGED <<db, best_db, heads, best, old, fault>>
  BY DEF WriteFails
<1>2. fault = "none" /\ DiskInv /\ CacheInv /\ TypeOK
  BY <1>1 DEF IInv
<1>3. /\ \A o \in Outpoints : tip[o] \in Entries /\ db[o] \in Coins /\ Sound(tip[o], db[o])
      /\ tip \in [Outpoints -> Entries] /\ lost \in BOOLEAN
  BY Types
<1>4. tip' \in [Outpoints -> Entries] /\ lost' \in BOOLEAN
  BY <1>1, <1>3 DEF Entries
<1>5. TypeOK'
  BY <1>1, <1>2, <1>4 DEF TypeOK, Entries
<1>6. DiskInv'
  BY <1>1, <1>2 DEF DiskInv
<1>7. CacheInv'
  <2>1. ~Replaying' /\ ~Replaying
    BY <1>1 DEF Replaying
  <2>2. ASSUME NEW o \in Outpoints
        PROVE  /\ tip'[o] # NoEntry => tip'[o].coin = Utxo[best][o]
               /\ ~lost' => GetCoin(tip'[o], db[o]) = Utxo[best][o]
    <3>0. /\ tip[o] # NoEntry => tip[o].coin = Utxo[best][o]
          /\ ~lost => GetCoin(tip[o], db[o]) = Utxo[best][o]
      BY <1>2, <2>1 DEF CacheInv, CoinAt
    <3>1. CASE o \in S
      <4>1. tip'[o] = NoEntry /\ tip[o] # NoEntry
        BY <1>1, <3>1 DEF Held
      <4>2. ~lost' => ~lost /\ ~tip[o].dirty
        BY <1>1, <3>1
      <4> QED
        BY <1>3, <3>0, <4>1, <4>2 DEF GetCoin, Sound
    <3>2. CASE o \notin S
      <4>1. tip'[o] = tip[o] /\ (~lost' => ~lost)
        BY <1>1, <3>2
      <4> QED
        BY <3>0, <4>1
    <3> QED
      BY <3>1, <3>2
  <2> QED
    BY <1>1, <2>1, <2>2 DEF CacheInv, CoinAt
<1>8. \A o \in Outpoints : Sound(tip'[o], db[o])
  BY <1>1, <1>3 DEF Sound
<1> QED
  BY <1>1, <1>2, <1>5, <1>6, <1>7, <1>8 DEF IInv

LEMMA FinalStep ==
  ASSUME IInv, WriteFinal
  PROVE  IInv'
<1>1. /\ job \in {"flush", "reflush"}
      /\ db' = Written(Held) /\ tip' = Empty /\ heads' = <<>> /\ best_db' = best
      /\ job' = "idle" /\ lost' = FALSE
      /\ fault' = IF lost THEN "lost" ELSE "none"
      /\ UNCHANGED <<best, old>>
  BY DEF WriteFinal
<1>2. /\ Written(Held) \in [Outpoints -> Coins]
      /\ \A o \in Outpoints : /\ o \notin Held => Written(Held)[o] = db[o]
                              /\ o \in Held => Written(Held)[o] = Utxo[best][o]
      /\ CacheInv
  BY <1>1, WrittenCoins
<1>3. best \in Blocks /\ TypeOK
  BY Types DEF IInv
<1>4. \A o \in Outpoints : tip'[o] = NoEntry
  BY <1>1 DEF Empty
<1>5. TypeOK'
  BY <1>1, <1>2, <1>3 DEF TypeOK, Empty
<1>6. \A o \in Outpoints : Sound(tip'[o], db'[o])
  BY <1>4 DEF Sound
<1>7. ASSUME ~lost PROVE db' = Utxo[best]
  <2>1. ~Replaying
    BY <1>1 DEF Replaying
  <2>2. ASSUME NEW o \in Outpoints PROVE db'[o] = Utxo[best][o]
    <3>1. CASE o \in Held
      BY <1>1, <1>2, <3>1
    <3>2. CASE o \notin Held
      <4>1. tip[o] = NoEntry /\ db'[o] = db[o]
        BY <1>1, <1>2, <3>2 DEF Held
      <4> QED
        BY <1>2, <1>7, <2>1, <4>1 DEF CacheInv, CoinAt, GetCoin
    <3> QED
      BY <3>1, <3>2
  <2>3. Utxo[best] \in [Outpoints -> Coins] /\ db' \in [Outpoints -> Coins]
    BY <1>1, <1>2, <1>3, UtxoTypes
  <2> QED
    BY <2>2, <2>3
<1>8. ASSUME fault' = "none" PROVE DiskInv' /\ CacheInv'
  <2>1. db' = Utxo[best]
    BY <1>1, <1>7, <1>8
  <2>2. CoinsOf(best) = Utxo[best]
    BY <1>3, CoinsOfTypes
  <2>3. DiskInv'
    BY <1>1, <2>1, <2>2 DEF DiskInv, CoinsOf
  <2>4. CacheInv'
    BY <1>1, <1>4, <2>1 DEF CacheInv, Replaying, CoinAt, GetCoin
  <2> QED
    BY <2>3, <2>4
<1> QED
  BY <1>1, <1>5, <1>6, <1>8 DEF IInv

(* Stops and starts. *)
LEMMA CrashStep ==
  ASSUME IInv, Crash
  PROVE  IInv'
<1>1. /\ fault = "none" /\ tip' = Empty /\ lost' = FALSE
      /\ UNCHANGED <<db, best_db, heads, fault>>
  BY DEF Crash
<1>2. TypeOK /\ DiskInv
  BY <1>1 DEF IInv
<1>3. /\ \A o \in Outpoints : db[o] \in Coins
      /\ best \in Blocks /\ best_db \in Blocks \cup {NoBlock}
      /\ heads = <<>> \/ (heads[1] \in Blocks /\ heads[2] \in Blocks \cup {NoBlock})
  BY Types
<1>4. Genesis \in Blocks /\ NoBlock \notin Blocks
  BY TreeAssumption
<1>5. \A o \in Outpoints : tip'[o] = NoEntry /\ Sound(tip'[o], db'[o]) /\ CoinAt(o)' = db[o]
  BY <1>1 DEF Empty, Sound, CoinAt, GetCoin
<1>6. CASE heads = <<>>
  <2>1. /\ best' = IF best_db = NoBlock THEN Genesis ELSE best_db
        /\ job' = "idle" /\ old' = NoBlock
    BY <1>6 DEF Crash
  <2>2. db = CoinsOf(best_db)
    BY <1>2, <1>6 DEF DiskInv
  <2>3. db = Utxo[best'] /\ best' \in Blocks
    BY <1>3, <1>4, <2>1, <2>2, CoinsOfTypes, UtxoAt
  <2>4. TypeOK'
    BY <1>1, <1>2, <2>1, <2>3 DEF TypeOK, Empty
  <2>5. DiskInv'
    BY <1>1, <1>6, <2>1, <2>2 DEF DiskInv, CoinsOf
  <2>6. CacheInv'
    BY <1>1, <1>5, <2>1, <2>3 DEF CacheInv, Replaying
  <2> QED
    BY <1>1, <1>5, <2>1, <2>4, <2>5, <2>6 DEF IInv
<1>7. CASE heads # <<>>
  <2>1. /\ best' = heads[1] /\ job' = "rollback"
        /\ old' = IF heads[2] = NoBlock THEN Genesis ELSE heads[2]
    BY <1>7 DEF Crash
  <2>2. /\ best_db = NoBlock /\ best = heads[1]
        /\ \A o \in Outpoints : db[o] \in {CoinsOf(heads[2])[o], Utxo[best][o]}
    BY <1>2, <1>7 DEF DiskInv
  <2>3. old' \in Blocks /\ CoinsOf(heads[2]) = Utxo[old'] /\ best' \in Blocks
    BY <1>3, <1>4, <1>7, <2>1, CoinsOfTypes, UtxoAt
  <2>4. TypeOK'
    BY <1>1, <1>2, <2>1, <2>3 DEF TypeOK, Empty
  <2>5. DiskInv'
    BY <1>1, <1>7, <2>1, <2>2 DEF DiskInv, CoinsOf
  <2>6. CacheInv'
    BY <1>1, <1>5, <2>1, <2>2, <2>3 DEF CacheInv, Replaying
  <2> QED
    BY <1>1, <1>5, <2>1, <2>4, <2>5, <2>6 DEF IInv
<1> QED
  BY <1>6, <1>7

LEMMA WipeStep ==
  ASSUME IInv, Wipe
  PROVE  IInv'
<1>1. /\ fault = "none" /\ db' = NoCoins /\ best_db' = NoBlock /\ heads' = <<>>
      /\ tip' = Empty /\ best' = Genesis /\ job' = "idle" /\ old' = NoBlock
      /\ lost' = FALSE /\ fault' = fault
  BY DEF Wipe, NoCoins
<1>2. Genesis \in Blocks
  BY TreeAssumption
<1>3. \A o \in Outpoints : tip'[o] = NoEntry /\ Sound(tip'[o], db'[o]) /\ CoinAt(o)' = db'[o]
  BY <1>1 DEF Empty, Sound, CoinAt, GetCoin
<1>4. TypeOK'
  BY <1>1, <1>2, CoinsOfTypes DEF TypeOK, Empty
<1>5. DiskInv'
  BY <1>1, CoinsOfTypes DEF DiskInv, CoinsOf
<1>6. CacheInv'
  BY <1>1, <1>3, UtxoAt DEF CacheInv, Replaying
<1> QED
  BY <1>1, <1>3, <1>4, <1>5, <1>6 DEF IInv

(* ReplayBlocks. *)
LEMMA RollbackStep ==
  ASSUME IInv, RollbackBlock
  PROVE  IInv'
<1>1. /\ job = "rollback" /\ old \notin Ancestors[best]
      /\ tip' = [o \in Outpoints |-> Disconnected(old, o, tip[o], db[o])]
      /\ old' = Parent[old]
      /\ UNCHANGED <<db, best_db, heads, best, job, lost, fault>>
  BY DEF RollbackBlock
<1>2. fault = "none" /\ TypeOK /\ DiskInv /\ CacheInv /\ ~lost /\ Replaying
  BY <1>1 DEF IInv, Replaying
<1>3. \A o \in Outpoints : tip[o] \in Entries /\ db[o] \in Coins /\ Sound(tip[o], db[o])
  BY Types
<1>4. old \in Blocks \ {Genesis} /\ best \in Blocks
  BY <1>1, <1>2, Types, GenesisAncestor DEF CacheInv
<1>5. Parent[old] \in Blocks
  BY <1>4, ParentLower
<1>6. ASSUME NEW o \in Outpoints
      PROVE  /\ tip'[o] \in Entries /\ Sound(tip'[o], db[o])
             /\ GetCoin(tip'[o], db[o]) \in {Utxo[Parent[old]][o], Utxo[best][o]}
  <2>1. tip'[o] = Disconnected(old, o, tip[o], db[o])
    BY <1>1
  <2>2. /\ tip'[o] \in Entries /\ Sound(tip'[o], db[o])
        /\ Touches(old, o) => GetCoin(tip'[o], db[o]) = Utxo[Parent[old]][o]
        /\ ~Touches(old, o) => tip'[o] = tip[o]
    BY <1>3, <1>4, <2>1, DisconnectedCoin
  <2>3. ~Touches(old, o) => Utxo[old][o] = Utxo[Parent[old]][o]
    BY <1>4, UtxoCases DEF Touches
  <2>4. GetCoin(tip[o], db[o]) \in {Utxo[old][o], Utxo[best][o]}
    BY <1>2 DEF CacheInv, CoinAt
  <2> QED
    BY <2>2, <2>3, <2>4
<1>7. TypeOK'
  <2>1. tip' \in [Outpoints -> Entries]
    BY <1>1, <1>6
  <2> QED
    BY <1>1, <1>2, <1>5, <2>1 DEF TypeOK, Entries
<1>8. DiskInv'
  BY <1>1, <1>2 DEF DiskInv
<1>9. CacheInv'
  BY <1>1, <1>2, <1>5, <1>6 DEF CacheInv, Replaying, CoinAt
<1> QED
  BY <1>1, <1>2, <1>6, <1>7, <1>8, <1>9 DEF IInv

LEMMA RollforwardStep ==
  ASSUME IInv, NEW b \in Blocks, RollforwardBlock(b)
  PROVE  IInv'
<1>1. /\ job \in {"rollback", "forward"} /\ b # Genesis /\ Parent[b] = old
      /\ job' = "forward"
      /\ tip' = [o \in Outpoints |-> RolledForward(b, o, tip[o], db[o])]
      /\ old' = b
      /\ UNCHANGED <<db, best_db, heads, best, lost, fault>>
  BY DEF RollforwardBlock
<1>2. fault = "none" /\ TypeOK /\ DiskInv /\ CacheInv /\ ~lost /\ Replaying
  BY <1>1 DEF IInv, Replaying
<1>3. \A o \in Outpoints : tip[o] \in Entries /\ db[o] \in Coins /\ Sound(tip[o], db[o])
  BY Types
<1>4. ASSUME NEW o \in Outpoints
      PROVE  /\ tip'[o] \in Entries /\ Sound(tip'[o], db[o])
             /\ GetCoin(tip'[o], db[o]) \in {Utxo[b][o], Utxo[best][o]}
  <2>1. tip'[o] = RolledForward(b, o, tip[o], db[o])
    BY <1>1
  <2>2. /\ tip'[o] \in Entries /\ Sound(tip'[o], db[o])
        /\ Touches(b, o) => GetCoin(tip'[o], db[o]) = Utxo[b][o]
        /\ ~Touches(b, o) => tip'[o] = tip[o]
    BY <1>1, <1>3, <2>1, RolledForwardCoin
  <2>3. ~Touches(b, o) => Utxo[b][o] = Utxo[old][o]
    BY <1>1, UtxoCases DEF Touches
  <2>4. GetCoin(tip[o], db[o]) \in {Utxo[old][o], Utxo[best][o]}
    BY <1>2 DEF CacheInv, CoinAt
  <2> QED
    BY <2>2, <2>3, <2>4
<1>5. TypeOK'
  <2>1. tip' \in [Outpoints -> Entries]
    BY <1>1, <1>4
  <2> QED
    BY <1>1, <1>2, <2>1 DEF TypeOK, Entries
<1>6. DiskInv'
  BY <1>1, <1>2 DEF DiskInv
<1>7. CacheInv'
  BY <1>1, <1>4 DEF CacheInv, Replaying, CoinAt
<1> QED
  BY <1>1, <1>2, <1>4, <1>5, <1>6, <1>7 DEF IInv

LEMMA ReplayFlushStep ==
  ASSUME IInv, ReplayFlush
  PROVE  IInv'
<1>1. /\ job \in {"rollback", "forward"} /\ old = best
      /\ job' = "reflush" /\ old' = NoBlock
      /\ UNCHANGED <<db, best_db, heads, tip, best, lost, fault>>
  BY DEF ReplayFlush
<1>2. fault = "none" /\ TypeOK /\ DiskInv /\ CacheInv /\ ~lost /\ Replaying
  BY <1>1 DEF IInv, Replaying
<1>3. \A o \in Outpoints : GetCoin(tip[o], db[o]) = Utxo[best][o]
  BY <1>1, <1>2 DEF CacheInv, CoinAt
<1>4. TypeOK'
  BY <1>1, <1>2 DEF TypeOK
<1>5. DiskInv'
  BY <1>1, <1>2 DEF DiskInv
<1>6. CacheInv'
  BY <1>1, <1>3 DEF CacheInv, Replaying, CoinAt, GetCoin
<1>7. \A o \in Outpoints : Sound(tip'[o], db'[o])
  BY <1>1 DEF IInv
<1> QED
  BY <1>1, <1>2, <1>4, <1>5, <1>6, <1>7 DEF IInv

LEMMA Preserved == IInv /\ [Next]_vars => IInv'
<1> SUFFICES ASSUME IInv, [Next]_vars PROVE IInv'
  OBVIOUS
<1>1. CASE InPlace
  BY <1>1, AccessStep, UncacheStep, FlushStep, PartialStep, FailsStep, FinalStep,
     RollbackStep, RollforwardStep, ReplayFlushStep DEF InPlace
<1>2. CASE \E b \in Blocks : ConnectTip(b)
  BY <1>2, ConnectTipStep
<1>3. CASE DisconnectTip
  BY <1>3, DisconnectTipStep
<1>4. CASE Crash
  BY <1>4, CrashStep
<1>5. CASE Wipe
  BY <1>5, WipeStep
<1>6. CASE UNCHANGED vars
  <2>1. UNCHANGED <<db, best_db, heads, tip, best, job, old, lost, fault>>
    BY <1>6 DEF vars
  <2> QED
    BY <2>1 DEF IInv, TypeOK, DiskInv, CacheInv, Replaying, CoinAt
<1> QED
  BY <1>1, <1>2, <1>3, <1>4, <1>5, <1>6 DEF Next


-------------------------------------------------------------------------------
(* The coin database, with the registry over it.                           *)

LEMMA Coinside == [MetaNext]_<<vars, metaVars>> => [Next]_vars
BY DEF MetaNext, Next, AcceptToMemoryPool, Connect, Disconnect, UpdateMempoolForReorg,
       Restart, Reindex, ReindexChainstate, ThreadImport, vars

(* Type correctness of the caches, the database and the markers of a flush *)
(* (CCoinsViewCache, CCoinsViewDB, ReplayBlocks), under every sequence of  *)
(* calls, failed writes, crashes and restarts.                             *)
THEOREM TypeCorrect == Spec => []TypeOK
<1>1. IInv => TypeOK
  BY DEF IInv
<1> QED
  BY <1>1, Started, Preserved, PTL DEF Spec

(* The registry takes no step that the coin database does not know: what   *)
(* holds of the coins holds of the node with its registry.                 *)
LEMMA CoinsInvariance == MetaSpec => []IInv
<1>1. MetaInit => Init
  BY DEF MetaInit
<1> QED
  BY <1>1, Coinside, Started, Preserved, PTL DEF MetaSpec

(* The flags DIRTY and FRESH of CCoinsViewCache entries mean what they     *)
(* say over the database, through any sequence of AddCoin, SpendCoin,      *)
(* Uncache, BatchWrite, flushes, crashes and repairs.                      *)
THEOREM FlagsSound == MetaSpec => []EntriesSound
<1>1. IInv => EntriesSound
  BY DEF IInv, EntriesSound, Held, Sound
<1> QED
  BY <1>1, CoinsInvariance, PTL

(* ConnectTip finds every input, DisconnectBlock is always clean and       *)
(* BatchWrite never throws "FRESH flag misapplied", for every tree of      *)
(* valid blocks.                                                           *)
THEOREM NothingThrows == MetaSpec => []NoFault
<1>1. IInv => NoFault
  BY DEF IInv, NoFault
<1> QED
  BY <1>1, CoinsInvariance, PTL

(* A database that names a best block has exactly the unspent coins of     *)
(* that block, at whichever batch of CCoinsViewDB::BatchWrite the process  *)
(* died, and however often ReplayBlocks was itself interrupted.            *)
THEOREM DatabaseExact == MetaSpec => []DatabaseConsistent
<1>1. IInv => DatabaseConsistent
  <2> SUFFICES ASSUME IInv, best_db # NoBlock, fault # "lost" PROVE db = Utxo[best_db]
    BY DEF DatabaseConsistent
  <2>1. DiskInv
    BY DEF IInv
  <2> QED
    BY <2>1 DEF DiskInv, CoinsOf
<1> QED
  BY <1>1, CoinsInvariance, PTL


-------------------------------------------------------------------------------
(* The registry of sub chains.                                             *)

(* The registrations up to block b are on disk. *)
Recorded(b) == \A a \in Ancestors[b] : Of(a) \subseteq psubchainmeta

(* No id has two entries. *)
Distinct(map) == \A d, e \in map : SubChainId[d] = SubChainId[e] => d = e

(* Registration t has no id, or its id is known. *)
Known(map, t) == SubChainId[t] # NullId => \E e \in map : SubChainId[e] = SubChainId[t]

(* The inductive invariant of the registry: the blocks that the process    *)
(* may go on from are recorded, not only those of the present chain.       *)
MetaInv ==
  /\ Recorded(best)
  /\ best_db # NoBlock => Recorded(best_db)
  /\ Distinct(mapSubChainMeta)
  /\ \A t \in mempool : Known(mapSubChainMeta, t)

(* One registration is entered ... *)
LEMMA Entering ==
  ASSUME NEW map, NEW t, Distinct(map)
  PROVE  /\ map \subseteq addToMemPool(map, t)
         /\ Distinct(addToMemPool(map, t)) /\ Known(addToMemPool(map, t), t)
BY DEF addToMemPool, Distinct, Known

(* ... or several: then the first of each id. *)
LEMMA EnteringEach ==
  ASSUME NEW map, NEW s, NEW S, Distinct(map)
  PROVE  /\ map \subseteq addEach(map, s, S)
         /\ Distinct(addEach(map, s, S))
         /\ \A i \in 1..Len(s) : s[i] \in S => Known(addEach(map, s, S), s[i])
<1> DEFINE isNew(t) == SubChainId[t] # NullId /\ \A e \in map : SubChainId[e] # SubChainId[t]
           First(i) == ~\E j \in 1..(i - 1) : s[j] \in S /\ SubChainId[s[j]] = SubChainId[s[i]]
           Chosen == {i \in 1..Len(s) : s[i] \in S /\ isNew(s[i]) /\ First(i)}
<1>1. addEach(map, s, S) = map \cup {s[i] : i \in Chosen}
  BY DEF addEach
<1>2. Distinct(addEach(map, s, S))
  <2> SUFFICES ASSUME NEW d \in addEach(map, s, S), NEW e \in addEach(map, s, S),
                      SubChainId[d] = SubChainId[e]
               PROVE  d = e
    BY DEF Distinct
  <2>1. CASE d \in map /\ e \in map
    BY <2>1 DEF Distinct
  <2>2. CASE d \in map /\ e \notin map
    BY <1>1, <2>2
  <2>3. CASE d \notin map /\ e \in map
    BY <1>1, <2>3
  <2>4. CASE d \notin map /\ e \notin map
    <3>1. PICK i \in Chosen : d = s[i]
      BY <1>1, <2>4
    <3>2. PICK j \in Chosen : e = s[j]
      BY <1>1, <2>4
    <3>3. i \in Int /\ j \in Int /\ 1 <= i /\ 1 <= j
      BY <3>1, <3>2
    <3>4. ~(i < j)
      BY <3>1, <3>2, <3>3
    <3>5. ~(j < i)
      BY <3>1, <3>2, <3>3
    <3> QED
      BY <3>1, <3>2, <3>3, <3>4, <3>5
  <2> QED
    BY <2>1, <2>2, <2>3, <2>4
<1>3. ASSUME NEW i \in 1..Len(s), s[i] \in S
      PROVE  Known(addEach(map, s, S), s[i])
  <2> SUFFICES ASSUME isNew(s[i])
               PROVE  \E e \in addEach(map, s, S) : SubChainId[e] = SubChainId[s[i]]
    BY <1>1 DEF Known
  <2>1. PICK J : J = {j \in 1..Len(s) : s[j] \in S /\ SubChainId[s[j]] = SubChainId[s[i]]}
    OBVIOUS
  <2>2. J \in SUBSET Nat /\ i \in J
    BY <1>3, <2>1
  <2>3. PICK m \in J : \A n \in J : m <= n
    BY <2>2, Least
  <2>4. First(m)
    <3> SUFFICES ASSUME NEW j \in 1..(m - 1), s[j] \in S, SubChainId[s[j]] = SubChainId[s[m]]
                 PROVE  FALSE
      OBVIOUS
    <3>1. m \in 1..Len(s) /\ SubChainId[s[m]] = SubChainId[s[i]]
      BY <2>1
    <3>2. j \in 1..Len(s) /\ j < m
      BY <3>1
    <3>3. j \in J
      BY <2>1, <3>1, <3>2
    <3> QED
      BY <2>2, <2>3, <3>2, <3>3
  <2>5. m \in Chosen
    BY <2>1, <2>4
  <2> QED
    BY <1>1, <2>1, <2>5
<1> QED
  BY <1>1, <1>2, <1>3

LEMMA StillKnown ==
  ASSUME NEW map, NEW bigger, map \subseteq bigger, NEW t, Known(map, t)
  PROVE  Known(bigger, t)
BY DEF Known


LEMMA RecordedParent ==
  ASSUME NEW b \in Blocks \ {Genesis}, Recorded(b)
  PROVE  Recorded(Parent[b])
BY AncestorsAt DEF Recorded

LEMMA RecordedGenesis == Recorded(Genesis)'
<1>1. Ancestors[Genesis] = {Genesis}
  BY AncestorsAt, TreeAssumption
<1>2. Of(Genesis) = {}
  BY RegistrationsAssumption DEF Of, ToSet
<1> QED
  BY <1>1, <1>2 DEF Recorded

(* Steps of the coin database alone: the chain of blocks is as it was, and *)
(* the database names a block of it, or none.                              *)
LEMMA InPlaceBlocks ==
  ASSUME InPlace
  PROVE  best' = best /\ best_db' \in {best_db, best, NoBlock}
BY DEF InPlace, AccessCoin, Uncache, Flush, WritePartial, WriteFails, WriteFinal, Shutdown,
       RollbackBlock, RollforwardBlock, ReplayFlush

LEMMA InPlaceRegistry ==
  ASSUME IInv, MetaInv, InPlace, UNCHANGED metaVars
  PROVE  MetaInv'
<1>1. UNCHANGED <<psubchainmeta, mapSubChainMeta, mempool>>
  BY DEF metaVars
<1>2. best' = best /\ best_db' \in {best_db, best, NoBlock}
  BY InPlaceBlocks
<1>3. Recorded(best)' /\ (best_db' # NoBlock => Recorded(best_db)')
  BY <1>1, <1>2 DEF MetaInv, Recorded
<1> QED
  BY <1>1, <1>3 DEF MetaInv

LEMMA ConnectRegistry ==
  ASSUME IInv, MetaInv, NEW b \in Blocks, Connect(b)
  PROVE  MetaInv'
<1>1. /\ b \in Blocks \ {Genesis} /\ Parent[b] = best /\ best' = b /\ best_db' = best_db
      /\ psubchainmeta' = psubchainmeta \cup Of(b)
      /\ mempool' \subseteq mempool /\ mapSubChainMeta' = mapSubChainMeta
  BY DEF Connect, ConnectTip
<1>2. best \in Blocks /\ best_db \in Blocks \cup {NoBlock}
  BY DEF IInv, TypeOK
<1>3. Ancestors[b] = {b} \cup Ancestors[best]
  BY <1>1, AncestorsAt
<1>4. Recorded(best)'
  BY <1>1, <1>3 DEF MetaInv, Recorded
<1>5. best_db' # NoBlock => Recorded(best_db)'
  BY <1>1 DEF MetaInv, Recorded
<1> QED
  BY <1>1, <1>4, <1>5 DEF MetaInv

LEMMA DisconnectRegistry ==
  ASSUME IInv, MetaInv, Disconnect
  PROVE  MetaInv'
<1>1. /\ best # Genesis /\ best' = Parent[best] /\ best_db' = best_db
      /\ UNCHANGED <<psubchainmeta, mempool, mapSubChainMeta>>
  BY DEF Disconnect, DisconnectTip
<1>2. best \in Blocks \ {Genesis}
  BY <1>1 DEF IInv, TypeOK
<1>3. Recorded(Parent[best])
  BY <1>2, RecordedParent DEF MetaInv
<1>4. Recorded(best)' /\ (best_db' # NoBlock => Recorded(best_db)')
  BY <1>1, <1>3 DEF MetaInv, Recorded
<1> QED
  BY <1>1, <1>4 DEF MetaInv

(* Steps that enter registrations. *)
LEMMA EnteringRegistry ==
  ASSUME IInv, MetaInv,
         UNCHANGED <<vars, psubchainmeta>>,
         mapSubChainMeta \subseteq mapSubChainMeta', Distinct(mapSubChainMeta'),
         \A t \in mempool' : t \in mempool \/ Known(mapSubChainMeta', t)
  PROVE  MetaInv'
<1>1. UNCHANGED <<best, best_db, psubchainmeta>>
  BY DEF vars
<1>2. Recorded(best)' /\ (best_db' # NoBlock => Recorded(best_db)')
  BY <1>1 DEF MetaInv, Recorded
<1>3. \A t \in mempool' : Known(mapSubChainMeta', t)
  BY StillKnown DEF MetaInv
<1> QED
  BY <1>2, <1>3 DEF MetaInv

LEMMA AcceptRegistry ==
  ASSUME IInv, MetaInv, NEW t \in Txs, AcceptToMemoryPool(t)
  PROVE  MetaInv'
<1>1. /\ mapSubChainMeta' = addToMemPool(mapSubChainMeta, t) /\ mempool' \subseteq mempool \cup {t}
      /\ UNCHANGED <<vars, psubchainmeta>>
  BY DEF AcceptToMemoryPool
<1>2. Distinct(mapSubChainMeta)
  BY DEF MetaInv
<1>3. /\ mapSubChainMeta \subseteq mapSubChainMeta' /\ Distinct(mapSubChainMeta')
      /\ Known(mapSubChainMeta', t)
  BY <1>1, <1>2, Entering
<1> QED
  BY <1>1, <1>3, EnteringRegistry

LEMMA ReorgRegistry ==
  ASSUME IInv, MetaInv, UpdateMempoolForReorg
  PROVE  MetaInv'
<1>1. PICK accepted \in SUBSET {disconnectpool[i] : i \in 1..Len(disconnectpool)} :
        /\ mapSubChainMeta' = addEach(mapSubChainMeta, disconnectpool, accepted)
        /\ mempool' \subseteq mempool \cup accepted
  BY DEF UpdateMempoolForReorg
<1>2. UNCHANGED <<vars, psubchainmeta>>
  BY DEF UpdateMempoolForReorg
<1>3. Distinct(mapSubChainMeta)
  BY DEF MetaInv
<1>4. /\ mapSubChainMeta \subseteq mapSubChainMeta' /\ Distinct(mapSubChainMeta')
      /\ \A i \in 1..Len(disconnectpool) :
           disconnectpool[i] \in accepted => Known(mapSubChainMeta', disconnectpool[i])
  BY <1>1, <1>3, EnteringEach
<1>5. \A t \in accepted : Known(mapSubChainMeta', t)
  BY <1>1, <1>4
<1> QED
  BY <1>1, <1>2, <1>4, <1>5, EnteringRegistry

LEMMA ImportRegistry ==
  ASSUME IInv, MetaInv, ThreadImport
  PROVE  MetaInv'
<1>1. /\ mapSubChainMeta' = addEach(mapSubChainMeta, HashOrder, psubchainmeta)
      /\ UNCHANGED <<vars, psubchainmeta, mempool>>
  BY DEF ThreadImport, LoadSubChainMetaData
<1>2. Distinct(mapSubChainMeta)
  BY DEF MetaInv
<1>3. mapSubChainMeta \subseteq mapSubChainMeta' /\ Distinct(mapSubChainMeta')
  BY <1>1, <1>2, EnteringEach
<1> QED
  BY <1>1, <1>3, EnteringRegistry

(* Steps that end the process. *)
LEMMA RestartRegistry ==
  ASSUME IInv, MetaInv, Restart
  PROVE  MetaInv'
<1>1. /\ fault = "none" /\ UNCHANGED <<best_db, psubchainmeta>>
      /\ best' = IF heads = <<>> THEN IF best_db = NoBlock THEN Genesis ELSE best_db
                 ELSE heads[1]
      /\ mapSubChainMeta' = {} /\ mempool' = {}
  BY DEF Restart, Crash, StartsEmpty
<1>2. heads # <<>> => best = heads[1]
  BY <1>1 DEF IInv, DiskInv
<1>3. CASE best' = Genesis
  BY <1>1, <1>3, RecordedGenesis DEF MetaInv, Recorded, Distinct
<1>4. CASE best' # Genesis
  <2>1. best' = best \/ (best' = best_db /\ best_db # NoBlock)
    BY <1>1, <1>2, <1>4
  <2>2. Recorded(best)' /\ (best_db' # NoBlock => Recorded(best_db)')
    BY <1>1, <2>1 DEF MetaInv, Recorded
  <2> QED
    BY <1>1, <2>2 DEF MetaInv, Distinct
<1> QED
  BY <1>3, <1>4

LEMMA WipeRegistry ==
  ASSUME IInv, Reindex \/ ReindexChainstate
  PROVE  MetaInv'
<1>1. best' = Genesis /\ best_db' = NoBlock /\ mapSubChainMeta' = {} /\ mempool' = {}
  BY DEF Reindex, ReindexChainstate, Wipe, StartsEmpty
<1> QED
  BY <1>1, RecordedGenesis DEF MetaInv, Distinct, Recorded

LEMMA MetaStarted == MetaInit => MetaInv
<1> SUFFICES ASSUME MetaInit PROVE MetaInv
  OBVIOUS
<1>1. best = Genesis /\ best_db = NoBlock /\ mapSubChainMeta = {} /\ mempool = {}
  BY DEF MetaInit, Init
<1>2. Ancestors[Genesis] = {Genesis}
  BY AncestorsAt, TreeAssumption
<1>3. Of(Genesis) = {}
  BY RegistrationsAssumption DEF Of, ToSet
<1> QED
  BY <1>1, <1>2, <1>3 DEF MetaInv, Recorded, Distinct

LEMMA MetaPreserved == IInv /\ MetaInv /\ [MetaNext]_<<vars, metaVars>> => MetaInv'
<1> SUFFICES ASSUME IInv, MetaInv, [MetaNext]_<<vars, metaVars>> PROVE MetaInv'
  OBVIOUS
<1>1. CASE MetaNext
  BY <1>1, InPlaceRegistry, AcceptRegistry, ConnectRegistry, DisconnectRegistry, ReorgRegistry,
     RestartRegistry, WipeRegistry, ImportRegistry DEF MetaNext
<1>2. CASE UNCHANGED <<vars, metaVars>>
  BY <1>2 DEF vars, metaVars, MetaInv, Recorded
<1> QED
  BY <1>1, <1>2

(* Nothing that the node relies on is missing from the registry: places    *)
(* are written to psubchainmeta in ConnectBlock and never taken back, so   *)
(* that the blocks which a crash, ReplayBlocks or a reorganisation returns *)
(* to are covered; and addToMemPool enters an id before its transaction is *)
(* in the memory pool, and once only.                                      *)
THEOREM RegistryNeverMisses == MetaSpec => []RegistryComplete
<1>1. MetaInv => RegistryComplete
  <2> SUFFICES ASSUME MetaInv PROVE RegistryComplete
    OBVIOUS
  <2>1. ChainTxs \subseteq psubchainmeta
    BY DEF MetaInv, Recorded, ChainTxs
  <2>2. ASSUME NEW t \in mempool, SubChainId[t] # NullId
        PROVE  Cardinality({e \in mapSubChainMeta : SubChainId[e] = SubChainId[t]}) = 1
    <3>1. PICK e \in mapSubChainMeta : SubChainId[e] = SubChainId[t]
      BY <2>2 DEF MetaInv, Known
    <3>2. {d \in mapSubChainMeta : SubChainId[d] = SubChainId[t]} = {e}
      BY <3>1 DEF MetaInv, Distinct
    <3> QED
      BY <3>2, FS_Singleton
  <2> QED
    BY <2>1, <2>2 DEF RegistryComplete
<1> QED
  BY <1>1, CoinsInvariance, MetaStarted, MetaPreserved, PTL DEF MetaSpec


-------------------------------------------------------------------------------
(* Caches, batches and repair implement a ledger that changes by whole     *)
(* blocks.                                                                 *)

seen == IF Busy THEN Utxo[best] ELSE [o \in Outpoints |-> CoinAt(o)]

(* The coins that the mapping shows are always those of the best block. *)
LEMMA Seen == IInv => seen = Utxo[best]
<1> SUFFICES ASSUME IInv, ~Busy PROVE [o \in Outpoints |-> CoinAt(o)] = Utxo[best]
  BY DEF seen
<1>1. Ready
  BY DEF Busy, Ready, IInv
<1>2. Utxo[best] \in [Outpoints -> Coins]
  BY UtxoTypes DEF IInv, TypeOK
<1> QED
  BY <1>1, <1>2, IdleCoins

LEMMA SeenNext == IInv' => seen' = Utxo[best']
<1>1. (IInv => seen = Utxo[best])'
  BY Seen, PTL
<1> QED
  BY <1>1

LEMMA LedgerInit == Init /\ IInv => Ledger!Init
<1> SUFFICES ASSUME Init, IInv PROVE Ledger!Init
  OBVIOUS
<1>1. best = Genesis /\ durable_best = Genesis
  BY DEF Init, durable_best
<1>2. Utxo[Genesis] = [o \in Outpoints |-> Spent]
  BY UtxoUnfolds, TreeAssumption DEF NoCoins
<1>3. seen = [o \in Outpoints |-> Spent]
  BY <1>1, <1>2, Seen
<1> QED
  BY <1>1, <1>2, <1>3 DEF Ledger!Init, seen


(* The ledger stands still when neither the best block nor the durable one *)
(* changes.                                                                *)
LEMMA LedgerStutters ==
  ASSUME IInv, IInv', best' = best, durable_best' = durable_best
  PROVE  UNCHANGED Ledger!vars
<1>1. seen' = seen
  BY Seen, SeenNext
<1>2. Utxo' = Utxo
  BY DEF Utxo, Blocks, Outpoints, Spends, Creates, Height, Parent
<1> QED
  BY <1>1, <1>2 DEF Ledger!vars, seen

LEMMA LedgerFlushes ==
  ASSUME IInv, IInv', best' = best, durable_best' = best
  PROVE  Ledger!Flush
<1>1. seen' = seen /\ seen = Utxo[best]
  BY Seen, SeenNext
<1> QED
  BY <1>1 DEF Ledger!Flush, seen

LEMMA LedgerConnects ==
  ASSUME IInv, IInv', NEW b \in Blocks, ConnectTip(b)
  PROVE  Ledger!Connect(b)
<1>1. /\ b \in Blocks \ {Genesis} /\ Parent[b] = best /\ best' = b
      /\ UNCHANGED <<heads, best_db>>
  BY DEF ConnectTip
<1>2. durable_best' = durable_best
  BY <1>1 DEF durable_best
<1>3. seen = Utxo[best] /\ seen' = Utxo[b]
  BY <1>1, Seen, SeenNext
<1>4. Utxo[b] = [o \in Outpoints |-> IF Spends(b, o) THEN Spent
                                     ELSE IF Creates(b, o) THEN Height[b] ELSE Utxo[best][o]]
  BY <1>1, UtxoAt DEF After
<1> QED
  BY <1>1, <1>2, <1>3, <1>4 DEF Ledger!Connect, seen

LEMMA LedgerDisconnects ==
  ASSUME IInv, IInv', DisconnectTip
  PROVE  Ledger!Disconnect
<1>1. best # Genesis /\ best' = Parent[best] /\ UNCHANGED <<heads, best_db>>
  BY DEF DisconnectTip
<1>2. durable_best' = durable_best
  BY <1>1 DEF durable_best
<1>3. best \in Blocks \ {Genesis} /\ Parent[best] \in Blocks
  BY <1>1, Types, ParentLower
<1>4. seen = Utxo[best] /\ seen' = Utxo[Parent[best]]
  BY <1>1, Seen, SeenNext
<1>5. Utxo[Parent[best]] = [o \in Outpoints |-> IF Creates(best, o) THEN Spent
                                                ELSE IF Spends(best, o) THEN Undo(best, o)
                                                ELSE Utxo[best][o]]
  <2>1. Utxo[Parent[best]] \in [Outpoints -> Coins]
    BY <1>3, UtxoTypes
  <2>2. ASSUME NEW o \in Outpoints
        PROVE  Utxo[Parent[best]][o] = IF Creates(best, o) THEN Spent
                                       ELSE IF Spends(best, o) THEN Undo(best, o)
                                       ELSE Utxo[best][o]
    BY <1>3, UtxoCases, ValidAssumption DEF Undo
  <2> QED
    BY <2>1, <2>2
<1> QED
  BY <1>1, <1>2, <1>4, <1>5 DEF Ledger!Disconnect, seen

LEMMA LedgerCrashes ==
  ASSUME IInv, IInv', Crash
  PROVE  Ledger!Crash
<1>1. best' = durable_best /\ UNCHANGED <<heads, best_db>>
  BY DEF Crash, durable_best
<1>2. durable_best' = durable_best
  BY <1>1 DEF durable_best
<1>3. seen' = Utxo[durable_best]
  BY <1>1, Seen, SeenNext
<1> QED
  BY <1>1, <1>2, <1>3 DEF Ledger!Crash, seen

LEMMA LedgerRebuilds ==
  ASSUME IInv, IInv', Wipe
  PROVE  Ledger!Rebuild
<1>1. best' = Genesis /\ durable_best' = Genesis
  BY DEF Wipe, durable_best
<1>2. Utxo[Genesis] = [o \in Outpoints |-> Spent]
  BY UtxoAt DEF NoCoins
<1>3. seen' = [o \in Outpoints |-> Spent]
  BY <1>1, <1>2, Seen, SeenNext
<1> QED
  BY <1>1, <1>2, <1>3 DEF Ledger!Rebuild, seen


(* A batch makes the best block durable, the first one as well as the last *)
(* one; no other step in place touches what is durable.                    *)
LEMMA InPlaceDurable ==
  ASSUME IInv, InPlace
  PROVE  durable_best' \in {durable_best, best}
<1>1. best \in Blocks /\ best # NoBlock
  BY TreeAssumption DEF IInv, TypeOK
<1>2. \/ UNCHANGED <<heads, best_db>>
      \/ heads' = <<best, old_tip>>
      \/ heads' = <<>> /\ best_db' = best
  BY DEF InPlace, AccessCoin, Uncache, Flush, WritePartial, WriteFails, WriteFinal, Shutdown,
         RollbackBlock, RollforwardBlock, ReplayFlush
<1>3. CASE UNCHANGED <<heads, best_db>>
  BY <1>3 DEF durable_best
<1>4. CASE heads' = <<best, old_tip>>
  BY <1>4 DEF durable_best
<1>5. CASE heads' = <<>> /\ best_db' = best
  BY <1>1, <1>5 DEF durable_best
<1> QED
  BY <1>2, <1>3, <1>4, <1>5

LEMMA LedgerStep == IInv /\ IInv' /\ [Next]_vars => [Ledger!Next]_(Ledger!vars)
<1> SUFFICES ASSUME IInv, IInv', [Next]_vars PROVE Ledger!Next \/ UNCHANGED Ledger!vars
  OBVIOUS
<1>1. CASE InPlace
  <2>1. best' = best /\ durable_best' \in {durable_best, best}
    BY <1>1, InPlaceBlocks, InPlaceDurable
  <2> QED
    BY <2>1, LedgerStutters, LedgerFlushes DEF Ledger!Next
<1>2. CASE \E b \in Blocks : ConnectTip(b)
  BY <1>2, LedgerConnects DEF Ledger!Next
<1>3. CASE DisconnectTip
  BY <1>3, LedgerDisconnects DEF Ledger!Next
<1>4. CASE Crash
  BY <1>4, LedgerCrashes DEF Ledger!Next
<1>5. CASE Wipe
  BY <1>5, LedgerRebuilds DEF Ledger!Next
<1>6. CASE UNCHANGED vars
  <2>1. best' = best /\ durable_best' = durable_best
    BY <1>6 DEF vars, durable_best
  <2> QED
    BY <2>1, LedgerStutters
<1> QED
  BY <1>1, <1>2, <1>3, <1>4, <1>5, <1>6 DEF Next

(* The write-back caches, the batches of a flush, the crashes between them *)
(* and the repair in ReplayBlocks implement UtxoLedger: whole blocks only  *)
(* come and go, and a crash goes back to the state of the last flush that  *)
(* was begun.                                                              *)
THEOREM CoinsImplementLedger == MetaSpec => ImplementsLedger
<1>1. MetaInit => Init
  BY DEF MetaInit
<1> QED
  BY <1>1, CoinsInvariance, LedgerInit, LedgerStep, Coinside, PTL
  DEF MetaSpec, ImplementsLedger, Ledger!Spec

-------------------------------------------------------------------------------
(* The queue of script checks.                                             *)

(* A nonempty collection of subsets of a finite set has a minimal one: the *)
(* least counterexample that stands for induction over finite sets here.   *)
LEMMA MinimalSubset ==
  ASSUME NEW S, IsFiniteSet(S), NEW C \in SUBSET (SUBSET S), C # {}
  PROVE  \E s \in C : \A u \in C : ~(u \subseteq s /\ u # s)
<1>1. C \subseteq FiniteSubsetsOf(S)
  BY FS_Subset DEF FiniteSubsetsOf
<1>2. PICK s \in C : \A u \in C : ~(<<u, s>> \in StrictSubsetOrdering(S))
  BY <1>1, FS_StrictSubsetOrderingWellFounded, WFMin
<1>3. \A u \in C : ~(u \subseteq s /\ u # s)
  BY <1>2 DEF StrictSubsetOrdering
<1> QED BY <1>3, Zenon

(* The function that MapThenSumSet iterates: the sums of w over the        *)
(* subsets of S, elements taken one at a time.                             *)
Pick(s) == CHOOSE x \in s : TRUE

IsSum(w, S, g) ==
  g = [s \in SUBSET S |-> IF s = {} THEN 0 ELSE w[Pick(s)] + g[s \ {Pick(s)}]]

Total(w, S) == (CHOOSE g : IsSum(w, S, g))[S]

(* Taking the picked element off a set. *)
LEMMA PickedOff ==
  ASSUME NEW S, NEW s \in SUBSET S, s # {}
  PROVE  /\ Pick(s) \in s /\ Pick(s) \in S
         /\ s \ {Pick(s)} \in SUBSET S
         /\ s \ {Pick(s)} \subseteq s /\ s \ {Pick(s)} # s
  BY DEF Pick

(* What a solution says of one subset. *)
LEMMA SumRow ==
  ASSUME NEW w, NEW S, NEW g, IsSum(w, S, g), NEW u \in SUBSET S
  PROVE  /\ u = {} => g[u] = 0
         /\ u # {} => g[u] = w[Pick(u)] + g[u \ {Pick(u)}]
<1>1. g = [s \in SUBSET S |-> IF s = {} THEN 0 ELSE w[Pick(s)] + g[s \ {Pick(s)}]]
  BY DEF IsSum
<1>2. g[u] = IF u = {} THEN 0 ELSE w[Pick(u)] + g[u \ {Pick(u)}]
  BY <1>1, Zenon
<1> QED BY <1>2

(* Two solutions agree wherever both are defined. *)
LEMMA SumUnique ==
  ASSUME NEW w, NEW S, IsFiniteSet(S), NEW T, NEW g, NEW h, IsSum(w, S, g), IsSum(w, T, h)
  PROVE  \A u \in SUBSET S : u \in SUBSET T => g[u] = h[u]
<1> DEFINE C == {u \in SUBSET S : u \in SUBSET T /\ g[u] # h[u]}
<1>1. SUFFICES ASSUME C # {} PROVE FALSE
  BY Zenon
<1>2. PICK s \in C : \A u \in C : ~(u \subseteq s /\ u # s)
  <2>1. C \in SUBSET (SUBSET S)
    OBVIOUS
  <2> HIDE DEF C
  <2> QED BY <1>1, <2>1, MinimalSubset
<1>3. s \in SUBSET S /\ s \in SUBSET T /\ g[s] # h[s]
  BY <1>2
<1>4. CASE s = {}
  BY <1>3, <1>4, SumRow
<1>5. CASE s # {}
  <2> DEFINE r == s \ {Pick(s)}
  <2>1. r \in SUBSET S /\ r \in SUBSET T /\ r \subseteq s /\ r # s
    BY <1>3, <1>5, PickedOff
  <2>2. g[r] = h[r]
    BY <1>2, <2>1
  <2>3. g[s] = w[Pick(s)] + g[r] /\ h[s] = w[Pick(s)] + h[r]
    BY <1>3, <1>5, SumRow
  <2> QED BY <1>3, <2>2, <2>3
<1> QED BY <1>4, <1>5

(* The recursive definition of sums over a finite set has a solution: on a *)
(* set whose smaller sets have one, their values at the top make one.      *)
LEMMA SumExists ==
  ASSUME NEW S, IsFiniteSet(S), NEW w
  PROVE  \E g : IsSum(w, S, g)
<1> DEFINE C == {s \in SUBSET S : ~ \E g : IsSum(w, s, g)}
<1>1. SUFFICES ASSUME C # {} PROVE FALSE
  <2>1. S \in SUBSET S /\ S \notin C
    BY <1>1, Zenon
  <2> QED BY <2>1
<1>2. PICK s \in C : \A u \in C : ~(u \subseteq s /\ u # s)
  <2>1. C \in SUBSET (SUBSET S)
    OBVIOUS
  <2> HIDE DEF C
  <2> QED BY <1>1, <2>1, MinimalSubset
<1> DEFINE G(u) == CHOOSE g : IsSum(w, u, g)
           T(u) == G(u)[u]
           top == [u \in SUBSET s |-> IF u = {} THEN 0 ELSE w[Pick(u)] + T(u \ {Pick(u)})]
<1>3. \A u \in SUBSET s : u # s => IsSum(w, u, G(u))
  <2> SUFFICES ASSUME NEW u \in SUBSET s, u # s PROVE IsSum(w, u, G(u))
    BY Zenon
  <2>1. u \in SUBSET S /\ u \notin C
    BY <1>2
  <2>2. \E g : IsSum(w, u, g)
    BY <2>1, Zenon
  <2> QED BY <2>2, Zenon
<1> HIDE DEF G
<1>4. \A u \in SUBSET s : u # s /\ u # {} => T(u) = w[Pick(u)] + T(u \ {Pick(u)})
  <2> SUFFICES ASSUME NEW u \in SUBSET s, u # s, u # {}
               PROVE  T(u) = w[Pick(u)] + T(u \ {Pick(u)})
    BY Zenon
  <2> DEFINE r == u \ {Pick(u)}
  <2>1. r \in SUBSET u /\ r \in SUBSET s /\ r # s /\ r \in SUBSET r
    BY PickedOff
  <2>2. IsSum(w, u, G(u)) /\ IsSum(w, r, G(r))
    BY <1>3, <2>1
  <2>3. IsFiniteSet(r)
    BY <2>1, <1>2, FS_Subset
  <2>4. G(r)[r] = G(u)[r]
    <3> HIDE DEF r
    <3> QED BY <2>1, <2>2, <2>3, SumUnique
  <2>5. u \in SUBSET u
    OBVIOUS
  <2>6. G(u)[u] = w[Pick(u)] + G(u)[r]
    BY <2>2, <2>5, SumRow
  <2> QED BY <2>4, <2>6
<1>5. \A u \in SUBSET s : u # s => top[u] = T(u)
  <2> SUFFICES ASSUME NEW u \in SUBSET s, u # s PROVE top[u] = T(u)
    BY Zenon
  <2>1. CASE u = {}
    <3>1. IsSum(w, u, G(u)) /\ u \in SUBSET u
      BY <1>3
    <3> QED BY <2>1, <3>1, SumRow
  <2>2. CASE u # {}
    BY <1>4, <2>2
  <2> QED BY <2>1, <2>2
<1>6. IsSum(w, s, top)
  <2>1. \A u \in SUBSET s : u # {} => top[u] = w[Pick(u)] + top[u \ {Pick(u)}]
    <3> SUFFICES ASSUME NEW u \in SUBSET s, u # {}
                 PROVE  top[u] = w[Pick(u)] + top[u \ {Pick(u)}]
      BY Zenon
    <3>1. u \ {Pick(u)} \in SUBSET s /\ u \ {Pick(u)} # s
      BY PickedOff
    <3>2. top[u \ {Pick(u)}] = T(u \ {Pick(u)})
      BY <1>5, <3>1
    <3>3. top[u] = w[Pick(u)] + T(u \ {Pick(u)})
      BY Zenon
    <3> QED BY <3>2, <3>3
  <2>2. \A u \in SUBSET s : u = {} => top[u] = 0
    OBVIOUS
  <2>3. top = [u \in SUBSET s |-> top[u]]
    BY Zenon
  <2> HIDE DEF top
  <2> QED BY <2>1, <2>2, <2>3 DEF IsSum
<1> QED BY <1>2, <1>6, Zenon

(* The chosen sums are sums. *)
LEMMA TotalIsSum ==
  ASSUME NEW S, IsFiniteSet(S), NEW w
  PROVE  \E g : IsSum(w, S, g) /\ Total(w, S) = g[S]
<1>1. IsSum(w, S, CHOOSE g : IsSum(w, S, g))
  BY SumExists, Zenon
<1> QED BY <1>1, Zenon DEF Total

(* A sum of natural numbers is one, bounds each of them, and is zero when  *)
(* they all are.                                                           *)
LEMMA TotalBounds ==
  ASSUME NEW S, IsFiniteSet(S), NEW w \in [S -> Nat]
  PROVE  /\ Total(w, S) \in Nat
         /\ \A t \in S : w[t] <= Total(w, S)
         /\ (\A t \in S : w[t] = 0) => Total(w, S) = 0
<1>1. PICK g : IsSum(w, S, g) /\ Total(w, S) = g[S]
  BY TotalIsSum
<1> DEFINE Good1(s) == /\ g[s] \in Nat
                       /\ \A t \in s : w[t] <= g[s]
                       /\ (\A t \in s : w[t] = 0) => g[s] = 0
           C == {s \in SUBSET S : ~Good1(s)}
<1>2. SUFFICES C = {}
  <2>1. S \in SUBSET S
    OBVIOUS
  <2>2. Good1(S)
    BY <1>2, <2>1, Zenon
  <2> QED BY <1>1, <2>2
<1>3. SUFFICES ASSUME C # {} PROVE FALSE
  OBVIOUS
<1>4. PICK s \in C : \A u \in C : ~(u \subseteq s /\ u # s)
  <2>1. C \in SUBSET (SUBSET S)
    OBVIOUS
  <2> HIDE DEF C
  <2> QED BY <1>3, <2>1, MinimalSubset
<1>5. s \in SUBSET S /\ ~Good1(s)
  BY <1>4
<1>6. CASE s = {}
  <2>1. g[s] = 0
    <3>1. s \in SUBSET S
      BY <1>5
    <3> HIDE DEF C, Good1
    <3> QED BY <1>1, <1>6, <3>1, SumRow
  <2> QED BY <1>5, <1>6, <2>1
<1>7. CASE s # {}
  <2> DEFINE x == Pick(s)
             r == s \ {x}
  <2>1. r \in SUBSET S /\ r \subseteq s /\ r # s /\ x \in s /\ x \in S
    BY <1>5, <1>7, PickedOff
  <2>2. Good1(r)
    <3>1. r \notin C
      BY <1>4, <2>1
    <3> QED BY <2>1, <3>1, Zenon
  <2>3. g[s] = w[x] + g[r]
    BY <1>1, <1>5, <1>7, SumRow, SMTT(60)
  <2>4. w[x] \in Nat /\ \A t \in s : t = x \/ t \in r
    BY <2>1
  <2> HIDE DEF x, r
  <2>5. \A t \in s : w[t] \in Nat
    BY <1>5
  <2>6. Good1(s)
    BY <2>1, <2>2, <2>3, <2>4, <2>5
  <2> QED BY <1>5, <2>6
<1> QED BY <1>6, <1>7

(* Changing one summand changes the sum by as much. *)
LEMMA TotalUpdate ==
  ASSUME NEW S, IsFiniteSet(S), NEW w \in [S -> Nat], NEW v \in [S -> Nat], NEW x \in S,
         \A t \in S : t # x => v[t] = w[t]
  PROVE  Total(v, S) = Total(w, S) - w[x] + v[x]
<1>1. PICK g : IsSum(w, S, g) /\ Total(w, S) = g[S]
  BY TotalIsSum
<1>2. PICK h : IsSum(v, S, h) /\ Total(v, S) = h[S]
  BY TotalIsSum
<1> DEFINE Goal(s) == /\ g[s] \in Int
                      /\ h[s] = IF x \in s THEN g[s] - w[x] + v[x] ELSE g[s]
           C == {s \in SUBSET S : ~Goal(s)}
<1>3. SUFFICES C = {}
  <2>1. S \in SUBSET S
    OBVIOUS
  <2>2. Goal(S)
    BY <1>3, <2>1, Zenon
  <2> QED BY <1>1, <1>2, <2>2
<1>4. SUFFICES ASSUME C # {} PROVE FALSE
  OBVIOUS
<1>5. PICK s \in C : \A u \in C : ~(u \subseteq s /\ u # s)
  <2>1. C \in SUBSET (SUBSET S)
    OBVIOUS
  <2> HIDE DEF C
  <2> QED BY <1>4, <2>1, MinimalSubset
<1>6. s \in SUBSET S /\ ~Goal(s)
  BY <1>5
<1>7. CASE s = {}
  BY <1>1, <1>2, <1>6, <1>7, SumRow
<1>8. CASE s # {}
  <2> DEFINE p == Pick(s)
             r == s \ {p}
  <2>1. r \in SUBSET S /\ r \subseteq s /\ r # s /\ p \in s /\ p \in S
    BY <1>6, <1>8, PickedOff
  <2>2. Goal(r)
    <3>1. r \notin C
      BY <1>5, <2>1
    <3> QED BY <2>1, <3>1, Zenon
  <2>3. g[s] = w[p] + g[r]
    BY <1>1, <1>6, <1>8, SumRow
  <2>7. h[s] = v[p] + h[r]
    BY <1>2, <1>6, <1>8, SumRow
  <2>4. w[p] \in Nat /\ v[p] \in Nat /\ w[x] \in Nat /\ v[x] \in Nat
    BY <2>1
  <2>5. (x \in r <=> x \in s /\ x # p) /\ (p # x => v[p] = w[p]) /\ (p = x => x \in s)
    BY <2>1
  <2> HIDE DEF p, r
  <2>6. Goal(s)
    BY <2>2, <2>3, <2>4, <2>5, <2>7
  <2> QED BY <1>6, <2>6
<1> QED BY <1>7, <1>8

(* The sum of TodoCounts, as a sum over a function. *)
Weight == [t \in Threads |-> IF pc[t] \in {"work", "lock"} THEN nNow[t] ELSE 0]

LEMMA TodoCountsTotal ==
  TodoCounts <=> ((\E t \in Threads : pc[t] # "dead") => nTodo = Len(queue) + Total(Weight, Threads))
<1>1. MapThenSumSet(LAMBDA t : IF pc[t] \in {"work", "lock"} THEN nNow[t] ELSE 0, Threads)
        = Total(Weight, Threads)
  BY ZenonT(60) DEF MapThenSumSet, MapThenFoldSet, Total, IsSum, Pick, Weight
<1> QED BY <1>1 DEF TodoCounts

(* A batch is not empty, and there is no more in it than is queued or than *)
(* a batch may hold.                                                       *)
LEMMA BatchBounds ==
  ASSUME queue \in Seq(Check), queue # <<>>, NEW total \in Nat, NEW idle \in Nat
  PROVE  Batch(total, idle) \in 1..Len(queue) /\ Batch(total, idle) <= nBatchSize
<1> DEFINE q == Len(queue) \div (total + idle + 1)
           lo == Min({nBatchSize, q})
           hi == Max({1, lo})
<1> USE CheckQueueAssumption
<1>1. Len(queue) \in Nat /\ Len(queue) >= 1
  BY EmptySeq
<1>2. q \in Nat /\ q <= Len(queue)
  <2>1. ASSUME NEW n \in Nat, NEW k \in Nat, k >= 1
        PROVE  n \div k \in Nat /\ n \div k <= n
    BY <2>1
  <2>2. total + idle + 1 \in Nat /\ total + idle + 1 >= 1
    OBVIOUS
  <2> QED BY <1>1, <2>1, <2>2
<1> HIDE DEF q
<1>3. lo \in {nBatchSize, q} /\ lo <= nBatchSize /\ lo <= q
  <2>1. \E x \in {nBatchSize, q} : \A y \in {nBatchSize, q} : x <= y
    BY <1>2
  <2>2. /\ lo \in {nBatchSize, q} /\ \A y \in {nBatchSize, q} : lo <= y
    BY <2>1 DEF Min
  <2> QED BY <2>2
<1> HIDE DEF lo
<1>4. hi \in {1, lo} /\ hi >= 1 /\ hi >= lo
  <2>1. lo \in Nat
    BY <1>2, <1>3
  <2>2. \E x \in {1, lo} : \A y \in {1, lo} : x >= y
    BY <2>1
  <2>3. hi \in {1, lo} /\ \A y \in {1, lo} : hi >= y
    BY <2>2 DEF Max
  <2> QED BY <2>3
<1>5. Batch(total, idle) = hi
  BY DEF Batch, q, lo
<1> HIDE DEF hi
<1> QED BY <1>1, <1>2, <1>3, <1>4, <1>5

-------------------------------------------------------------------------------
(* The inductive invariant.  While the process lives: who is where and has *)
(* the control; what a thread has taken; how many threads wait and are in  *)
(* the loop, where an interrupted thread is counted for ever; what the     *)
(* checks of the block add up to so far.                                   *)
Places == InLoop \cup {"outside", "control", "done", "dead"}

Alive == \E t \in Threads : pc[t] # "dead"

MutexInv ==
  /\ \A t \in Workers : pc[t] \in InLoop \cup {"dead"}
  /\ Alive => \A m \in Masters : pc[m] # "dead" /\ (pc[m] # "outside" <=> ControlMutex = m)

BatchInv ==
  \A t \in Threads :
    /\ pc[t] \notin {"work", "lock"} => nNow[t] = 0
    /\ pc[t] = "work" => nNow[t] = Len(vChecks[t]) /\ nNow[t] > 0
    /\ pc[t] # "work" => vChecks[t] = <<>>
    /\ nNow[t] = 0 => fOk[t]

Idle == {t \in Threads : pc[t] \in {"wait", "woken"}}

Counted ==
  {t \in Threads : pc[t] \in {"wait", "woken", "work"} \/ (pc[t] = "lock" /\ nNow[t] > 0)}

CountInv == /\ nIdle = Cardinality(Idle) + interrupts
            /\ nTotal = Cardinality(Counted) + interrupts

TodoInv == nTodo = Len(queue) + Total(nNow, Threads)

DoneInv == \A m \in Masters : pc[m] = "done" => nTodo = 0 /\ fAllOk /\ (result <=> added.ok)

(* No check that is queued, taken or accounted for has failed. *)
Good == /\ fAllOk
        /\ \A t \in Threads : fOk[t] /\ \A i \in DOMAIN vChecks[t] : vChecks[t][i].ok
        /\ \A i \in DOMAIN queue : queue[i].ok

OkInv == (\A m \in Masters : pc[m] # "done") => (added.ok <=> Good)

FreeInv == ControlMutex = Nobody => added.n = 0 /\ added.ok

LiveInv == BatchInv /\ CountInv /\ TodoInv /\ DoneInv /\ OkInv /\ FreeInv

QueueInv == /\ QueueTypeOK /\ interrupts \in 0..MaxInterrupts /\ nTodo <= added.n
            /\ MutexInv
            /\ ChecksBelongToControl
            /\ Alive => LiveInv

(* What the types say, in the form the proofs below use. *)
LEMMA QueueTypes ==
  ASSUME QueueTypeOK
  PROVE  /\ queue \in Seq(Check) /\ Len(queue) \in Nat
         /\ nTodo \in Nat /\ nIdle \in Nat /\ nTotal \in Nat
         /\ pc \in [Threads -> Places]
         /\ nNow \in [Threads -> Nat] /\ vChecks \in [Threads -> Seq(Check)]
         /\ fOk \in [Threads -> BOOLEAN] /\ fAllOk \in BOOLEAN
         /\ IsFiniteSet(Threads) /\ Cardinality(Threads) \in Nat
<1>1. IsFiniteSet(Threads) /\ Cardinality(Threads) \in Nat
  BY CheckQueueAssumption, FS_CardinalityType
<1>2. nNow \in [Threads -> Nat]
  BY CheckQueueAssumption DEF QueueTypeOK
<1>3. nIdle \in Nat /\ nTotal \in Nat /\ nTodo \in Nat /\ Len(queue) \in Nat
  BY <1>1, CheckQueueAssumption DEF QueueTypeOK
<1> QED BY <1>1, <1>2, <1>3 DEF QueueTypeOK, Places

(* The checks that are left are those queued and those other threads have  *)
(* taken; when none is left, the queue and all other hands are empty.      *)
LEMMA Left ==
  ASSUME QueueTypeOK, BatchInv, TodoInv, NEW t \in Threads
  PROVE  /\ nTodo - nNow[t] \in Nat
         /\ nTodo - nNow[t] >= Len(queue)
         /\ nTodo - nNow[t] = 0 =>
              /\ queue = <<>>
              /\ \A s \in Threads : s # t => nNow[s] = 0 /\ vChecks[s] = <<>> /\ fOk[s]
<1> DEFINE v == [nNow EXCEPT ![t] = 0]
<1>1. /\ nNow \in [Threads -> Nat] /\ v \in [Threads -> Nat] /\ IsFiniteSet(Threads)
      /\ queue \in Seq(Check) /\ Len(queue) \in Nat /\ nTodo \in Nat
  BY QueueTypes
<1>2. v[t] = 0 /\ \A s \in Threads : s # t => v[s] = nNow[s]
  BY <1>1
<1> HIDE DEF v
<1>3. Total(v, Threads) = Total(nNow, Threads) - nNow[t] + v[t]
  BY <1>1, <1>2, TotalUpdate
<1>4. Total(v, Threads) \in Nat /\ \A s \in Threads : v[s] <= Total(v, Threads)
  BY <1>1, TotalBounds
<1>5. Total(nNow, Threads) \in Nat /\ nNow[t] \in Nat
  BY <1>1, TotalBounds
<1>6. nTodo - nNow[t] = Len(queue) + Total(v, Threads)
  BY <1>1, <1>2, <1>3, <1>5 DEF TodoInv
<1>7. ASSUME nTodo - nNow[t] = 0
      PROVE  /\ queue = <<>>
             /\ \A s \in Threads : s # t => nNow[s] = 0 /\ vChecks[s] = <<>> /\ fOk[s]
  <2>1. Len(queue) = 0 /\ Total(v, Threads) = 0
    BY <1>1, <1>4, <1>6, <1>7
  <2>2. queue = <<>>
    BY <1>1, <2>1, EmptySeq
  <2>3. \A s \in Threads : s # t => nNow[s] = 0
    <3> SUFFICES ASSUME NEW s \in Threads, s # t PROVE nNow[s] = 0
      OBVIOUS
    <3>1. v[s] <= 0 /\ v[s] = nNow[s] /\ nNow[s] \in Nat
      BY <1>1, <1>2, <1>4, <2>1
    <3> QED BY <3>1
  <2> QED BY <2>2, <2>3 DEF BatchInv
<1> QED BY <1>1, <1>4, <1>6, <1>7

(* The condition on the counter that a step of one thread must restore. *)
LEMMA Retotal ==
  ASSUME QueueTypeOK, TodoInv, NEW t \in Threads, NEW n \in Nat,
         nNow' = [nNow EXCEPT ![t] = n],
         nTodo' = nTodo - nNow[t], Len(queue') = Len(queue) - n
  PROVE  TodoInv'
<1> DEFINE v == [nNow EXCEPT ![t] = n]
<1>1. /\ nNow \in [Threads -> Nat] /\ v \in [Threads -> Nat] /\ IsFiniteSet(Threads)
      /\ Len(queue) \in Nat /\ nTodo \in Nat
  BY QueueTypes
<1>2. v[t] = n /\ \A s \in Threads : s # t => v[s] = nNow[s]
  BY <1>1
<1>3. nNow' = v
  OBVIOUS
<1> HIDE DEF v
<1>4. Total(v, Threads) = Total(nNow, Threads) - nNow[t] + v[t]
  BY <1>1, <1>2, TotalUpdate
<1>5. Total(nNow, Threads) \in Nat /\ nNow[t] \in Nat
  BY <1>1, TotalBounds
<1>6. nTodo = Len(queue) + Total(nNow, Threads)
  BY DEF TodoInv
<1>7. nTodo' = Len(queue') + Total(v, Threads)
  BY <1>1, <1>2, <1>4, <1>5, <1>6
<1> QED BY <1>3, <1>7 DEF TodoInv

(* Notification moves waiting threads on; nothing else changes place. *)
Woken(at) == \A s \in Threads : at[s] = pc[s] \/ (pc[s] = "wait" /\ at[s] = "woken")

(* The invariant but for the counters of threads, and but for what the     *)
(* checks come to: what the three ways on in Loop() have to show.          *)
Moved(t, place) ==
  /\ pc'[t] = place
  /\ \A s \in Threads : s # t => pc'[s] = pc[s] \/ (pc[s] = "wait" /\ pc'[s] = "woken")

(* A thread that goes on from the mutex to `place` keeps the counters of   *)
(* threads, which leave t out where it stood, in step.                     *)
LEMMA CountStep ==
  ASSUME QueueTypeOK, CountInv, interrupts \in Nat, interrupts' = interrupts,
         NEW t \in Threads, NEW n \in Nat, NEW place \in {"work", "wait", "done"},
         Moved(t, place), nNow' = [nNow EXCEPT ![t] = n],
         nIdle' = Cardinality(Idle \ {t}) + interrupts + (IF place = "wait" THEN 1 ELSE 0),
         nTotal' = Cardinality(Counted \ {t}) + interrupts + (IF place = "done" THEN 0 ELSE 1)
  PROVE  CountInv'
<1>0. IsFiniteSet(Threads) /\ nNow \in [Threads -> Nat]
  BY QueueTypes
<1>1. IsFiniteSet(Idle \ {t}) /\ IsFiniteSet(Counted \ {t})
  <2>1. (Idle \ {t}) \in SUBSET Threads /\ (Counted \ {t}) \in SUBSET Threads
    BY DEF Idle, Counted
  <2> QED BY <1>0, <2>1, FS_Subset
<1>2. Idle' = IF place = "wait" THEN (Idle \ {t}) \cup {t} ELSE Idle \ {t}
  BY DEF Idle, Moved
<1>3. Counted' = IF place = "done" THEN Counted \ {t} ELSE (Counted \ {t}) \cup {t}
  BY <1>0 DEF Counted, Moved
<1>4. /\ Cardinality((Idle \ {t}) \cup {t}) = Cardinality(Idle \ {t}) + 1
      /\ Cardinality((Counted \ {t}) \cup {t}) = Cardinality(Counted \ {t}) + 1
  BY <1>1, FS_AddElement
<1>5. Cardinality(Idle \ {t}) \in Nat /\ Cardinality(Counted \ {t}) \in Nat
  BY <1>1, FS_CardinalityType
<1>6. Cardinality(Idle') = Cardinality(Idle \ {t}) + (IF place = "wait" THEN 1 ELSE 0)
  BY <1>2, <1>4, <1>5
<1>7. Cardinality(Counted') = Cardinality(Counted \ {t}) + (IF place = "done" THEN 0 ELSE 1)
  BY <1>3, <1>4, <1>5
<1> HIDE DEF Idle, Counted
<1>8. /\ nIdle' = Cardinality(Idle') + interrupts
      /\ nTotal' = Cardinality(Counted') + interrupts
  BY <1>5, <1>6, <1>7
<1> QED BY <1>8 DEF CountInv

(* The last elements of a sequence, and the first. *)
LEMMA DropSeq ==
  ASSUME NEW S, NEW s \in Seq(S), NEW k \in 0..Len(s)
  PROVE  /\ SubSeq(s, k + 1, Len(s)) \in Seq(S)
         /\ Len(SubSeq(s, k + 1, Len(s))) = Len(s) - k
         /\ \A i \in 1..(Len(s) - k) : SubSeq(s, k + 1, Len(s))[i] = s[i + k]
<1>1. Len(s) \in Nat /\ \A i \in 1..Len(s) : s[i] \in S
  BY LenProperties, ElementOfSeq
<1>2. k + 1 \in Int /\ Len(s) \in Int /\ \A i \in (k + 1)..Len(s) : s[i] \in S
  BY <1>1
<1>3. /\ SubSeq(s, k + 1, Len(s)) \in Seq(S)
      /\ Len(SubSeq(s, k + 1, Len(s))) = IF k + 1 <= Len(s) THEN Len(s) - (k + 1) + 1 ELSE 0
      /\ \A i \in 1 .. Len(s) - (k + 1) + 1 : SubSeq(s, k + 1, Len(s))[i] = s[(k + 1) + i - 1]
  BY <1>2, SubSeqProperties
<1> QED BY <1>1, <1>3

LEMMA TakeSeq ==
  ASSUME NEW S, NEW s \in Seq(S), NEW k \in 0..Len(s)
  PROVE  /\ SubSeq(s, 1, k) \in Seq(S)
         /\ Len(SubSeq(s, 1, k)) = k
         /\ \A i \in 1..k : SubSeq(s, 1, k)[i] = s[i]
<1>1. Len(s) \in Nat /\ \A i \in 1..Len(s) : s[i] \in S
  BY LenProperties, ElementOfSeq
<1>2. k \in Int /\ \A i \in 1..k : s[i] \in S
  BY <1>1
<1>3. /\ SubSeq(s, 1, k) \in Seq(S)
      /\ Len(SubSeq(s, 1, k)) = IF 1 <= k THEN k - 1 + 1 ELSE 0
      /\ \A i \in 1 .. k - 1 + 1 : SubSeq(s, 1, k)[i] = s[1 + i - 1]
  BY <1>2, SubSeqProperties
<1> QED BY <1>1, <1>3

(* The counters of threads stay within their bounds. *)
LEMMA CountTypes ==
  ASSUME CountInv', interrupts' \in 0..MaxInterrupts
  PROVE  /\ nIdle' \in 0..(Cardinality(Threads) + MaxInterrupts)
         /\ nTotal' \in 0..(Cardinality(Threads) + MaxInterrupts)
<1>1. Idle' \in SUBSET Threads /\ Counted' \in SUBSET Threads
  BY DEF Idle, Counted
<1>2. /\ IsFiniteSet(Idle') /\ IsFiniteSet(Counted')
      /\ Cardinality(Idle') <= Cardinality(Threads)
      /\ Cardinality(Counted') <= Cardinality(Threads)
  BY <1>1, CheckQueueAssumption, FS_Subset
<1>3. /\ Cardinality(Idle') \in Nat /\ Cardinality(Counted') \in Nat
      /\ Cardinality(Threads) \in Nat
  BY <1>2, CheckQueueAssumption, FS_CardinalityType
<1>4. nIdle' = Cardinality(Idle') + interrupts' /\ nTotal' = Cardinality(Counted') + interrupts'
  BY DEF CountInv
<1> QED BY <1>2, <1>3, <1>4, CheckQueueAssumption

(* A thread that goes on keeps the control where it is. *)
LEMMA MutexStep ==
  ASSUME MutexInv, NEW t \in Threads, NEW place \in {"work", "wait", "done"}, Moved(t, place),
         pc[t] \notin {"outside", "dead"}, place = "done" => t \in Masters,
         ControlMutex' = ControlMutex
  PROVE  MutexInv' /\ Alive'
<1>1. Alive /\ Alive'
  BY DEF Alive, Moved
<1>2. \A s \in Workers : pc'[s] \in InLoop \cup {"dead"}
  BY CheckQueueAssumption DEF MutexInv, Moved, Threads, InLoop
<1>3. \A m \in Masters : pc'[m] # "dead" /\ (pc'[m] # "outside" <=> ControlMutex' = m)
  BY <1>1 DEF MutexInv, Moved, Threads
<1> QED BY <1>1, <1>2, <1>3 DEF MutexInv

(* The step of Loop() from the test of the queue on: to take a batch, to   *)
(* return to ConnectBlock, or to wait.  `Proceeding` says in which state   *)
(* the thread comes to that test, whether from its last batch, for the     *)
(* first time, or from cond.wait.                                          *)
Proceeding(t, at, todo, ok, total, idle) ==
  /\ pc[t] \in {"lock", "woken"}
  /\ at \in [Threads -> Places] /\ at[t] = pc[t] /\ Woken(at)
  /\ todo = nTodo - nNow[t]
  /\ ok \in BOOLEAN /\ (ok <=> fAllOk /\ fOk[t])
  /\ total = Cardinality(Counted \ {t}) + interrupts + 1
  /\ idle = Cardinality(Idle \ {t}) + interrupts

LEMMA TakeStep ==
  ASSUME QueueInv, NEW t \in Threads, NEW at, NEW todo, NEW ok, NEW total, NEW idle,
         Proceeding(t, at, todo, ok, total, idle),
         Proceed(t, at, todo, ok, total, idle), queue # <<>>,
         UNCHANGED <<ControlMutex, destructing, added, interrupts>>
  PROVE  QueueInv'
<1> DEFINE n == Batch(total, idle)
           rest == Len(queue) - n
<1>0. /\ QueueTypeOK /\ Alive /\ LiveInv /\ MutexInv /\ ChecksBelongToControl
      /\ interrupts \in 0..MaxInterrupts /\ interrupts \in Nat /\ nTodo <= added.n
  BY CheckQueueAssumption DEF QueueInv, Proceeding, Alive
<1>1. /\ vChecks' = [vChecks EXCEPT ![t] = SubSeq(queue, rest + 1, Len(queue))]
      /\ queue' = SubSeq(queue, 1, rest)
      /\ nNow' = [nNow EXCEPT ![t] = n]
      /\ fOk' = [fOk EXCEPT ![t] = ok]
      /\ pc' = [at EXCEPT ![t] = "work"]
      /\ nTodo' = todo /\ fAllOk' = ok /\ nTotal' = total /\ nIdle' = idle
      /\ UNCHANGED <<result, ControlMutex, destructing, added, interrupts>>
  BY DEF Proceed
<1>2. total \in Nat /\ idle \in Nat
  <2>1. IsFiniteSet(Threads) /\ (Idle \ {t}) \in SUBSET Threads /\ (Counted \ {t}) \in SUBSET Threads
    BY <1>0, QueueTypes DEF Idle, Counted
  <2>2. Cardinality(Idle \ {t}) \in Nat /\ Cardinality(Counted \ {t}) \in Nat
    BY <2>1, FS_Subset, FS_CardinalityType
  <2> QED BY <1>0, <2>2 DEF Proceeding
<1>3. /\ queue \in Seq(Check) /\ Len(queue) \in Nat /\ nTodo \in Nat
      /\ pc \in [Threads -> Places] /\ nNow \in [Threads -> Nat]
      /\ vChecks \in [Threads -> Seq(Check)] /\ fOk \in [Threads -> BOOLEAN]
  BY <1>0, QueueTypes
<1>4. n \in 1..Len(queue) /\ n <= nBatchSize
  BY <1>2, <1>3, BatchBounds
<1> HIDE DEF n
<1>5. rest \in Nat /\ rest + n = Len(queue) /\ n \in Nat /\ n > 0
  BY <1>3, <1>4
<1> HIDE DEF rest
<1>6. /\ vChecks'[t] \in Seq(Check) /\ Len(vChecks'[t]) = n
      /\ \A i \in 1..n : vChecks'[t][i] = queue[i + rest]
  <2>1. rest \in 0..Len(queue) /\ Len(queue) - rest = n
    BY <1>3, <1>5
  <2>2. vChecks'[t] = SubSeq(queue, rest + 1, Len(queue))
    BY <1>1, <1>3
  <2>3. /\ SubSeq(queue, rest + 1, Len(queue)) \in Seq(Check)
        /\ Len(SubSeq(queue, rest + 1, Len(queue))) = Len(queue) - rest
        /\ \A i \in 1..(Len(queue) - rest) : SubSeq(queue, rest + 1, Len(queue))[i] = queue[i + rest]
    BY <1>3, <2>1, DropSeq
  <2> QED BY <2>1, <2>2, <2>3
<1>7. /\ queue' \in Seq(Check) /\ Len(queue') = rest
      /\ \A i \in 1..rest : queue'[i] = queue[i]
  <2>1. rest \in 0..Len(queue)
    BY <1>3, <1>5
  <2> QED BY <1>1, <1>3, <2>1, TakeSeq
<1>d. /\ DOMAIN queue = 1..Len(queue) /\ DOMAIN queue' = 1..rest /\ DOMAIN (vChecks'[t]) = 1..n
      /\ \A i \in 1..n : i + rest \in 1..Len(queue)
      /\ \A i \in 1..rest : i \in 1..Len(queue)
  BY <1>3, <1>5, <1>6, <1>7
<1>8. Moved(t, "work")
  BY <1>1 DEF Proceeding, Woken, Moved
<1>9. MutexInv' /\ Alive'
  BY <1>0, <1>1, <1>8, MutexStep DEF Proceeding
<1>10. TodoInv'
  <2>1. Len(queue') = Len(queue) - n
    BY <1>3, <1>5, <1>7
  <2> QED BY <1>0, <1>1, <1>5, <2>1, Retotal DEF Proceeding, LiveInv
<1>11. CountInv'
  <2>1. /\ nIdle' = Cardinality(Idle \ {t}) + interrupts + (IF "work" = "wait" THEN 1 ELSE 0)
        /\ nTotal' = Cardinality(Counted \ {t}) + interrupts + (IF "work" = "done" THEN 0 ELSE 1)
    BY <1>1, <1>2 DEF Proceeding
  <2> QED BY <1>0, <1>1, <1>5, <1>8, <2>1, CountStep DEF LiveInv
<1>12. \A m \in Masters : pc[m] # "done" /\ pc'[m] # "done"
  <2>1. nTodo # 0
    <3>1. nTodo - nNow[t] >= Len(queue) /\ nTodo - nNow[t] \in Nat /\ nNow[t] \in Nat
      BY <1>0, <1>3, Left DEF LiveInv
    <3> QED BY <1>3, <1>5, <3>1
  <2>2. \A m \in Masters : pc[m] # "done"
    BY <1>0, <2>1 DEF LiveInv, DoneInv
  <2> QED BY <2>2, <1>8 DEF Moved, Threads
<1>13. BatchInv'
  <2>1. nNow'[t] = n /\ nNow'[t] = Len(vChecks'[t]) /\ pc'[t] = "work"
    BY <1>1, <1>3, <1>6, <1>8 DEF Moved
  <2>2. \A s \in Threads : s # t =>
          /\ nNow'[s] = nNow[s] /\ vChecks'[s] = vChecks[s] /\ fOk'[s] = fOk[s]
          /\ (pc'[s] = pc[s] \/ (pc[s] = "wait" /\ pc'[s] = "woken"))
    BY <1>1, <1>3, <1>8 DEF Moved
  <2>3. BatchInv
    BY <1>0 DEF LiveInv
  <2> QED BY <1>5, <2>1, <2>2, <2>3 DEF BatchInv
<1>14. Good' <=> Good
  <2>1. \A i \in DOMAIN queue : i \in 1..rest \/ (i - rest) \in 1..n
    BY <1>3, <1>5
  <2>2. (\A i \in DOMAIN queue : queue[i].ok) <=>
           /\ \A i \in DOMAIN queue' : queue'[i].ok
           /\ \A i \in DOMAIN (vChecks'[t]) : vChecks'[t][i].ok
    <3>1. ASSUME \A i \in DOMAIN queue : queue[i].ok
          PROVE  /\ \A i \in DOMAIN queue' : queue'[i].ok
                 /\ \A i \in DOMAIN (vChecks'[t]) : vChecks'[t][i].ok
      BY <1>6, <1>7, <1>d, <3>1
    <3>2. ASSUME /\ \A i \in DOMAIN queue' : queue'[i].ok
                 /\ \A i \in DOMAIN (vChecks'[t]) : vChecks'[t][i].ok,
                 NEW i \in DOMAIN queue
          PROVE  queue[i].ok
      <4>1. CASE i \in 1..rest
        BY <1>7, <1>d, <3>2, <4>1
      <4>2. CASE (i - rest) \in 1..n
        <5>1. vChecks'[t][i - rest] = queue[(i - rest) + rest] /\ (i - rest) + rest = i
          BY <1>3, <1>5, <1>6, <4>2
        <5>2. (i - rest) \in DOMAIN (vChecks'[t])
          BY <1>d, <4>2
        <5> QED BY <3>2, <5>1, <5>2
      <4> QED BY <2>1, <4>1, <4>2
    <3> QED BY <3>1, <3>2
  <2>3. vChecks[t] = <<>> /\ \A s \in Threads : s # t => vChecks'[s] = vChecks[s] /\ fOk'[s] = fOk[s]
    BY <1>0, <1>1, <1>3 DEF LiveInv, BatchInv, Proceeding
  <2>4. fOk'[t] = ok /\ fAllOk' = ok /\ (ok <=> fAllOk /\ fOk[t])
    BY <1>1, <1>3 DEF Proceeding
  <2>5. DOMAIN vChecks[t] = {}
    BY <2>3
  <2> QED BY <2>2, <2>3, <2>4, <2>5 DEF Good
<1>15. OkInv' /\ DoneInv'
  BY <1>0, <1>1, <1>12, <1>14 DEF OkInv, DoneInv, LiveInv
<1>16. FreeInv'
  BY <1>0, <1>1 DEF FreeInv, LiveInv
<1>17. ChecksBelongToControl'
  <2>1. ControlMutex # Nobody
    BY <1>0, <1>3, <1>5, Left DEF LiveInv, ChecksBelongToControl
  <2>2. \A i \in DOMAIN queue' : queue'[i].owner = ControlMutex
    BY <1>0, <1>7, <1>d DEF ChecksBelongToControl
  <2>3. \A i \in DOMAIN (vChecks'[t]) : vChecks'[t][i].owner = ControlMutex
    BY <1>0, <1>6, <1>d DEF ChecksBelongToControl
  <2>4. \A s \in Threads : s # t => vChecks'[s] = vChecks[s]
    BY <1>1, <1>3
  <2>5. \A s \in Threads : \A i \in DOMAIN (vChecks'[s]) : vChecks'[s][i].owner = ControlMutex
    BY <1>0, <2>3, <2>4 DEF ChecksBelongToControl
  <2>6. ControlMutex' = ControlMutex
    BY <1>1
  <2> QED BY <2>1, <2>2, <2>5, <2>6 DEF ChecksBelongToControl
<1>18. QueueTypeOK' /\ nTodo' <= added.n
  <2>1. nTodo' \in Nat /\ nTodo' <= nTodo
    BY <1>0, <1>1, <1>3, Left DEF LiveInv, Proceeding
  <2>2. nNow' \in [Threads -> 0..nBatchSize] /\ vChecks' \in [Threads -> Seq(Check)]
    BY <1>0, <1>1, <1>3, <1>4, <1>5, <1>6 DEF QueueTypeOK
  <2>3. fOk' \in [Threads -> BOOLEAN] /\ fAllOk' \in BOOLEAN /\ pc' \in [Threads -> Places]
    BY <1>1, <1>3 DEF Proceeding, Places, InLoop
  <2>4. Len(queue') <= MaxChecks /\ nTodo' \in 0..MaxChecks /\ nTodo' <= added.n
    BY <1>0, <1>3, <1>5, <1>7, <2>1, CheckQueueAssumption DEF QueueTypeOK
  <2> QED BY <1>0, <1>1, <1>7, <1>11, <2>2, <2>3, <2>4, CountTypes DEF QueueTypeOK, Places
<1> QED BY <1>0, <1>1, <1>9, <1>10, <1>11, <1>13, <1>15, <1>16, <1>17, <1>18 DEF QueueInv, LiveInv

LEMMA LeaveStep ==
  ASSUME QueueInv, NEW t \in Threads, NEW at, NEW todo, NEW ok, NEW total, NEW idle,
         Proceeding(t, at, todo, ok, total, idle),
         Proceed(t, at, todo, ok, total, idle), queue = <<>>,
         UNCHANGED <<ControlMutex, destructing, added, interrupts>>
  PROVE  QueueInv'
<1>0. /\ QueueTypeOK /\ Alive /\ LiveInv /\ MutexInv /\ ChecksBelongToControl
      /\ interrupts \in 0..MaxInterrupts /\ interrupts \in Nat /\ nTodo <= added.n
  BY CheckQueueAssumption DEF QueueInv, Proceeding, Alive
<1>1. /\ queue \in Seq(Check) /\ Len(queue) = 0 /\ nTodo \in Nat
      /\ pc \in [Threads -> Places] /\ nNow \in [Threads -> Nat]
      /\ vChecks \in [Threads -> Seq(Check)] /\ fOk \in [Threads -> BOOLEAN]
      /\ fAllOk \in BOOLEAN /\ added.ok \in BOOLEAN
  BY <1>0, QueueTypes DEF QueueTypeOK
<1>2. /\ nNow' = [nNow EXCEPT ![t] = 0] /\ fOk' = [fOk EXCEPT ![t] = TRUE]
      /\ nTodo' = todo
      /\ UNCHANGED <<queue, vChecks, ControlMutex, destructing, added, interrupts>>
      /\ \/ /\ t \in Masters /\ todo = 0
            /\ nTotal' = total - 1 /\ nIdle' = idle
            /\ result' = ok /\ fAllOk' = TRUE
            /\ pc' = [at EXCEPT ![t] = "done"]
         \/ /\ t \in Masters => todo # 0
            /\ nTotal' = total /\ nIdle' = idle + 1
            /\ UNCHANGED result /\ fAllOk' = ok
            /\ pc' = [at EXCEPT ![t] = "wait"]
  BY DEF Proceed
<1>3. total - 1 = Cardinality(Counted \ {t}) + interrupts /\ total \in Nat /\ idle \in Nat
  <2>1. IsFiniteSet(Threads) /\ (Idle \ {t}) \in SUBSET Threads /\ (Counted \ {t}) \in SUBSET Threads
    BY <1>0, QueueTypes DEF Idle, Counted
  <2>2. Cardinality(Idle \ {t}) \in Nat /\ Cardinality(Counted \ {t}) \in Nat
    BY <2>1, FS_Subset, FS_CardinalityType
  <2> QED BY <1>0, <2>2 DEF Proceeding
<1>4. TodoInv'
  <2>1. Len(queue') = Len(queue) - 0
    BY <1>1, <1>2
  <2>2. nTodo' = nTodo - nNow[t] /\ 0 \in Nat
    BY <1>2 DEF Proceeding
  <2> QED BY <1>0, <1>2, <2>1, <2>2, Retotal DEF LiveInv
<1>5. \A s \in Threads :
        /\ s # t => nNow'[s] = nNow[s] /\ fOk'[s] = fOk[s]
        /\ vChecks'[s] = vChecks[s]
  BY <1>1, <1>2
<1>6. nNow'[t] = 0 /\ fOk'[t] /\ vChecks[t] = <<>>
  BY <1>0, <1>1, <1>2 DEF LiveInv, BatchInv, Proceeding
<1>7. /\ nTodo' \in Nat /\ nTodo' <= nTodo
      /\ nTodo' = 0 => \A s \in Threads : s # t => nNow[s] = 0 /\ vChecks[s] = <<>> /\ fOk[s]
  <2>1. /\ nTodo - nNow[t] \in Nat /\ nNow[t] \in Nat
        /\ nTodo - nNow[t] = 0 =>
             \A s \in Threads : s # t => nNow[s] = 0 /\ vChecks[s] = <<>> /\ fOk[s]
    BY <1>0, <1>1, Left DEF LiveInv
  <2>2. nTodo' = nTodo - nNow[t]
    BY <1>2 DEF Proceeding
  <2> QED BY <1>1, <2>1, <2>2
<1>8. ASSUME NEW place \in {"work", "wait", "done"}, Moved(t, place), place # "work"
      PROVE  BatchInv'
  <2>1. \A s \in Threads : s # t =>
          /\ nNow'[s] = nNow[s] /\ vChecks'[s] = vChecks[s] /\ fOk'[s] = fOk[s]
          /\ (pc'[s] = pc[s] \/ (pc[s] = "wait" /\ pc'[s] = "woken"))
    BY <1>5, <1>8 DEF Moved
  <2>2. pc'[t] # "work" /\ vChecks'[t] = <<>>
    BY <1>5, <1>6, <1>8 DEF Moved
  <2>3. BatchInv
    BY <1>0 DEF LiveInv
  <2> QED BY <1>6, <2>1, <2>2, <2>3 DEF BatchInv
<1>9. ASSUME NEW place \in {"work", "wait", "done"}, Moved(t, place), CountInv',
             fAllOk' \in BOOLEAN, result' \in BOOLEAN, pc' = [at EXCEPT ![t] = place]
      PROVE  QueueTypeOK' /\ nTodo' <= added.n
  <2>1. nNow' \in [Threads -> 0..nBatchSize] /\ fOk' \in [Threads -> BOOLEAN]
    BY <1>0, <1>1, <1>2, CheckQueueAssumption DEF QueueTypeOK
  <2>2. pc' \in [Threads -> Places]
    BY <1>9 DEF Proceeding, Places, InLoop
  <2>3. nTodo' \in 0..MaxChecks /\ nTodo' <= added.n
    BY <1>0, <1>1, <1>7, CheckQueueAssumption DEF QueueTypeOK
  <2>4. /\ nIdle' \in 0..(Cardinality(Threads) + MaxInterrupts)
        /\ nTotal' \in 0..(Cardinality(Threads) + MaxInterrupts)
    BY <1>0, <1>2, <1>9, CountTypes
  <2> QED BY <1>0, <1>2, <1>9, <2>1, <2>2, <2>3, <2>4 DEF QueueTypeOK, Places
<1>10. FreeInv'
  BY <1>0, <1>2 DEF FreeInv, LiveInv
<1>11. ASSUME ControlMutex = Nobody => fAllOk'
       PROVE  ChecksBelongToControl'
  <2>1. ControlMutex = Nobody => nTodo' = 0
    BY <1>0, <1>1, <1>7 DEF ChecksBelongToControl
  <2> QED BY <1>0, <1>2, <1>11, <2>1 DEF ChecksBelongToControl
<1>12. CASE /\ t \in Masters /\ todo = 0
            /\ nTotal' = total - 1 /\ nIdle' = idle
            /\ result' = ok /\ fAllOk' = TRUE
            /\ pc' = [at EXCEPT ![t] = "done"]
  <2>1. Moved(t, "done")
    BY <1>12 DEF Proceeding, Woken, Moved
  <2>2. MutexInv' /\ Alive'
    BY <1>0, <1>2, <1>12, <2>1, MutexStep DEF Proceeding
  <2>3. CountInv'
    <3>1. /\ nIdle' = Cardinality(Idle \ {t}) + interrupts + (IF "done" = "wait" THEN 1 ELSE 0)
          /\ nTotal' = Cardinality(Counted \ {t}) + interrupts + (IF "done" = "done" THEN 0 ELSE 1)
      BY <1>3, <1>12 DEF Proceeding
    <3> QED BY <1>0, <1>2, <2>1, <3>1, CountStep DEF LiveInv
  <2>4. ControlMutex = t /\ \A m \in Masters : m # t => pc[m] = "outside" /\ pc'[m] = "outside"
    BY <1>0, <1>12, <2>1 DEF MutexInv, Proceeding, Moved, Threads
  <2>5. Good <=> ok
    <3>1. \A s \in Threads : s # t => fOk[s] /\ vChecks[s] = <<>>
      BY <1>2, <1>7, <1>12
    <3>2. \A s \in Threads : DOMAIN vChecks[s] = {}
      BY <1>6, <3>1
    <3>3. DOMAIN queue = {}
      OBVIOUS
    <3>4. ok <=> fAllOk /\ fOk[t]
      BY DEF Proceeding
    <3> QED BY <3>1, <3>2, <3>3, <3>4 DEF Good
  <2>6. added.ok <=> ok
    <3>1. \A m \in Masters : pc[m] # "done"
      BY <2>4 DEF Proceeding
    <3> QED BY <1>0, <2>5, <3>1 DEF LiveInv, OkInv
  <2>7. DoneInv'
    <3>1. (result' <=> added'.ok) /\ nTodo' = 0 /\ fAllOk'
      BY <1>2, <1>12, <2>6
    <3> QED BY <3>1 DEF DoneInv
  <2>8. OkInv'
    BY <1>12, <2>1 DEF OkInv, Moved
  <2>9. QueueTypeOK' /\ nTodo' <= added.n
    <3>1. fAllOk' \in BOOLEAN /\ result' \in BOOLEAN
      BY <1>12 DEF Proceeding
    <3> QED BY <1>9, <1>12, <2>1, <2>3, <3>1
  <2>10. ChecksBelongToControl'
    BY <1>11, <1>12
  <2> QED BY <1>0, <1>2, <1>4, <1>8, <1>10, <2>1, <2>2, <2>3, <2>7, <2>8, <2>9, <2>10
        DEF QueueInv, LiveInv
<1>13. CASE /\ t \in Masters => todo # 0
            /\ nTotal' = total /\ nIdle' = idle + 1
            /\ UNCHANGED result /\ fAllOk' = ok
            /\ pc' = [at EXCEPT ![t] = "wait"]
  <2>1. Moved(t, "wait")
    BY <1>13 DEF Proceeding, Woken, Moved
  <2>2. MutexInv' /\ Alive'
    BY <1>0, <1>2, <1>13, <2>1, MutexStep DEF Proceeding
  <2>3. CountInv'
    <3>1. /\ nIdle' = Cardinality(Idle \ {t}) + interrupts + (IF "wait" = "wait" THEN 1 ELSE 0)
          /\ nTotal' = Cardinality(Counted \ {t}) + interrupts + (IF "wait" = "done" THEN 0 ELSE 1)
      BY <1>3, <1>13 DEF Proceeding
    <3> QED BY <1>0, <1>2, <2>1, <3>1, CountStep DEF LiveInv
  <2>4. ok <=> fAllOk /\ fOk[t]
    BY DEF Proceeding
  <2>5. nTodo = 0 => nTodo' = 0 /\ (fAllOk' <=> fAllOk)
    <3>1. ASSUME nTodo = 0 PROVE nTodo' = 0 /\ fOk[t]
      <4>1. nTodo' = nTodo - nNow[t] /\ nNow[t] \in Nat /\ nTodo' \in Nat
        BY <1>1, <1>2, <1>7 DEF Proceeding
      <4>2. nTodo' = 0 /\ nNow[t] = 0
        BY <3>1, <4>1
      <4> QED BY <1>0, <4>2 DEF LiveInv, BatchInv
    <3> QED BY <1>13, <2>4, <3>1
  <2>6. \A m \in Masters : pc'[m] = "done" <=> pc[m] = "done"
    BY <2>1 DEF Proceeding, Moved, Threads
  <2>7. DoneInv'
    BY <1>0, <1>2, <1>13, <2>5, <2>6 DEF LiveInv, DoneInv
  <2>8. Good' <=> Good
    <3>1. fAllOk' <=> fAllOk /\ fOk[t]
      BY <1>13, <2>4
    <3>2. DOMAIN vChecks[t] = {} /\ vChecks' = vChecks /\ queue' = queue
      BY <1>2, <1>6
    <3> QED BY <1>5, <1>6, <3>1, <3>2 DEF Good
  <2>9. OkInv'
    BY <1>0, <1>2, <2>6, <2>8 DEF OkInv, LiveInv
  <2>10. QueueTypeOK' /\ nTodo' <= added.n
    <3>1. fAllOk' \in BOOLEAN /\ result' \in BOOLEAN
      BY <1>0, <1>13 DEF Proceeding, QueueTypeOK
    <3> QED BY <1>9, <1>13, <2>1, <2>3, <3>1
  <2>11. ChecksBelongToControl'
    <3>1. ControlMutex = Nobody => fAllOk'
      BY <1>0, <2>5 DEF ChecksBelongToControl
    <3> QED BY <1>11, <3>1
  <2> QED BY <1>0, <1>2, <1>4, <1>8, <1>10, <2>1, <2>2, <2>3, <2>7, <2>9, <2>10, <2>11
        DEF QueueInv, LiveInv
<1> QED BY <1>2, <1>12, <1>13

(* Loop() and Resume() come to the test of the queue in a state `Proceeding`    *)
(* describes.                                                              *)
LEMMA ProceedStep ==
  ASSUME QueueInv, NEW t \in Threads, NEW at, NEW todo, NEW ok, NEW total, NEW idle,
         Proceeding(t, at, todo, ok, total, idle),
         Proceed(t, at, todo, ok, total, idle),
         UNCHANGED <<ControlMutex, destructing, added, interrupts>>
  PROVE  QueueInv'
<1>1. CASE queue # <<>>
  BY <1>1, TakeStep
<1>2. CASE queue = <<>>
  BY <1>2, LeaveStep
<1> QED BY <1>1, <1>2

(* A thread among the idle or counted ones, and without it. *)
LEMMA Without ==
  ASSUME QueueTypeOK, CountInv, interrupts \in Nat, NEW t \in Threads
  PROVE  /\ t \in Idle => nIdle - 1 = Cardinality(Idle \ {t}) + interrupts
         /\ t \notin Idle => nIdle = Cardinality(Idle \ {t}) + interrupts
         /\ t \in Counted => nTotal = Cardinality(Counted \ {t}) + interrupts + 1
         /\ t \notin Counted => nTotal = Cardinality(Counted \ {t}) + interrupts
<1>1. IsFiniteSet(Idle) /\ IsFiniteSet(Counted)
  <2>1. IsFiniteSet(Threads) /\ Idle \in SUBSET Threads /\ Counted \in SUBSET Threads
    BY QueueTypes DEF Idle, Counted
  <2> QED BY <2>1, FS_Subset
<1>2. /\ Cardinality(Idle \ {t}) = IF t \in Idle THEN Cardinality(Idle) - 1 ELSE Cardinality(Idle)
      /\ Cardinality(Counted \ {t}) =
           IF t \in Counted THEN Cardinality(Counted) - 1 ELSE Cardinality(Counted)
  BY <1>1, FS_RemoveElement
<1>3. Cardinality(Idle) \in Nat /\ Cardinality(Counted) \in Nat
  BY <1>1, FS_CardinalityType
<1>4. nIdle = Cardinality(Idle) + interrupts /\ nTotal = Cardinality(Counted) + interrupts
  BY DEF CountInv
<1> HIDE DEF Idle, Counted
<1> QED BY <1>2, <1>3, <1>4

LEMMA LoopStep ==
  ASSUME QueueInv, NEW t \in Threads, Loop(t)
  PROVE  QueueInv'
<1>0. /\ QueueTypeOK /\ LiveInv /\ interrupts \in Nat /\ pc[t] = "lock"
      /\ UNCHANGED <<ControlMutex, destructing, added, interrupts>>
  BY CheckQueueAssumption DEF QueueInv, Alive, Loop
<1>1. /\ pc \in [Threads -> Places] /\ nNow \in [Threads -> Nat] /\ nTodo \in Nat
      /\ fOk \in [Threads -> BOOLEAN] /\ fAllOk \in BOOLEAN
  BY <1>0, QueueTypes
<1>2. CASE nNow[t] > 0
  <2> DEFINE todo == nTodo - nNow[t]
  <2>1. PICK at \in IF todo = 0 /\ t \in Workers THEN notify_one(Masters) ELSE {pc} :
               Proceed(t, at, todo, fAllOk /\ fOk[t], nTotal, nIdle)
    BY <1>2 DEF Loop
  <2>2. at \in [Threads -> Places] /\ at[t] = pc[t] /\ Woken(at)
    <3>1. at = pc \/ \E s \in Waiting(Masters) : at = [pc EXCEPT ![s] = "woken"]
      BY <2>1 DEF notify_one
    <3>2. CASE at = pc
      BY <1>1, <3>2 DEF Woken
    <3>3. ASSUME NEW s \in Waiting(Masters), at = [pc EXCEPT ![s] = "woken"]
          PROVE  at \in [Threads -> Places] /\ at[t] = pc[t] /\ Woken(at)
      <4>1. s \in Threads /\ pc[s] = "wait"
        BY DEF Waiting, Threads
      <4> QED BY <1>0, <1>1, <3>3, <4>1 DEF Woken, Places, InLoop
    <3> QED BY <3>1, <3>2, <3>3
  <2>3. t \in Counted /\ t \notin Idle
    BY <1>0, <1>2 DEF Counted, Idle
  <2>4. /\ nTotal = Cardinality(Counted \ {t}) + interrupts + 1
        /\ nIdle = Cardinality(Idle \ {t}) + interrupts
    BY <1>0, <2>3, Without DEF LiveInv
  <2>5. Proceeding(t, at, todo, fAllOk /\ fOk[t], nTotal, nIdle)
    BY <1>0, <1>1, <2>2, <2>4 DEF Proceeding
  <2> QED BY <1>0, <2>1, <2>5, ProceedStep
<1>3. CASE ~(nNow[t] > 0)
  <2>1. Proceed(t, pc, nTodo, fAllOk, nTotal + 1, nIdle)
    BY <1>3 DEF Loop
  <2>2. nNow[t] = 0 /\ fOk[t] /\ nTodo = nTodo - nNow[t]
    BY <1>0, <1>1, <1>3 DEF LiveInv, BatchInv
  <2>3. t \notin Counted /\ t \notin Idle
    BY <1>0, <1>3 DEF Counted, Idle
  <2>4. /\ nTotal + 1 = Cardinality(Counted \ {t}) + interrupts + 1
        /\ nIdle = Cardinality(Idle \ {t}) + interrupts
    BY <1>0, <2>3, Without DEF LiveInv
  <2>5. Proceeding(t, pc, nTodo, fAllOk, nTotal + 1, nIdle)
    BY <1>0, <1>1, <2>2, <2>4 DEF Proceeding, Woken
  <2> QED BY <1>0, <2>1, <2>5, ProceedStep
<1> QED BY <1>2, <1>3

LEMMA ResumeStep ==
  ASSUME QueueInv, NEW t \in Threads, Resume(t)
  PROVE  QueueInv'
<1>0. /\ QueueTypeOK /\ LiveInv /\ interrupts \in Nat /\ pc[t] = "woken"
      /\ UNCHANGED <<ControlMutex, destructing, added, interrupts>>
      /\ Proceed(t, pc, nTodo, fAllOk, nTotal, nIdle - 1)
  BY CheckQueueAssumption DEF QueueInv, Alive, Resume
<1>1. /\ pc \in [Threads -> Places] /\ nNow \in [Threads -> Nat] /\ nTodo \in Nat
      /\ fOk \in [Threads -> BOOLEAN] /\ fAllOk \in BOOLEAN
  BY <1>0, QueueTypes
<1>2. nNow[t] = 0 /\ fOk[t] /\ nTodo = nTodo - nNow[t]
  BY <1>0, <1>1 DEF LiveInv, BatchInv
<1>3. t \in Counted /\ t \in Idle
  BY <1>0 DEF Counted, Idle
<1>4. /\ nTotal = Cardinality(Counted \ {t}) + interrupts + 1
      /\ nIdle - 1 = Cardinality(Idle \ {t}) + interrupts
  BY <1>0, <1>3, Without DEF LiveInv
<1>5. Proceeding(t, pc, nTodo, fAllOk, nTotal, nIdle - 1)
  BY <1>0, <1>1, <1>2, <1>4 DEF Proceeding, Woken
<1> QED BY <1>0, <1>5, ProceedStep

(* A step that only moves threads between places where they hold and count *)
(* for the same.                                                           *)
LEMMA PlaceStep ==
  ASSUME QueueInv, Alive, UNCHANGED <<shared, locals, result, added, interrupts, ControlMutex>>,
         destructing' \in BOOLEAN, pc' \in [Threads -> Places],
         \A t \in Threads :
           /\ pc'[t] \in {"wait", "woken"} <=> pc[t] \in {"wait", "woken"}
           /\ \A p \in {"work", "done", "dead", "outside"} : pc'[t] = p <=> pc[t] = p
           /\ pc[t] = "lock" => pc'[t] = "lock"
           /\ pc'[t] = "lock" => pc[t] \in {"lock", "control"}
           /\ pc'[t] = "control" => pc[t] = "control"
  PROVE  QueueInv'
<1>0. /\ QueueTypeOK /\ LiveInv /\ MutexInv
      /\ UNCHANGED <<queue, nIdle, nTotal, fAllOk, nTodo, vChecks, nNow, fOk, added, result,
                     interrupts, ControlMutex>>
  BY DEF QueueInv, shared, locals
<1>1. QueueTypeOK'
  BY <1>0 DEF QueueTypeOK, Places
<1>2. MutexInv' /\ Alive'
  <2>1. Alive'
    BY DEF Alive
  <2>2. \A t \in Workers : pc'[t] \in InLoop \cup {"dead"}
    BY <1>0 DEF MutexInv, Threads, InLoop, Places
  <2>3. \A m \in Masters : pc'[m] # "dead" /\ (pc'[m] # "outside" <=> ControlMutex' = m)
    BY <1>0 DEF MutexInv, Threads
  <2> QED BY <2>1, <2>2, <2>3 DEF MutexInv
<1>3. BatchInv'
  BY <1>0 DEF LiveInv, BatchInv
<1>4. Idle' = Idle
  BY DEF Idle
<1>5. Counted' = Counted
  <2>1. \A t \in Threads : pc[t] = "control" => nNow[t] = 0
    BY <1>0 DEF LiveInv, BatchInv
  <2>2. nNow \in [Threads -> Nat]
    BY <1>0, QueueTypes
  <2> QED BY <1>0, <2>1, <2>2 DEF Counted
<1>6. CountInv' /\ TodoInv' /\ FreeInv' /\ ChecksBelongToControl'
  BY <1>0, <1>4, <1>5 DEF LiveInv, CountInv, TodoInv, FreeInv, QueueInv, ChecksBelongToControl
<1>7. \A m \in Masters : pc'[m] = "done" <=> pc[m] = "done"
  BY DEF Threads
<1>8. DoneInv' /\ OkInv'
  BY <1>0, <1>7 DEF LiveInv, DoneInv, OkInv, Good
<1> QED BY <1>0, <1>1, <1>2, <1>3, <1>6, <1>8 DEF QueueInv, LiveInv

LEMMA ExecuteStep ==
  ASSUME QueueInv, NEW t \in Threads, Execute(t)
  PROVE  QueueInv'
<1>0. /\ QueueTypeOK /\ Alive /\ LiveInv /\ MutexInv /\ pc[t] = "work"
      /\ UNCHANGED <<queue, nIdle, nTotal, fAllOk, nTodo, nNow, added, result, destructing,
                     interrupts, ControlMutex>>
      /\ vChecks' = [vChecks EXCEPT ![t] = <<>>]
      /\ pc' = [pc EXCEPT ![t] = "lock"]
      /\ fOk' = [fOk EXCEPT ![t] = fOk[t] /\ \A i \in DOMAIN vChecks[t] : vChecks[t][i].ok]
  BY DEF QueueInv, Alive, Execute, shared
<1>1. /\ pc \in [Threads -> Places] /\ nNow \in [Threads -> Nat]
      /\ vChecks \in [Threads -> Seq(Check)] /\ fOk \in [Threads -> BOOLEAN]
  BY <1>0, QueueTypes
<1>2. /\ pc'[t] = "lock" /\ vChecks'[t] = <<>> /\ nNow[t] > 0
      /\ fOk'[t] <=> fOk[t] /\ \A i \in DOMAIN vChecks[t] : vChecks[t][i].ok
      /\ \A s \in Threads : s # t => pc'[s] = pc[s] /\ vChecks'[s] = vChecks[s] /\ fOk'[s] = fOk[s]
  BY <1>0, <1>1 DEF LiveInv, BatchInv
<1>3. QueueTypeOK'
  <2>1. pc' \in [Threads -> Places] /\ vChecks' \in [Threads -> Seq(Check)]
    BY <1>0, <1>1 DEF Places, InLoop
  <2>2. fOk' \in [Threads -> BOOLEAN]
    BY <1>0, <1>1
  <2> QED BY <1>0, <2>1, <2>2 DEF QueueTypeOK, Places
<1>4. MutexInv' /\ Alive'
  <2>1. Alive'
    BY <1>2 DEF Alive
  <2>2. \A s \in Workers : pc'[s] \in InLoop \cup {"dead"}
    BY <1>0, <1>2 DEF MutexInv, Threads, InLoop
  <2>3. \A m \in Masters : pc'[m] # "dead" /\ (pc'[m] # "outside" <=> ControlMutex' = m)
    BY <1>0, <1>2 DEF MutexInv, Threads
  <2> QED BY <2>1, <2>2, <2>3 DEF MutexInv
<1>5. BatchInv'
  BY <1>0, <1>1, <1>2 DEF LiveInv, BatchInv
<1>6. Idle' = Idle /\ Counted' = Counted
  BY <1>0, <1>2 DEF Idle, Counted
<1>7. CountInv' /\ TodoInv' /\ FreeInv'
  BY <1>0, <1>6 DEF LiveInv, CountInv, TodoInv, FreeInv
<1>8. ChecksBelongToControl'
  BY <1>0, <1>2 DEF QueueInv, ChecksBelongToControl
<1>9. \A m \in Masters : pc'[m] = "done" <=> pc[m] = "done"
  BY <1>0, <1>2 DEF Threads
<1>10. Good' <=> Good
  <2>1. DOMAIN (vChecks'[t]) = {}
    BY <1>2
  <2> QED BY <1>0, <1>2, <2>1 DEF Good
<1>11. DoneInv' /\ OkInv'
  BY <1>0, <1>9, <1>10 DEF LiveInv, DoneInv, OkInv
<1> QED BY <1>0, <1>3, <1>4, <1>5, <1>7, <1>8, <1>11 DEF QueueInv, LiveInv

LEMMA InterruptStep ==
  ASSUME QueueInv, NEW t \in Threads, Interrupt(t)
  PROVE  QueueInv'
<1>0. /\ QueueTypeOK /\ Alive /\ LiveInv /\ MutexInv /\ pc[t] \in {"wait", "woken"}
      /\ interrupts' = interrupts + 1 /\ interrupts \in Nat /\ interrupts' \in 0..MaxInterrupts
      /\ UNCHANGED <<queue, nIdle, nTotal, fAllOk, nTodo, vChecks, nNow, fOk, added, result,
                     ControlMutex>>
  BY CheckQueueAssumption DEF QueueInv, Alive, Interrupt, shared, locals
<1>1. pc \in [Threads -> Places] /\ nNow \in [Threads -> Nat] /\ nNow[t] = 0
  BY <1>0, QueueTypes DEF LiveInv, BatchInv
<1>2. ChecksBelongToControl' /\ nTodo' <= added'.n
  BY <1>0 DEF QueueInv, ChecksBelongToControl
<1>3. ASSUME NEW place \in {"dead", "lock"}, pc' = [pc EXCEPT ![t] = place],
             destructing' \in BOOLEAN, place = "dead" <=> t \in Workers
      PROVE  QueueInv'
  <2>1. pc'[t] = place /\ \A s \in Threads : s # t => pc'[s] = pc[s]
    BY <1>1, <1>3
  <2>2. QueueTypeOK'
    <3>1. pc' \in [Threads -> Places]
      BY <1>1, <1>3 DEF Places, InLoop
    <3> QED BY <1>0, <1>3, <3>1 DEF QueueTypeOK, Places
  <2>3. MutexInv'
    <3>1. \A s \in Workers : pc'[s] \in InLoop \cup {"dead"}
      BY <1>0, <2>1 DEF MutexInv, Threads, InLoop
    <3>2. \A m \in Masters : pc'[m] # "dead" /\ (pc'[m] # "outside" <=> ControlMutex' = m)
      BY <1>0, <1>3, <2>1, CheckQueueAssumption DEF MutexInv, Threads
    <3> QED BY <3>1, <3>2 DEF MutexInv
  <2>4. BatchInv'
    BY <1>0, <1>1, <2>1 DEF LiveInv, BatchInv
  <2>5. Idle' = Idle \ {t} /\ Counted' = Counted \ {t} /\ t \in Idle /\ t \in Counted
    BY <1>0, <1>1, <2>1 DEF Idle, Counted
  <2>6. CountInv'
    <3>1. /\ nIdle - 1 = Cardinality(Idle \ {t}) + interrupts
          /\ nTotal = Cardinality(Counted \ {t}) + interrupts + 1
      BY <1>0, <2>5, Without DEF LiveInv
    <3>2. /\ Cardinality(Idle \ {t}) \in Nat /\ Cardinality(Counted \ {t}) \in Nat
          /\ nIdle \in Nat
      <4>1. IsFiniteSet(Threads) /\ (Idle \ {t}) \in SUBSET Threads
            /\ (Counted \ {t}) \in SUBSET Threads
        BY <1>0, QueueTypes DEF Idle, Counted
      <4> QED BY <1>0, <4>1, FS_Subset, FS_CardinalityType, QueueTypes
    <3>3. /\ nIdle' = Cardinality(Idle') + interrupts'
          /\ nTotal' = Cardinality(Counted') + interrupts'
      BY <1>0, <2>5, <3>1, <3>2
    <3> QED BY <3>3 DEF CountInv
  <2>7. \A m \in Masters : pc'[m] = "done" <=> pc[m] = "done"
    BY <1>0, <2>1 DEF Threads
  <2>8. TodoInv' /\ FreeInv' /\ DoneInv' /\ OkInv'
    BY <1>0, <2>7 DEF LiveInv, TodoInv, FreeInv, DoneInv, OkInv, Good
  <2> QED BY <1>0, <1>2, <2>2, <2>3, <2>4, <2>6, <2>8 DEF QueueInv, LiveInv
<1>4. ASSUME pc' = [s \in Threads |-> "dead"], destructing' \in BOOLEAN
      PROVE  QueueInv'
  <2>1. ~Alive'
    BY <1>4 DEF Alive
  <2>2. QueueTypeOK'
    BY <1>0, <1>4 DEF QueueTypeOK
  <2>3. MutexInv'
    BY <1>4, <2>1 DEF MutexInv, Threads
  <2> QED BY <1>0, <1>2, <2>1, <2>2, <2>3 DEF QueueInv
<1>5. \/ t \in Workers /\ pc' = [pc EXCEPT ![t] = "dead"] /\ UNCHANGED destructing
      \/ t \notin Workers /\ pc' = [pc EXCEPT ![t] = "lock"] /\ destructing' = TRUE
      \/ pc' = [s \in Threads |-> "dead"] /\ UNCHANGED destructing
  BY DEF Interrupt
<1>6. UNCHANGED destructing => destructing' \in BOOLEAN
  BY <1>0 DEF QueueTypeOK
<1>7. CASE t \in Workers /\ pc' = [pc EXCEPT ![t] = "dead"] /\ UNCHANGED destructing
  BY <1>3, <1>6, <1>7
<1>8. CASE t \notin Workers /\ pc' = [pc EXCEPT ![t] = "lock"] /\ destructing' = TRUE
  BY <1>3, <1>8
<1>9. CASE pc' = [s \in Threads |-> "dead"] /\ UNCHANGED destructing
  BY <1>4, <1>6, <1>9
<1> QED BY <1>5, <1>7, <1>8, <1>9

(* With the control free nothing is queued, taken or failed. *)
LEMMA Drained ==
  ASSUME QueueTypeOK, LiveInv, nTodo = 0
  PROVE  /\ queue = <<>>
         /\ \A s \in Threads : nNow[s] = 0 /\ vChecks[s] = <<>> /\ fOk[s]
<1>1. /\ nNow \in [Threads -> Nat] /\ IsFiniteSet(Threads)
      /\ queue \in Seq(Check) /\ Len(queue) \in Nat
  BY QueueTypes
<1>2. Total(nNow, Threads) \in Nat /\ \A s \in Threads : nNow[s] <= Total(nNow, Threads)
  BY <1>1, TotalBounds
<1>3. nTodo = Len(queue) + Total(nNow, Threads)
  BY DEF LiveInv, TodoInv
<1>4. Len(queue) = 0 /\ Total(nNow, Threads) = 0
  BY <1>1, <1>2, <1>3
<1>5. queue = <<>>
  BY <1>1, <1>4, EmptySeq
<1>6. \A s \in Threads : nNow[s] = 0
  BY <1>1, <1>2, <1>4
<1> QED BY <1>5, <1>6 DEF LiveInv, BatchInv

LEMMA ControlStep ==
  ASSUME QueueInv, NEW m \in Masters, Control(m)
  PROVE  QueueInv'
<1>0. /\ QueueTypeOK /\ Alive /\ LiveInv /\ MutexInv /\ pc[m] = "outside" /\ ControlMutex = Nobody
      /\ ControlMutex' = m /\ pc' = [pc EXCEPT ![m] = "control"] /\ m \in Threads
      /\ UNCHANGED <<queue, nIdle, nTotal, fAllOk, nTodo, vChecks, nNow, fOk, added, result,
                     interrupts, destructing>>
  BY DEF QueueInv, Alive, Control, shared, locals, Threads
<1>1. pc \in [Threads -> Places] /\ nNow \in [Threads -> Nat] /\ nNow[m] = 0
  BY <1>0, QueueTypes DEF LiveInv, BatchInv
<1>2. pc'[m] = "control" /\ \A s \in Threads : s # m => pc'[s] = pc[s]
  BY <1>0, <1>1
<1>3. QueueTypeOK'
  <2>1. pc' \in [Threads -> Places]
    BY <1>0, <1>1 DEF Places
  <2> QED BY <1>0, <2>1 DEF QueueTypeOK, Places
<1>4. MutexInv' /\ Alive'
  <2>1. Alive'
    BY <1>0, <1>2 DEF Alive
  <2>2. \A s \in Workers : pc'[s] \in InLoop \cup {"dead"}
    BY <1>0, <1>2, CheckQueueAssumption DEF MutexInv, Threads
  <2>3. \A s \in Masters : pc[s] # "dead" /\ s # Nobody /\ pc[s] = "outside"
    BY <1>0, CheckQueueAssumption DEF MutexInv, Threads
  <2>4. \A s \in Masters : pc'[s] # "dead" /\ (pc'[s] # "outside" <=> ControlMutex' = s)
    BY <1>0, <1>2, <2>3 DEF Threads
  <2> QED BY <2>1, <2>2, <2>4 DEF MutexInv
<1>5. Idle' = Idle /\ Counted' = Counted
  BY <1>0, <1>1, <1>2 DEF Idle, Counted
<1>6. BatchInv' /\ CountInv' /\ TodoInv'
  BY <1>0, <1>1, <1>2, <1>5 DEF LiveInv, BatchInv, CountInv, TodoInv
<1>7. nTodo = 0 /\ queue = <<>> /\ \A s \in Threads : vChecks[s] = <<>>
  BY <1>0, Drained DEF QueueInv, ChecksBelongToControl
<1>8. ChecksBelongToControl' /\ FreeInv'
  <2>1. ControlMutex' # Nobody
    BY <1>0, CheckQueueAssumption DEF Threads
  <2>2. DOMAIN queue' = {} /\ \A s \in Threads : DOMAIN (vChecks'[s]) = {}
    BY <1>0, <1>7
  <2> QED BY <2>1, <2>2 DEF ChecksBelongToControl, FreeInv
<1>9. \A s \in Masters : pc'[s] = "done" <=> pc[s] = "done"
  BY <1>0, <1>2 DEF Threads
<1>10. DoneInv' /\ OkInv'
  BY <1>0, <1>9 DEF LiveInv, DoneInv, OkInv, Good
<1> QED BY <1>0, <1>3, <1>4, <1>6, <1>8, <1>10 DEF QueueInv, LiveInv

LEMMA ReturnStep ==
  ASSUME QueueInv, NEW m \in Masters, pc[m] = "done", Return(m)
  PROVE  QueueInv'
<1>0. /\ QueueTypeOK /\ Alive /\ LiveInv /\ MutexInv /\ m \in Threads
      /\ ControlMutex' = Nobody /\ pc' = [pc EXCEPT ![m] = "outside"]
      /\ result' = TRUE /\ added' = [n |-> 0, ok |-> TRUE] /\ destructing' = FALSE
      /\ UNCHANGED <<queue, nIdle, nTotal, fAllOk, nTodo, vChecks, nNow, fOk, interrupts>>
  BY DEF QueueInv, Alive, Return, shared, locals, Threads
<1>1. pc \in [Threads -> Places] /\ nNow \in [Threads -> Nat] /\ nNow[m] = 0
  BY <1>0, QueueTypes DEF LiveInv, BatchInv
<1>2. pc'[m] = "outside" /\ \A s \in Threads : s # m => pc'[s] = pc[s]
  BY <1>0, <1>1
<1>3. QueueTypeOK'
  <2>1. pc' \in [Threads -> Places]
    BY <1>0, <1>1 DEF Places
  <2>2. added' \in [n : 0..MaxChecks, ok : BOOLEAN]
    BY <1>0, CheckQueueAssumption
  <2> QED BY <1>0, <2>1, <2>2 DEF QueueTypeOK, Places
<1>4. MutexInv' /\ Alive' /\ \A s \in Masters : pc'[s] # "done"
  <2>1. Alive'
    BY <1>0, <1>2 DEF Alive
  <2>2. \A s \in Workers : pc'[s] \in InLoop \cup {"dead"}
    BY <1>0, <1>2, CheckQueueAssumption DEF MutexInv, Threads
  <2>3. \A s \in Masters : pc[s] # "dead" /\ s # Nobody /\ (s # m => pc[s] = "outside")
    BY <1>0, CheckQueueAssumption DEF MutexInv, Threads
  <2>4. \A s \in Masters : pc'[s] = "outside"
    BY <1>0, <1>2, <2>3 DEF Threads
  <2> QED BY <1>0, <2>1, <2>2, <2>3, <2>4 DEF MutexInv
<1>5. Idle' = Idle /\ Counted' = Counted
  BY <1>0, <1>1, <1>2 DEF Idle, Counted
<1>6. BatchInv' /\ CountInv' /\ TodoInv'
  BY <1>0, <1>1, <1>2, <1>5 DEF LiveInv, BatchInv, CountInv, TodoInv
<1>7. nTodo = 0 /\ fAllOk
  BY <1>0 DEF LiveInv, DoneInv
<1>8. queue = <<>> /\ \A s \in Threads : vChecks[s] = <<>> /\ fOk[s]
  BY <1>0, <1>7, Drained
<1>9. DOMAIN queue' = {} /\ (\A s \in Threads : DOMAIN (vChecks'[s]) = {} /\ fOk'[s]) /\ fAllOk'
  BY <1>0, <1>7, <1>8
<1>10. ChecksBelongToControl' /\ FreeInv'
  BY <1>0, <1>7, <1>9 DEF ChecksBelongToControl, FreeInv
<1>11. OkInv' /\ DoneInv'
  BY <1>0, <1>4, <1>9 DEF OkInv, DoneInv, Good
<1>12. nTodo' <= added'.n
  BY <1>0, <1>7
<1> QED BY <1>0, <1>3, <1>4, <1>6, <1>10, <1>11, <1>12 DEF QueueInv, LiveInv

LEMMA AddStep ==
  ASSUME QueueInv, NEW m \in Masters, NEW oks \in Outcomes, Add(m, oks)
  PROVE  QueueInv'
<1> DEFINE new == [i \in DOMAIN oks |-> [owner |-> m, ok |-> oks[i]]]
<1>0. /\ QueueTypeOK /\ Alive /\ LiveInv /\ MutexInv /\ pc[m] = "control" /\ m \in Threads
      /\ added.n + Len(oks) <= MaxChecks
      /\ queue' = queue \o new /\ nTodo' = nTodo + Len(oks)
      /\ pc' \in notify_one(Workers) \/ pc' = notify_all(Workers)
      /\ added' = [n |-> added.n + Len(oks), ok |-> added.ok /\ \A i \in DOMAIN oks : oks[i]]
      /\ UNCHANGED <<nIdle, nTotal, fAllOk, ControlMutex, vChecks, nNow, fOk, destructing,
                     result, interrupts>>
  BY DEF QueueInv, Alive, Add, shared, locals, Threads
<1>1. /\ pc \in [Threads -> Places] /\ nNow \in [Threads -> Nat] /\ IsFiniteSet(Threads)
      /\ queue \in Seq(Check) /\ Len(queue) \in Nat /\ nTodo \in Nat
      /\ added.n \in Nat /\ added.ok \in BOOLEAN
  BY <1>0, QueueTypes, CheckQueueAssumption, SMTT(60) DEF QueueTypeOK
<1>2. PICK k \in 1..MaxInputs : oks \in [1..k -> BOOLEAN]
  BY DEF Outcomes
<1>3. k \in Nat /\ k >= 1 /\ DOMAIN oks = 1..k /\ Len(oks) = k
  BY <1>2, CheckQueueAssumption
<1>4. /\ new \in Seq(Check) /\ Len(new) = k
      /\ \A i \in 1..k : new[i].ok = oks[i] /\ new[i].owner = m
  <2>1. new \in [1..k -> Check]
    BY <1>2, <1>3 DEF Check
  <2>2. new \in Seq(Check)
    BY <1>3, <2>1
  <2> QED BY <1>3, <2>1, <2>2, LenProperties
<1> HIDE DEF new
<1>5. /\ queue' \in Seq(Check) /\ Len(queue') = Len(queue) + k
      /\ \A i \in 1..(Len(queue) + k) :
           queue'[i] = IF i <= Len(queue) THEN queue[i] ELSE new[i - Len(queue)]
  BY <1>0, <1>1, <1>4, ConcatProperties
<1>6. /\ DOMAIN queue = 1..Len(queue) /\ DOMAIN queue' = 1..(Len(queue) + k)
      /\ \A i \in 1..Len(queue) : i \in DOMAIN queue' /\ queue'[i] = queue[i]
      /\ \A i \in 1..k : i + Len(queue) \in DOMAIN queue' /\ queue'[i + Len(queue)] = new[i]
      /\ \A i \in DOMAIN queue' : i \in 1..Len(queue) \/ i - Len(queue) \in 1..k
      /\ \A i \in DOMAIN queue' : i - Len(queue) \in 1..k => queue'[i] = new[i - Len(queue)]
  <2>1. DOMAIN queue = 1..Len(queue) /\ DOMAIN queue' = 1..(Len(queue) + k)
    BY <1>1, <1>5
  <2>2. \A i \in 1..Len(queue) : i \in DOMAIN queue' /\ queue'[i] = queue[i]
    BY <1>1, <1>3, <1>5, <2>1
  <2>3. ASSUME NEW i \in 1..k
        PROVE  i + Len(queue) \in DOMAIN queue' /\ queue'[i + Len(queue)] = new[i]
    <3>1. i + Len(queue) \in 1..(Len(queue) + k) /\ ~(i + Len(queue) <= Len(queue))
          /\ (i + Len(queue)) - Len(queue) = i
      BY <1>1, <1>3
    <3> QED BY <1>5, <2>1, <3>1
  <2>4. \A i \in DOMAIN queue' : i \in 1..Len(queue) \/ i - Len(queue) \in 1..k
    BY <1>1, <1>3, <2>1
  <2>5. \A i \in DOMAIN queue' : i - Len(queue) \in 1..k => queue'[i] = new[i - Len(queue)]
    BY <1>1, <1>3, <1>5, <2>1
  <2> QED BY <2>1, <2>2, <2>3, <2>4, <2>5
<1>7. pc' \in [Threads -> Places] /\ \A s \in Threads :
        pc'[s] = pc[s] \/ (s \in Workers /\ pc[s] = "wait" /\ pc'[s] = "woken")
  <2>1. CASE pc' = notify_all(Workers)
    BY <1>1, <2>1 DEF notify_all, Waiting, Places, InLoop
  <2>2. CASE pc' = pc
    BY <1>1, <2>2
  <2>3. ASSUME NEW s \in Waiting(Workers), pc' = [pc EXCEPT ![s] = "woken"]
        PROVE  pc' \in [Threads -> Places] /\ \A r \in Threads :
                 pc'[r] = pc[r] \/ (r \in Workers /\ pc[r] = "wait" /\ pc'[r] = "woken")
    <3>1. s \in Threads /\ s \in Workers /\ pc[s] = "wait"
      BY DEF Waiting, Threads
    <3> QED BY <1>1, <2>3, <3>1 DEF Places, InLoop
  <2>4. pc' = notify_all(Workers) \/ pc' = pc
        \/ \E s \in Waiting(Workers) : pc' = [pc EXCEPT ![s] = "woken"]
    BY <1>0 DEF notify_one
  <2> QED BY <2>1, <2>2, <2>3, <2>4
<1>8. MutexInv' /\ Alive'
  <2>1. Alive'
    BY <1>0, <1>7 DEF Alive
  <2>2. \A s \in Workers : pc'[s] \in InLoop \cup {"dead"}
    BY <1>0, <1>7 DEF MutexInv, Threads, InLoop
  <2>3. \A s \in Masters : pc'[s] # "dead" /\ (pc'[s] # "outside" <=> ControlMutex' = s)
    BY <1>0, <1>7 DEF MutexInv, Threads
  <2> QED BY <2>1, <2>2, <2>3 DEF MutexInv
<1>9. Idle' = Idle /\ Counted' = Counted
  BY <1>0, <1>7 DEF Idle, Counted
<1>10. BatchInv' /\ CountInv'
  BY <1>0, <1>7, <1>9 DEF LiveInv, BatchInv, CountInv
<1>11. TodoInv'
  <2>1. Total(nNow, Threads) \in Nat
    BY <1>1, TotalBounds
  <2>2. nTodo = Len(queue) + Total(nNow, Threads)
    BY <1>0 DEF LiveInv, TodoInv
  <2>3. nTodo' = Len(queue') + Total(nNow, Threads)
    BY <1>0, <1>1, <1>3, <1>5, <2>1, <2>2
  <2> QED BY <1>0, <2>3 DEF TodoInv
<1>12. QueueTypeOK' /\ nTodo' <= added'.n
  <2>1. nTodo' <= added.n + k /\ nTodo' \in Nat /\ added.n + k <= MaxChecks
    BY <1>0, <1>1, <1>3 DEF QueueInv
  <2>2. Len(queue') <= nTodo'
    <3>1. Total(nNow, Threads) \in Nat
      BY <1>1, TotalBounds
    <3>2. nTodo = Len(queue) + Total(nNow, Threads)
      BY <1>0 DEF LiveInv, TodoInv
    <3> QED BY <1>0, <1>1, <1>3, <1>5, <3>1, <3>2
  <2>3. added' \in [n : 0..MaxChecks, ok : BOOLEAN] /\ added'.n = added.n + k
    BY <1>0, <1>1, <1>3, <2>1, CheckQueueAssumption
  <2>4. nTodo' \in 0..MaxChecks /\ Len(queue') <= MaxChecks
    BY <1>1, <1>3, <1>5, <2>1, <2>2, CheckQueueAssumption
  <2> QED BY <1>0, <1>5, <1>7, <2>1, <2>3, <2>4 DEF QueueTypeOK, Places
<1>13. ControlMutex = m /\ m # Nobody /\ \A s \in Masters : pc[s] # "done" /\ pc'[s] # "done"
  BY <1>0, <1>7, CheckQueueAssumption DEF MutexInv, Threads
<1>14. ChecksBelongToControl' /\ FreeInv'
  <2>1. \A i \in DOMAIN queue' : queue'[i].owner = m
    <3> SUFFICES ASSUME NEW i \in DOMAIN queue' PROVE queue'[i].owner = m
      OBVIOUS
    <3>1. CASE i \in 1..Len(queue)
      BY <1>6, <1>13, <3>1 DEF QueueInv, ChecksBelongToControl
    <3>2. CASE i - Len(queue) \in 1..k
      BY <1>4, <1>6, <3>2
    <3> QED BY <1>6, <3>1, <3>2
  <2> QED BY <1>0, <1>13, <2>1 DEF QueueInv, ChecksBelongToControl, FreeInv
<1>15. (\A i \in DOMAIN queue' : queue'[i].ok) <=>
         (\A i \in DOMAIN queue : queue[i].ok) /\ (\A i \in DOMAIN oks : oks[i])
  <2>1. ASSUME \A i \in DOMAIN queue' : queue'[i].ok
        PROVE  (\A i \in DOMAIN queue : queue[i].ok) /\ (\A i \in DOMAIN oks : oks[i])
    <3>1. ASSUME NEW i \in DOMAIN queue PROVE queue[i].ok
      BY <1>6, <2>1, <3>1
    <3>2. ASSUME NEW i \in DOMAIN oks PROVE oks[i]
      BY <1>3, <1>4, <1>6, <2>1, <3>2
    <3> QED BY <3>1, <3>2
  <2>2. ASSUME \A i \in DOMAIN queue : queue[i].ok, \A i \in DOMAIN oks : oks[i],
               NEW i \in DOMAIN queue'
        PROVE  queue'[i].ok
    <3>1. CASE i \in 1..Len(queue)
      BY <1>6, <2>2, <3>1
    <3>2. CASE i - Len(queue) \in 1..k
      BY <1>3, <1>4, <1>6, <2>2, <3>2
    <3> QED BY <1>6, <3>1, <3>2
  <2> QED BY <2>1, <2>2
<1>16. Good' <=> Good /\ \A i \in DOMAIN oks : oks[i]
  BY <1>0, <1>15 DEF Good
<1>17. OkInv' /\ DoneInv'
  <2>1. added'.ok <=> added.ok /\ \A i \in DOMAIN oks : oks[i]
    BY <1>0
  <2>2. added.ok <=> Good
    BY <1>0, <1>13 DEF LiveInv, OkInv
  <2> QED BY <1>13, <1>16, <2>1, <2>2 DEF OkInv, DoneInv
<1> QED BY <1>0, <1>8, <1>10, <1>11, <1>12, <1>14, <1>17 DEF QueueInv, LiveInv

(* The invariant holds in every reachable state. *)
LEMMA QueueInvariant == QueueSpec => []QueueInv
<1>1. QueueInit => QueueInv
  <2> SUFFICES ASSUME QueueInit PROVE QueueInv
    OBVIOUS
  <2> USE CheckQueueAssumption DEF QueueInit
  <2>1. QueueTypeOK
    <3>1. Cardinality(Threads) \in Nat
      BY FS_CardinalityType
    <3>2. queue \in Seq(Check) /\ Len(queue) = 0 /\ <<>> \in Seq(Check)
      BY EmptySeq
    <3>3. vChecks \in [Threads -> Seq(Check)]
      BY <3>2
    <3>4. pc \in [Threads -> InLoop \cup {"outside", "control", "done", "dead"}]
      BY DEF InLoop
    <3>5. added \in [n : 0..MaxChecks, ok : BOOLEAN]
      OBVIOUS
    <3>6. nNow \in [Threads -> 0..nBatchSize] /\ fOk \in [Threads -> BOOLEAN]
      OBVIOUS
    <3>7. /\ nTodo \in 0..MaxChecks /\ Len(queue) <= MaxChecks
          /\ nIdle \in 0..(Cardinality(Threads) + MaxInterrupts)
          /\ nTotal \in 0..(Cardinality(Threads) + MaxInterrupts)
      BY <3>1, <3>2
    <3>8. /\ fAllOk \in BOOLEAN /\ destructing \in BOOLEAN /\ result \in BOOLEAN
          /\ ControlMutex \in Masters \cup {Nobody}
      OBVIOUS
    <3> HIDE DEF QueueInit
    <3> QED BY <3>2, <3>3, <3>4, <3>5, <3>6, <3>7, <3>8 DEF QueueTypeOK
  <2>2. \A t \in Threads : pc[t] \in {"lock", "outside"} /\ nNow[t] = 0 /\ vChecks[t] = <<>> /\ fOk[t]
    OBVIOUS
  <2>3. MutexInv
    BY DEF MutexInv, Threads, InLoop
  <2>4. DOMAIN queue = {} /\ \A t \in Threads : DOMAIN vChecks[t] = {}
    OBVIOUS
  <2>5. ChecksBelongToControl
    BY <2>4 DEF ChecksBelongToControl
  <2>6. CountInv
    <3>1. Idle = {} /\ Counted = {}
      BY <2>2 DEF Idle, Counted
    <3> QED BY <3>1, FS_EmptySet DEF CountInv
  <2>7. TodoInv
    <3>1. nNow \in [Threads -> Nat] /\ IsFiniteSet(Threads)
      OBVIOUS
    <3>2. Total(nNow, Threads) = 0
      BY <2>2, <3>1, TotalBounds
    <3> QED BY <3>2 DEF TodoInv
  <2>8. BatchInv /\ DoneInv /\ FreeInv
    BY <2>2 DEF BatchInv, DoneInv, FreeInv, Threads
  <2>9. OkInv
    BY <2>2, <2>4 DEF OkInv, Good
  <2> QED BY <2>1, <2>3, <2>5, <2>6, <2>7, <2>8, <2>9 DEF QueueInv, LiveInv
<1>2. QueueInv /\ [QueueNext]_queueVars => QueueInv'
  <2> SUFFICES ASSUME QueueInv, [QueueNext]_queueVars PROVE QueueInv'
    OBVIOUS
  <2>1. ASSUME UNCHANGED queueVars PROVE QueueInv'
    <3>1. /\ UNCHANGED <<queue, nIdle, nTotal, fAllOk, nTodo, ControlMutex, pc, vChecks, nNow,
                         fOk, destructing, result, added, interrupts>>
      BY <2>1 DEF queueVars, shared, locals
    <3> QED BY <3>1 DEF QueueInv, QueueTypeOK, MutexInv, ChecksBelongToControl, Alive, LiveInv, BatchInv,
              CountInv, Idle, Counted, TodoInv, DoneInv, OkInv, Good, FreeInv
  <2>2. ASSUME NEW t \in Threads, Spurious(t) PROVE QueueInv'
    <3>1. Alive /\ QueueTypeOK /\ pc \in [Threads -> Places]
      BY <2>2, QueueTypes DEF QueueInv, Spurious, Alive
    <3>2. pc[t] = "wait" /\ pc' = [pc EXCEPT ![t] = "woken"] /\ destructing' \in BOOLEAN
          /\ UNCHANGED <<shared, locals, result, added, interrupts, ControlMutex>>
      BY <2>2, <3>1 DEF Spurious, QueueTypeOK
    <3>3. pc' \in [Threads -> Places]
      BY <3>1, <3>2 DEF Places, InLoop
    <3>4. pc'[t] = "woken" /\ \A s \in Threads : s # t => pc'[s] = pc[s]
      BY <3>1, <3>2
    <3> QED BY <3>1, <3>2, <3>3, <3>4, PlaceStep
  <2>3. ASSUME NEW m \in Masters, pc[m] = "control",
               pc' = [pc EXCEPT ![m] = "lock"], destructing' \in BOOLEAN,
               UNCHANGED <<shared, locals, result, added, interrupts, ControlMutex>>
        PROVE  QueueInv'
    <3>1. Alive /\ QueueTypeOK /\ pc \in [Threads -> Places] /\ m \in Threads
      BY <2>3, QueueTypes DEF QueueInv, Alive, Threads
    <3>2. pc' \in [Threads -> Places]
      BY <2>3, <3>1 DEF Places, InLoop
    <3>3. pc'[m] = "lock" /\ \A s \in Threads : s # m => pc'[s] = pc[s]
      BY <2>3, <3>1
    <3> QED BY <2>3, <3>1, <3>2, <3>3, PlaceStep
  <2>4. ASSUME NEW m \in Masters, Wait(m) PROVE QueueInv'
    BY <2>3, <2>4 DEF Wait, QueueInv, QueueTypeOK
  <2>5. ASSUME NEW m \in Masters, Return(m) PROVE QueueInv'
    <3>1. CASE pc[m] = "done"
      BY <2>5, <3>1, ReturnStep
    <3>2. CASE pc[m] # "done"
      BY <2>3, <2>5, <3>2 DEF Return
    <3> QED BY <3>1, <3>2
  <2>6. CASE Terminated
    BY <2>1, <2>6 DEF Terminated
  <2> QED BY <2>1, <2>2, <2>4, <2>5, <2>6, LoopStep, ResumeStep, ExecuteStep, InterruptStep,
             ControlStep, AddStep DEF QueueNext
<1> QED BY <1>1, <1>2, PTL DEF QueueSpec

(* nTodo is what is queued plus what threads have taken and not yet        *)
(* accounted for, for any number of threads (CCheckQueue::Loop and Add).   *)
THEOREM TodoCounted == QueueSpec => []TodoCounts
<1>1. QueueInv => TodoCounts
  <2> SUFFICES ASSUME QueueInv, Alive PROVE nTodo = Len(queue) + Total(Weight, Threads)
    BY TodoCountsTotal DEF Alive
  <2>1. QueueTypeOK /\ BatchInv /\ TodoInv
    BY DEF QueueInv, LiveInv
  <2>2. Weight = nNow
    <3>1. nNow \in [Threads -> Nat]
      BY <2>1, QueueTypes
    <3>2. \A t \in Threads : Weight[t] = nNow[t]
      BY <2>1 DEF Weight, BatchInv
    <3>3. nNow = [t \in Threads |-> nNow[t]]
      BY <3>1
    <3> QED BY <3>2, <3>3 DEF Weight
  <2> QED BY <2>1, <2>2 DEF TodoInv
<1> QED BY <1>1, QueueInvariant, PTL

(* Wait() returns whether all checks of the block succeed, and nothing of  *)
(* them is queued or running when it does, whoever ran them, however they  *)
(* were batched and whichever threads were interrupted                     *)
(* (CCheckQueueControl::Wait).                                             *)
THEOREM WaitExact == QueueSpec => []ResultExact
<1>1. QueueInv => ResultExact
  <2> SUFFICES ASSUME QueueInv, NEW m \in Masters, pc[m] = "done"
               PROVE  /\ result = added.ok
                      /\ queue = <<>> /\ \A t \in Threads : vChecks[t] = <<>>
    BY DEF ResultExact
  <2>1. QueueTypeOK /\ LiveInv
    BY DEF QueueInv, Alive, Threads
  <2>2. nTodo = 0 /\ (result <=> added.ok)
    BY <2>1 DEF LiveInv, DoneInv
  <2>3. result \in BOOLEAN /\ added.ok \in BOOLEAN
    BY <2>1 DEF QueueTypeOK
  <2>4. result = added.ok
    BY <2>2, <2>3
  <2> QED BY <2>1, <2>2, <2>4, Drained
<1> QED BY <1>1, QueueInvariant, PTL

(* Whatever is queued or run belongs to the master that has the control,   *)
(* and nothing of a block, its failure included, is left for the next one: *)
(* the assertion behind "passed queue is supposed to be unused".           *)
THEOREM QueueUnusedBetweenBlocks == QueueSpec => []ChecksBelongToControl
<1>1. QueueInv => ChecksBelongToControl
  BY DEF QueueInv
<1> QED BY <1>1, QueueInvariant, PTL
===============================================================================
