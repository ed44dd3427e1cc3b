---------------------------- MODULE BlockLogProofs ----------------------------
(***************************************************************************)
(* Proofs about the block log, for any number of blocks, crashes, power    *)
(* losses and failed writes: that in an open log each block is found       *)
(* through the index (IndexExact), that a block whose append has returned  *)
(* stays (AcknowledgedKept), and that a log which was not stopped in the   *)
(* middle of a write can be opened again (OpensAfterStop).                 *)
(***************************************************************************)
EXTENDS BlockLog, SequenceTheorems, WellFoundedInduction, TLAPS

(* Block n is at cell i, with its position after it. *)
StoredAt(f, n, i) == f[i] = Block(n) /\ f[i + 1] = Pos(i)

(* What can be found in a cell of a log: a position follows its block, or  *)
(* what was passed on of it.                                               *)
BlockCell(f, i) == f[i].t = "block" /\ f[i].n > 0
PosCell(f, i) == i > 3 /\ f[i] = Pos(i - 1) /\ (f[i - 1].t = "block" \/ f[i - 1] = Torn)

(* A log that was written by this class, whatever was lost at its end and  *)
(* whatever was written in part: blocks are followed by their positions,   *)
(* and a block that follows another one is the next.                       *)
Shape(f) ==
  /\ f \in Seq(Cells)
  /\ 1 \in DOMAIN f => f[1] \in {Version(0), Version(1), Torn}
  /\ 2 \in DOMAIN f => f[2] \in {GenesisState, Torn}
  /\ \A i \in 3..Len(f) : f[i] = Torn \/ BlockCell(f, i) \/ PosCell(f, i)
  /\ \A i \in 3..(Len(f) - 1) : f[i].t = "block" => f[i + 1] \in {Pos(i), Torn}
  /\ 3 \in DOMAIN f /\ f[3].t = "block" => f[3].n = 1
  /\ \A i \in 3..(Len(f) - 2) :
       f[i].t = "block" /\ f[i + 1] = Pos(i) /\ f[i + 2].t = "block" => f[i + 2].n = f[i].n + 1

(* What the index says about a log of which the end may be lost: its       *)
(* entries are increasing, but for those that are not positions; those     *)
(* that are in the log are positions of their blocks, or of what is there  *)
(* of them; and up to the first torn block it has all of them.             *)
IndexShape(f, x) ==
  /\ x \in Seq(Nat)
  /\ \A m, n \in DOMAIN x : m < n /\ x[n] # 0 => x[m] < x[n]
  /\ \A n \in DOMAIN x : x[n] # 0 /\ x[n] < Len(f) => f[x[n]] \in {Block(n), Torn}
  /\ \A n \in DOMAIN x :
       x[n] # 0 /\ x[n] <= Len(f) /\ (\A i \in 1..(x[n] - 1) : f[i] # Torn) =>
         \A m \in 1..n : x[m] = 2 * m + 1

(* The last block of an open log, or what was taken for it, is its head;   *)
(* only what could not be written follows.                                 *)
HeadAt(f, h, i) ==
  f[i] \in {Block(h), Torn} /\ f[i + 1] = Pos(i) /\ \A j \in (i + 2)..Len(f) : f[j] = Torn

OpenInv ==
  \/ log = <<>> /\ index = <<>> /\ head = 0 /\ pc = "idle"
  \/ /\ log # <<>> /\ head > 0 /\ log[1] \in {Version(0), Version(1)}
     /\ pc = "idle" => log[1] = Version(1)
     /\ pc # "idle" => StoredAt(log, head, Len(log) - 1)
     /\ \E i \in 3..(Len(log) - 1) : HeadAt(log, head, i)
     /\ \A m \in DOMAIN index : index[m] < Len(log)
     /\ ~TornInside(log) => Len(index) = head /\ \A m \in 1..head : index[m] = 2 * m + 1

(* The log can be opened. *)
Openable(f) ==
  \/ f = <<>>
  \/ f[1] = Version(1) /\ 0 \notin read_head(f) /\ ~TornInside(f)

AckedInv == \A n \in acked : \E i \in 3..(lsync - 1) : StoredAt(log, n, i)

(* What the block stream has not passed on is the last block. *)
SyncInv ==
  /\ (mode = "open" => pc # "flush" /\ stream = "good") => lsync = Len(log)
  /\ mode = "open" /\ pc = "flush" /\ log[1] = Version(1) => lsync = Len(log) - 2
  /\ stream # "good" => lsync >= Len(log) - 2

TypeInv ==
  /\ lsync \in 0..Len(log) /\ isync \in Nat
  /\ mode \in {"down", "open", "failed"} /\ head \in Nat /\ acked \subseteq Nat
  /\ pc \in {"idle", "flush", "flush_index", "version"}
  /\ stream \in {"good", "bad", "closed"}

(* The inductive invariant. *)
IInv ==
  /\ TypeInv
  /\ Shape(log) /\ IndexShape(log, index) /\ SyncInv
  /\ mode # "open" => pc = "idle" /\ stream = "good"
  /\ stream # "good" => pc = "idle" /\ log # <<>>
  /\ mode = "open" /\ stream # "closed" => OpenInv
  /\ mode = "down" /\ ~excuse => Openable(log) /\ (log = <<>> \/ index # <<0>>)
  /\ mode = "failed" => excuse
  /\ AckedInv


-------------------------------------------------------------------------------
(* A set of naturals has a least element. *)
LEMMA Least ==
  ASSUME NEW S \in SUBSET Nat, S # {}
  PROVE  \E m \in S : \A n \in S : m <= n
<1>1. PICK m \in S : \A n \in S : ~(<<n, m>> \in OpToRel(<, Nat))
  BY NatLessThanWellFounded, WFMin
<1>2. ASSUME NEW n \in S PROVE m <= n
  <2>1. ~(n < m)
    BY <1>1 DEF OpToRel
  <2> QED
    BY <2>1
<1> QED
  BY <1>2

(* Cells. *)
LEMMA CellTypes ==
  /\ Torn \in Cells /\ GenesisState \in Cells /\ Version(0) \in Cells /\ Version(1) \in Cells
  /\ \A n \in Nat : Block(n) \in Cells /\ Pos(n) \in Cells
BY DEF Torn, GenesisState, Version, Block, Pos, Cells

LEMMA CellsDiffer ==
  /\ Torn.t = "torn" /\ GenesisState.t = "genesis" /\ Version(0).t = "version" /\ Version(1).t = "version"
  /\ \A n : Block(n).t = "block" /\ Block(n).n = n /\ Pos(n).t = "pos" /\ Pos(n).n = n
  /\ Version(0) # Version(1)
BY DEF Torn, GenesisState, Version, Block, Pos

LEMMA BlockIs ==
  ASSUME NEW c \in Cells, c.t = "block"
  PROVE  c = Block(c.n)
BY DEF Cells, Block

LEMMA ShapeTypes ==
  ASSUME NEW f, Shape(f)
  PROVE  /\ f \in Seq(Cells) /\ Len(f) \in Nat /\ DOMAIN f = 1..Len(f)
         /\ \A i \in 1..Len(f) : f[i] \in Cells /\ f[i].n \in Nat
<1>1. f \in Seq(Cells)
  BY DEF Shape
<1>2. Len(f) \in Nat /\ DOMAIN f = 1..Len(f) /\ \A i \in 1..Len(f) : f[i] \in Cells
  BY <1>1, LenProperties, ElementOfSeq
<1>3. \A c \in Cells : c.n \in Nat
  BY DEF Cells
<1> QED
  BY <1>1, <1>2, <1>3

(* How far the walk gets. *)
LEMMA WalkedFacts ==
  ASSUME NEW f \in Seq(Cells)
  PROVE  /\ Walked(f) \in 0..Len(f) /\ ~Whole(f, Walked(f) + 1)
         /\ \A m \in 1..Walked(f) : Whole(f, m)
<1> DEFINE S == {n \in Nat : ~Whole(f, n + 1)}
<1>1. Len(f) \in Nat
  BY LenProperties
<1>2. ~Whole(f, Len(f) + 1)
  BY <1>1 DEF Whole
<1>3. S \in SUBSET Nat /\ Len(f) \in S
  BY <1>1, <1>2
<1>4. PICK w \in S : \A n \in S : w <= n
  <2> HIDE DEF S
  <2> QED BY <1>3, Least
<1>5. w \in Nat /\ w <= Len(f) /\ ~Whole(f, w + 1)
  BY <1>3, <1>4
<1>6. ASSUME NEW m \in 1..w PROVE Whole(f, m)
  <2>1. m - 1 \in Nat /\ m - 1 < w /\ (m - 1) + 1 = m
    BY <1>5
  <2>2. m - 1 \notin S
    BY <1>4, <1>5, <2>1
  <2> QED
    BY <2>1, <2>2
<1>7. \E n \in 0..Len(f) : ~Whole(f, n + 1) /\ \A m \in 1..n : Whole(f, m)
  BY <1>1, <1>5, <1>6
<1> QED
  BY <1>7, Zenon DEF Walked

(* The walk finds the blocks in order. *)
LEMMA WholeBlocks ==
  ASSUME NEW f, Shape(f), NEW w \in Nat, \A m \in 1..w : Whole(f, m)
  PROVE  \A m \in 1..w : StoredAt(f, m, 2 * m + 1) /\ 2 * m + 2 <= Len(f)
<1> DEFINE S == {m \in 1..w : ~(StoredAt(f, m, 2 * m + 1) /\ 2 * m + 2 <= Len(f))}
<1>1. f \in Seq(Cells) /\ Len(f) \in Nat /\ DOMAIN f = 1..Len(f)
      /\ \A i \in 1..Len(f) : f[i] \in Cells /\ f[i].n \in Nat
  BY ShapeTypes
<1>2. ASSUME NEW m \in 1..w
      PROVE  /\ 2 * m + 2 <= Len(f) /\ f[2 * m + 1].t = "block" /\ f[2 * m + 2] = Pos(2 * m + 1)
             /\ 2 * m + 1 \in 3..Len(f)
             /\ f[2 * m + 1] = Block(f[2 * m + 1].n)
  <2>1. Whole(f, m) /\ (2 * m + 1) + 1 = 2 * m + 2
    OBVIOUS
  <2>2. 2 * m + 2 <= Len(f) /\ f[2 * m + 1].t = "block" /\ f[2 * m + 2] = Pos(2 * m + 1)
    BY <2>1 DEF Whole
  <2>3. 2 * m + 1 \in 3..Len(f) /\ 2 * m + 1 \in 1..Len(f)
    BY <1>1, <2>2
  <2> QED
    BY <1>1, <2>2, <2>3, BlockIs
<1>3. SUFFICES ASSUME S # {} PROVE FALSE
  OBVIOUS
<1>4. PICK m \in S : \A n \in S : m <= n
  <2>1. S \in SUBSET Nat
    OBVIOUS
  <2> HIDE DEF S
  <2> QED BY <1>3, <2>1, Least
<1>5. m \in 1..w /\ ~(StoredAt(f, m, 2 * m + 1) /\ 2 * m + 2 <= Len(f))
  BY <1>4
<1>6. f[2 * m + 1].n = m
  <2>1. CASE m = 1
    <3>0. 2 * m + 1 = 3
      BY <2>1
    <3>1. 3 \in DOMAIN f /\ f[3].t = "block" /\ 2 * m + 1 = 3
      <4>1. 2 * m + 1 \in 3..Len(f) /\ f[2 * m + 1].t = "block"
        BY <1>2, <1>5
      <4> QED
        BY <1>1, <3>0, <4>1
    <3>2. f[3].n = 1
      BY <3>1 DEF Shape
    <3> QED
      BY <2>1, <3>1, <3>2
  <2>2. CASE m # 1
    <3>1. m - 1 \in 1..w /\ ~(m <= m - 1)
      BY <1>5, <2>2
    <3>2. m - 1 \notin S
      BY <1>4, <3>1
    <3>3. StoredAt(f, m - 1, 2 * (m - 1) + 1)
      BY <3>1, <3>2
    <3>4. 2 * (m - 1) + 1 = 2 * m - 1 /\ (2 * m - 1) + 1 = 2 * m /\ (2 * m - 1) + 2 = 2 * m + 1
          /\ 2 * m - 1 \in 3..(Len(f) - 2)
      BY <1>1, <1>2, <1>5, <3>1
    <3>5. f[2 * m - 1] = Block(m - 1) /\ f[(2 * m - 1) + 1] = Pos(2 * m - 1)
      BY <3>3, <3>4 DEF StoredAt
    <3>6. f[(2 * m - 1) + 2].t = "block"
      BY <1>2, <1>5, <3>4
    <3>7. f[2 * m - 1].t = "block" /\ f[2 * m - 1].n = m - 1
      BY <3>5, CellsDiffer
    <3>8. f[(2 * m - 1) + 2].n = f[2 * m - 1].n + 1
      BY <3>4, <3>5, <3>6, <3>7 DEF Shape
    <3> QED
      BY <1>5, <3>4, <3>7, <3>8
  <2> QED
    BY <2>1, <2>2
<1>7. StoredAt(f, m, 2 * m + 1)
  <2>1. (2 * m + 1) + 1 = 2 * m + 2
    BY <1>5
  <2> QED
    BY <1>2, <1>5, <1>6, <2>1 DEF StoredAt
<1> QED
  BY <1>2, <1>5, <1>7

(* Below the first cell that is torn there is a block in every other cell. *)
LEMMA Untorn ==
  ASSUME NEW f, Shape(f), NEW L \in 0..Len(f), \A i \in 1..L : f[i] # Torn
  PROVE  \A m \in Nat \ {0} : /\ 2 * m + 1 <= L => f[2 * m + 1] = Block(m)
                              /\ 2 * m + 2 <= L => f[2 * m + 2] = Pos(2 * m + 1)
<1> DEFINE P(m) == /\ 2 * m + 1 <= L => f[2 * m + 1] = Block(m)
                   /\ 2 * m + 2 <= L => f[2 * m + 2] = Pos(2 * m + 1)
           S == {m \in Nat \ {0} : ~P(m)}
<1>1. f \in Seq(Cells) /\ Len(f) \in Nat /\ DOMAIN f = 1..Len(f) /\ L \in Nat /\ L <= Len(f)
      /\ \A i \in 1..Len(f) : f[i] \in Cells /\ f[i].n \in Nat
  BY ShapeTypes
<1>2. SUFFICES ASSUME S # {} PROVE FALSE
  OBVIOUS
<1>3. PICK m \in S : \A n \in S : m <= n
  <2>1. S \in SUBSET Nat
    OBVIOUS
  <2> HIDE DEF S
  <2> QED BY <1>2, <2>1, Least
<1>4. m \in Nat \ {0} /\ ~P(m)
  BY <1>3
<1>5. m # 1 => P(m - 1) /\ m - 1 \in Nat \ {0}
  <2> SUFFICES ASSUME m # 1 PROVE P(m - 1) /\ m - 1 \in Nat \ {0}
    OBVIOUS
  <2>1. m - 1 \in Nat \ {0} /\ ~(m <= m - 1)
    BY <1>4
  <2>2. m - 1 \notin S
    BY <1>3, <2>1
  <2> HIDE DEF P
  <2> QED
    BY <2>1, <2>2
<1>6. 2 * m + 1 <= L
  <2>1. 2 * m + 2 <= L => 2 * m + 1 <= L
    BY <1>1, <1>4
  <2> QED
    BY <1>4, <2>1
<1>7. 2 * m + 1 \in 3..Len(f) /\ 2 * m + 1 \in 1..L
  BY <1>1, <1>4, <1>6
<1>8. f[2 * m + 1] = Block(m)
  <2>1. f[2 * m + 1] # Torn
    BY <1>7
  <2>2. BlockCell(f, 2 * m + 1) \/ PosCell(f, 2 * m + 1)
    BY <1>7, <2>1 DEF Shape
  <2>3. CASE m = 1
    <3>1. 2 * m + 1 = 3 /\ (2 * m + 1) - 1 = 2 /\ 2 \in DOMAIN f /\ 3 \in DOMAIN f
      BY <1>1, <1>7, <2>3
    <3>2. f[3].t = "block"
      BY <2>2, <3>1 DEF BlockCell, PosCell
    <3>3. f[3].n = 1
      BY <3>1, <3>2 DEF Shape
    <3> QED
      BY <1>1, <2>3, <3>1, <3>2, <3>3, BlockIs
  <2>4. CASE m # 1
    <3>1. 2 * (m - 1) + 1 = 2 * m - 1 /\ 2 * (m - 1) + 2 = 2 * m /\ 2 * m <= L
          /\ (2 * m + 1) - 1 = 2 * m /\ (2 * m - 1) + 1 = 2 * m /\ (2 * m - 1) + 2 = 2 * m + 1
          /\ 2 * m - 1 \in 3..(Len(f) - 2) /\ 2 * m - 1 <= L
      BY <1>1, <1>4, <1>6, <2>4
    <3>2. f[2 * m - 1] = Block(m - 1) /\ f[2 * m] = Pos(2 * m - 1)
      BY <1>5, <2>4, <3>1
    <3>3. /\ f[2 * m].t # "block" /\ f[2 * m] # Torn
          /\ f[2 * m - 1].t = "block" /\ f[2 * m - 1].n = m - 1
      BY <3>2, CellsDiffer
    <3>4. f[2 * m + 1].t = "block"
      BY <2>2, <3>1, <3>3 DEF BlockCell, PosCell
    <3>5. f[(2 * m - 1) + 2].n = f[2 * m - 1].n + 1
      BY <3>1, <3>2, <3>3, <3>4 DEF Shape
    <3>6. f[2 * m + 1].n = m
      BY <1>4, <3>1, <3>3, <3>5
    <3>7. f[2 * m + 1] \in Cells
      BY <1>1, <1>7
    <3> QED
      BY <3>4, <3>6, <3>7, BlockIs
  <2> QED
    BY <2>3, <2>4
<1>9. ASSUME 2 * m + 2 <= L PROVE f[2 * m + 2] = Pos(2 * m + 1)
  <2>1. 2 * m + 1 \in 3..(Len(f) - 1) /\ (2 * m + 1) + 1 = 2 * m + 2 /\ 2 * m + 2 \in 1..L
    BY <1>1, <1>4, <1>9
  <2>2. f[2 * m + 1].t = "block"
    BY <1>8, CellsDiffer
  <2>3. f[2 * m + 2] \in {Pos(2 * m + 1), Torn}
    BY <2>1, <2>2 DEF Shape
  <2> QED
    BY <2>1, <2>3
<1> QED
  BY <1>4, <1>8, <1>9

-------------------------------------------------------------------------------
(* What is left of a file: its first e cells, and perhaps a torn one. *)
Cut(f, g, e) ==
  /\ g \in Seq(Cells) /\ e \in 0..Len(f)
  /\ Len(g) = e \/ (Len(g) = e + 1 /\ g[e + 1] = Torn)
  /\ \A i \in 1..e : g[i] = f[i]

LEMMA ShapeCut ==
  ASSUME NEW f, NEW g, NEW e, Shape(f), Cut(f, g, e)
  PROVE  Shape(g)
<1>1. f \in Seq(Cells) /\ Len(f) \in Nat /\ DOMAIN f = 1..Len(f)
  BY ShapeTypes
<1>2. g \in Seq(Cells) /\ e \in Nat /\ e <= Len(f) /\ \A i \in 1..e : g[i] = f[i]
  BY <1>1 DEF Cut
<1>3. Len(g) \in Nat /\ DOMAIN g = 1..Len(g) /\ e <= Len(g) /\ Len(g) <= e + 1
  <2>1. Len(g) \in Nat /\ DOMAIN g = 1..Len(g)
    BY <1>2, LenProperties
  <2> QED
    BY <1>2, <2>1 DEF Cut
<1>4. \A i \in 1..Len(g) : i <= e \/ g[i] = Torn
  <2>1. CASE Len(g) = e
    BY <1>2, <2>1
  <2>2. CASE Len(g) = e + 1 /\ g[e + 1] = Torn
    BY <1>2, <2>2
  <2> QED
    BY <2>1, <2>2 DEF Cut
<1>5. \A i \in 1..Len(g) : g[i].t = "block" => i <= e
  BY <1>4, CellsDiffer
<1>6. 1 \in DOMAIN g => g[1] \in {Version(0), Version(1), Torn}
  <2> SUFFICES ASSUME 1 <= e PROVE g[1] \in {Version(0), Version(1), Torn}
    BY <1>3, <1>4
  <2>1. 1 \in DOMAIN f /\ g[1] = f[1]
    BY <1>1, <1>2
  <2> QED
    BY <2>1 DEF Shape
<1>7. 2 \in DOMAIN g => g[2] \in {GenesisState, Torn}
  <2> SUFFICES ASSUME 2 <= e PROVE g[2] \in {GenesisState, Torn}
    BY <1>3, <1>4
  <2>1. 2 \in DOMAIN f /\ g[2] = f[2]
    BY <1>1, <1>2
  <2> QED
    BY <2>1 DEF Shape
<1>8. ASSUME NEW i \in 3..Len(g) PROVE g[i] = Torn \/ BlockCell(g, i) \/ PosCell(g, i)
  <2>1. SUFFICES ASSUME i <= e PROVE g[i] = Torn \/ BlockCell(g, i) \/ PosCell(g, i)
    BY <1>3, <1>4
  <2>2. i \in 3..Len(f) /\ g[i] = f[i] /\ i - 1 \in 1..e /\ g[i - 1] = f[i - 1]
    BY <1>1, <1>2, <2>1
  <2>3. CASE BlockCell(f, i)
    BY <2>2, <2>3 DEF BlockCell
  <2>4. CASE PosCell(f, i)
    BY <2>2, <2>4 DEF PosCell
  <2> QED
    BY <2>2, <2>3, <2>4 DEF Shape
<1>9. ASSUME NEW i \in 3..(Len(g) - 1), g[i].t = "block" PROVE g[i + 1] \in {Pos(i), Torn}
  <2>1. i \in 1..Len(g) /\ i + 1 \in 1..Len(g) /\ i <= e
    BY <1>3, <1>5, <1>9
  <2>2. SUFFICES ASSUME i + 1 <= e PROVE g[i + 1] \in {Pos(i), Torn}
    BY <1>4, <2>1
  <2>3. i \in 3..(Len(f) - 1) /\ g[i] = f[i] /\ g[i + 1] = f[i + 1]
    BY <1>1, <1>2, <2>1, <2>2
  <2> QED
    BY <1>9, <2>3 DEF Shape
<1>10. ASSUME 3 \in DOMAIN g, g[3].t = "block" PROVE g[3].n = 1
  <2>1. 3 <= e
    BY <1>3, <1>5, <1>10
  <2>2. 3 \in DOMAIN f /\ g[3] = f[3]
    BY <1>1, <1>2, <2>1
  <2> QED
    BY <1>10, <2>2 DEF Shape
<1>11. ASSUME NEW i \in 3..(Len(g) - 2), g[i].t = "block", g[i + 1] = Pos(i), g[i + 2].t = "block"
       PROVE  g[i + 2].n = g[i].n + 1
  <2>1. i + 2 \in 1..Len(g)
    BY <1>3
  <2>2. i + 2 <= e
    BY <1>5, <1>11, <2>1
  <2>3. i \in 3..(Len(f) - 2) /\ i \in 1..e /\ i + 1 \in 1..e /\ i + 2 \in 1..e
    BY <1>1, <1>2, <1>3, <2>2
  <2>4. g[i] = f[i] /\ g[i + 1] = f[i + 1] /\ g[i + 2] = f[i + 2]
    BY <1>2, <2>3
  <2> QED
    BY <1>11, <2>3, <2>4 DEF Shape
<1> QED
  BY <1>2, <1>6, <1>7, <1>8, <1>9, <1>10, <1>11 DEF Shape

(* What a crash leaves. *)
LEMMA RemainsCut ==
  ASSUME NEW f \in Seq(Cells), NEW k \in 0..Len(f), NEW g \in Remains(f, k)
  PROVE  \E e \in k..Len(f) : Cut(f, g, e) /\ (Len(g) = e \/ e < Len(f))
<1>1. Len(f) \in Nat /\ DOMAIN f = 1..Len(f) /\ \A i \in 1..Len(f) : f[i] \in Cells
  BY LenProperties, ElementOfSeq
<1>2. ASSUME NEW n \in k..Len(f)
      PROVE  /\ n \in Nat /\ n <= Len(f)
             /\ SubSeq(f, 1, n) \in Seq(Cells) /\ Len(SubSeq(f, 1, n)) = n
             /\ \A i \in 1..n : SubSeq(f, 1, n)[i] = f[i]
  <2>1. n \in Nat /\ n <= Len(f)
    BY <1>1
  <2>2. \A i \in 1..n : f[i] \in Cells
    BY <1>1, <2>1
  <2> QED
    BY <2>1, <2>2, SubSeqProperties
<1>3. CASE \E n \in k..Len(f) : g = SubSeq(f, 1, n)
  <2>1. PICK n \in k..Len(f) : g = SubSeq(f, 1, n)
    BY <1>3
  <2>2. Cut(f, g, n) /\ Len(g) = n
    BY <1>1, <1>2, <2>1 DEF Cut
  <2> QED
    BY <2>2
<1>4. CASE \E n \in k..(Len(f) - 1) : g = Append(SubSeq(f, 1, n), Torn)
  <2>1. PICK n \in k..(Len(f) - 1) : g = Append(SubSeq(f, 1, n), Torn)
    BY <1>4
  <2>2. n \in k..Len(f) /\ n < Len(f)
    BY <1>1
  <2>3. PICK s \in Seq(Cells) : s = SubSeq(f, 1, n)
    BY <1>2, <2>2
  <2>4. Len(s) = n /\ \A i \in 1..n : s[i] = f[i]
    BY <1>2, <2>2, <2>3
  <2>5. /\ g \in Seq(Cells) /\ Len(g) = n + 1 /\ g[n + 1] = Torn
        /\ \A i \in 1..n : g[i] = s[i]
    BY <2>1, <2>3, <2>4, AppendProperties, CellTypes
  <2>6. Cut(f, g, n)
    BY <1>1, <2>2, <2>4, <2>5 DEF Cut
  <2> QED
    BY <2>2, <2>6
<1> QED
  BY <1>3, <1>4 DEF Remains

(* The index of a log that has lost its end, or has got a torn cell. *)
LEMMA IndexOfCut ==
  ASSUME NEW f, NEW g, NEW e, NEW x, Shape(f), Cut(f, g, e), IndexShape(f, x),
         Len(g) <= Len(f) \/ \A n \in DOMAIN x : x[n] < Len(f)
  PROVE  IndexShape(g, x)
<1>1. f \in Seq(Cells) /\ Len(f) \in Nat /\ e \in Nat /\ e <= Len(f) /\ \A i \in 1..e : g[i] = f[i]
  BY ShapeTypes DEF Cut
<1>2. Len(g) \in Nat /\ Len(g) <= e + 1
  <2>1. g \in Seq(Cells)
    BY DEF Cut
  <2>2. Len(g) \in Nat
    BY <2>1, LenProperties
  <2> QED
    BY <1>1, <2>2 DEF Cut
<1>3. x \in Seq(Nat) /\ Len(x) \in Nat /\ DOMAIN x = 1..Len(x) /\ \A n \in DOMAIN x : x[n] \in Nat
  <2>1. x \in Seq(Nat)
    BY DEF IndexShape
  <2> QED
    BY <2>1, LenProperties, ElementOfSeq
<1>4. ASSUME NEW n \in DOMAIN x, x[n] # 0, x[n] < Len(g) PROVE g[x[n]] \in {Block(n), Torn}
  <2>1. x[n] \in 1..e /\ x[n] < Len(f)
    BY <1>1, <1>2, <1>3, <1>4
  <2>2. f[x[n]] \in {Block(n), Torn}
    BY <1>4, <2>1 DEF IndexShape
  <2> QED
    BY <1>1, <2>1, <2>2
<1>5. ASSUME NEW n \in DOMAIN x, x[n] # 0, x[n] <= Len(g), \A i \in 1..(x[n] - 1) : g[i] # Torn
      PROVE  \A m \in 1..n : x[m] = 2 * m + 1
  <2>1. x[n] <= Len(f) /\ x[n] - 1 <= e /\ x[n] \in Nat
    BY <1>1, <1>2, <1>3, <1>5
  <2>2. ASSUME NEW i \in 1..(x[n] - 1) PROVE f[i] # Torn
    <3>1. i \in 1..e
      BY <1>1, <2>1
    <3> QED
      BY <1>1, <1>5, <3>1
  <2> QED
    BY <1>5, <2>1, <2>2 DEF IndexShape
<1>6. \A m, n \in DOMAIN x : m < n /\ x[n] # 0 => x[m] < x[n]
  BY DEF IndexShape
<1> QED
  BY <1>3, <1>4, <1>5, <1>6 DEF IndexShape

(* The index that has lost its end. *)
IndexCut(x, y, k) ==
  /\ y \in Seq(Nat) /\ k \in Nat /\ k <= Len(x)
  /\ Len(y) = k \/ (Len(y) = k + 1 /\ y[k + 1] = 0)
  /\ \A n \in 1..k : y[n] = x[n]

LEMMA CutIndex ==
  ASSUME NEW f, NEW x, IndexShape(f, x), NEW y, NEW k, IndexCut(x, y, k)
  PROVE  IndexShape(f, y)
<1>1. /\ x \in Seq(Nat) /\ Len(x) \in Nat /\ DOMAIN x = 1..Len(x)
      /\ y \in Seq(Nat) /\ Len(y) \in Nat /\ DOMAIN y = 1..Len(y)
      /\ k \in Nat /\ k <= Len(x)
  <2>1. x \in Seq(Nat) /\ y \in Seq(Nat)
    BY DEF IndexShape, IndexCut
  <2>2. k \in Nat /\ k <= Len(x)
    BY DEF IndexCut
  <2> QED
    BY <2>1, <2>2, LenProperties
<1>2. ASSUME NEW n \in 1..Len(y), y[n] # 0
      PROVE  n \in 1..k /\ n \in DOMAIN x /\ \A m \in 1..n : y[m] = x[m] /\ m \in DOMAIN x
  <2>1. n \in 1..k
    <3>1. Len(y) = k \/ (Len(y) = k + 1 /\ n # k + 1)
      BY <1>2 DEF IndexCut
    <3>2. Len(y) \in Nat /\ k \in Nat
      BY <1>1
    <3>3. n \in Nat /\ 1 <= n /\ n <= Len(y)
      BY <3>2
    <3>4. n <= k
      BY <3>1, <3>2, <3>3
    <3> QED
      BY <3>2, <3>3, <3>4
  <2>2. n \in 1..Len(x) /\ \A m \in 1..n : m \in 1..k /\ m \in 1..Len(x)
    BY <1>1, <2>1
  <2> QED
    BY <1>1, <2>1, <2>2 DEF IndexCut
<1>3. ASSUME NEW m \in 1..Len(y), NEW n \in 1..Len(y), m < n, y[n] # 0 PROVE y[m] < y[n]
  <2>1. m \in 1..n /\ n \in 1..n
    BY <1>1, <1>3
  <2>2. y[m] = x[m] /\ y[n] = x[n] /\ m \in DOMAIN x /\ n \in DOMAIN x
    BY <1>2, <1>3, <2>1
  <2> QED
    BY <1>3, <2>2 DEF IndexShape
<1>4. ASSUME NEW n \in 1..Len(y), y[n] # 0, y[n] < Len(f) PROVE f[y[n]] \in {Block(n), Torn}
  <2>1. n \in 1..n
    BY <1>1
  <2>2. y[n] = x[n] /\ n \in DOMAIN x
    BY <1>2, <1>4, <2>1
  <2> QED
    BY <1>4, <2>2 DEF IndexShape
<1>5. ASSUME NEW n \in 1..Len(y), y[n] # 0, y[n] <= Len(f), \A i \in 1..(y[n] - 1) : f[i] # Torn
      PROVE  \A m \in 1..n : y[m] = 2 * m + 1
  <2>1. n \in 1..n
    BY <1>1
  <2>2. y[n] = x[n] /\ n \in DOMAIN x /\ \A m \in 1..n : y[m] = x[m]
    BY <1>2, <1>5, <2>1
  <2>3. \A m \in 1..n : x[m] = 2 * m + 1
    BY <1>5, <2>2 DEF IndexShape
  <2> QED
    BY <2>2, <2>3
<1> QED
  BY <1>1, <1>3, <1>4, <1>5 DEF IndexShape

LEMMA IndexRemains ==
  ASSUME NEW f, NEW x, IndexShape(f, x), NEW k \in Nat, NEW y \in RemainsOfIndex(x, k)
  PROVE  IndexShape(f, y) /\ y \in Seq(Nat) /\ Len(y) \in Nat
<1>1. x \in Seq(Nat) /\ Len(x) \in Nat /\ DOMAIN x = 1..Len(x) /\ \A i \in 1..Len(x) : x[i] \in Nat
  <2>1. x \in Seq(Nat)
    BY DEF IndexShape
  <2> QED
    BY <2>1, LenProperties, ElementOfSeq
<1>2. ASSUME NEW n \in k..Len(x)
      PROVE  /\ n \in Nat /\ n <= Len(x)
             /\ SubSeq(x, 1, n) \in Seq(Nat) /\ Len(SubSeq(x, 1, n)) = n
             /\ \A i \in 1..n : SubSeq(x, 1, n)[i] = x[i]
  <2>1. n \in Nat /\ n <= Len(x)
    BY <1>1
  <2>2. \A i \in 1..n : x[i] \in Nat
    BY <1>1, <2>1
  <2> QED
    BY <2>1, <2>2, SubSeqProperties
<1>3. CASE \E n \in k..Len(x) : y = SubSeq(x, 1, n)
  <2>1. PICK n \in k..Len(x) : y = SubSeq(x, 1, n)
    BY <1>3
  <2>2. y \in Seq(Nat) /\ n \in Nat /\ n <= Len(x) /\ Len(y) = n /\ \A i \in 1..n : y[i] = x[i]
    BY <1>2, <2>1
  <2> QED
    BY <2>2, CutIndex DEF IndexCut
<1>4. CASE \E n \in k..(Len(x) - 1) : y = Append(SubSeq(x, 1, n), 0)
  <2>1. PICK n \in k..(Len(x) - 1) : y = Append(SubSeq(x, 1, n), 0)
    BY <1>4
  <2>2. n \in k..Len(x)
    BY <1>1
  <2>3. PICK s \in Seq(Nat) : s = SubSeq(x, 1, n)
    BY <1>2, <2>2
  <2>4. Len(s) = n /\ n \in Nat /\ n <= Len(x) /\ \A i \in 1..n : s[i] = x[i]
    BY <1>2, <2>2, <2>3
  <2>5. /\ y \in Seq(Nat) /\ Len(y) = n + 1 /\ y[n + 1] = 0
        /\ \A i \in 1..n : y[i] = s[i]
    BY <2>1, <2>3, <2>4, AppendProperties
  <2>6. \A i \in 1..n : y[i] = x[i]
    BY <2>4, <2>5
  <2>7. IndexCut(x, y, n)
    BY <2>4, <2>5, <2>6 DEF IndexCut
  <2>8. IndexShape(f, y)
    BY <2>7, CutIndex
  <2> QED
    BY <2>4, <2>5, <2>8
<1> QED
  BY <1>3, <1>4 DEF RemainsOfIndex

-------------------------------------------------------------------------------
(* Behind the genesis state, blocks are at odd cells and positions at even *)
(* ones.                                                                   *)
LEMMA OddOrEven ==
  \A i \in Nat : i >= 3 => \E m \in Nat \ {0} : i = 2 * m + 1 \/ i = 2 * m + 2
<1> SUFFICES ASSUME NEW i \in Nat, i >= 3
             PROVE  \E m \in Nat \ {0} : i = 2 * m + 1 \/ i = 2 * m + 2
  OBVIOUS
<1>1. (i - 1) \div 2 \in Nat \ {0} /\ (i = 2 * ((i - 1) \div 2) + 1 \/ i = 2 * ((i - 1) \div 2) + 2)
  OBVIOUS
<1> QED
  BY <1>1

(* A block in a part of the log without torn cells is in its place, and    *)
(* the blocks before it are complete.                                      *)
LEMMA InPlace ==
  ASSUME NEW f, Shape(f), NEW i \in 3..(Len(f) - 1), NEW n, StoredAt(f, n, i),
         \A j \in 1..(i + 1) : f[j] # Torn
  PROVE  n \in Nat /\ n > 0 /\ i = 2 * n + 1 /\ \A m \in 1..n : Whole(f, m)
<1>1. f \in Seq(Cells) /\ Len(f) \in Nat /\ DOMAIN f = 1..Len(f)
  BY ShapeTypes
<1>2. i \in Nat /\ i >= 3 /\ i + 1 \in 0..Len(f)
  BY <1>1
<1>3. \A m \in Nat \ {0} : /\ 2 * m + 1 <= i + 1 => f[2 * m + 1] = Block(m)
                           /\ 2 * m + 2 <= i + 1 => f[2 * m + 2] = Pos(2 * m + 1)
  BY <1>2, Untorn
<1>4. PICK m \in Nat \ {0} : i = 2 * m + 1 \/ i = 2 * m + 2
  BY <1>2, OddOrEven
<1>5. f[i] = Block(n) /\ f[i].t = "block" /\ f[i].n = n
  BY CellsDiffer DEF StoredAt
<1>6. i # 2 * m + 2
  <2> SUFFICES ASSUME i = 2 * m + 2 PROVE FALSE
    OBVIOUS
  <2>1. 2 * m + 2 <= i + 1
    BY <1>2
  <2>2. f[2 * m + 2] = Pos(2 * m + 1)
    BY <1>3, <2>1
  <2>3. f[i] = Pos(2 * m + 1)
    BY <2>2
  <2> QED
    BY <1>5, <2>3, CellsDiffer
<1>7. i = 2 * m + 1
  BY <1>4, <1>6
<1>8. f[i] = Block(m)
  BY <1>2, <1>3, <1>7
<1>9. n = m
  BY <1>5, <1>8, CellsDiffer
<1>10. ASSUME NEW k \in 1..m PROVE Whole(f, k)
  <2>1. k \in Nat \ {0} /\ 2 * k + 2 <= i + 1 /\ 2 * k + 1 <= i + 1 /\ (2 * k + 1) + 1 = 2 * k + 2
        /\ 2 * k + 2 <= Len(f)
    BY <1>2, <1>7
  <2>2. f[2 * k + 1] = Block(k) /\ f[2 * k + 2] = Pos(2 * k + 1)
    BY <1>3, <2>1
  <2> QED
    BY <2>1, <2>2, CellsDiffer DEF Whole
<1> QED
  BY <1>7, <1>9, <1>10

(* A walk passes the blocks that are complete. *)
LEMMA WalkedAll ==
  ASSUME NEW f \in Seq(Cells), NEW n \in Nat, \A m \in 1..n : Whole(f, m)
  PROVE  n <= Walked(f)
<1>1. Walked(f) \in Nat /\ ~Whole(f, Walked(f) + 1)
  <2>1. Len(f) \in Nat
    BY LenProperties
  <2> QED
    BY <2>1, WalkedFacts
<1>2. ~(Walked(f) + 1 <= n)
  <2>1. Walked(f) + 1 <= n => Walked(f) + 1 \in 1..n
    BY <1>1
  <2> QED
    BY <1>1, <2>1
<1> QED
  BY <1>1, <1>2

LEMMA LastCell ==
  ASSUME NEW f \in Seq(Cells), f # <<>>
  PROVE  Len(f) \in Nat /\ Len(f) >= 1 /\ Last(f) = f[Len(f)]
<1>1. Len(f) \in Nat /\ Len(f) # 0
  BY LenProperties, EmptySeq
<1> QED
  BY <1>1 DEF Last

(* read_head finds the last block, or what was passed on of it. *)
LEMMA ReadHead ==
  ASSUME NEW f, Shape(f), f # <<>>, NEW h \in read_head(f) \ {0}
  PROVE  /\ Len(f) \in Nat /\ Len(f) - 1 \in 3..(Len(f) - 1)
         /\ Last(f).n = Len(f) - 1 /\ f[Len(f)].t = "pos"
         /\ h \in Nat /\ HeadAt(f, h, Len(f) - 1)
<1>1. f \in Seq(Cells) /\ Len(f) \in Nat /\ DOMAIN f = 1..Len(f)
      /\ \A i \in 1..Len(f) : f[i] \in Cells /\ f[i].n \in Nat
  BY ShapeTypes
<1>2. Len(f) >= 1 /\ Last(f) = f[Len(f)]
  BY <1>1, LastCell
<1>3. f[Len(f)].t = "pos"
  BY <1>2 DEF read_head
<1>4. Len(f) # 1 /\ Len(f) # 2
  <2>1. Len(f) = 1 => f[Len(f)] \in {Version(0), Version(1), Torn}
    BY <1>1 DEF Shape
  <2>2. Len(f) = 2 => f[Len(f)] \in {GenesisState, Torn}
    BY <1>1 DEF Shape
  <2> QED
    BY <1>3, <2>1, <2>2, CellsDiffer
<1>5. Len(f) \in 3..Len(f)
  BY <1>1, <1>2, <1>4
<1>6. Len(f) > 3 /\ f[Len(f)] = Pos(Len(f) - 1) /\ (f[Len(f) - 1].t = "block" \/ f[Len(f) - 1] = Torn)
  <2>1. PosCell(f, Len(f))
    BY <1>3, <1>5, CellsDiffer DEF Shape, BlockCell
  <2> QED
    BY <2>1 DEF PosCell
<1>7. Len(f) - 1 \in 3..(Len(f) - 1) /\ (Len(f) - 1) + 1 = Len(f) /\ Len(f) - 1 \in 1..Len(f)
      /\ ((Len(f) - 1) + 2)..Len(f) = {}
  BY <1>1, <1>6
<1>8. f[Len(f)].n = Len(f) - 1
  BY <1>6, CellsDiffer
<1>9. h \in Nat /\ f[Len(f) - 1] \in {Block(h), Torn}
  <2>1. CASE f[Len(f) - 1].t = "block"
    <3>1. h = f[Len(f) - 1].n
      BY <1>2, <1>3, <1>8, <2>1 DEF read_head
    <3>2. f[Len(f) - 1] = Block(f[Len(f) - 1].n)
      BY <1>1, <1>7, <2>1, BlockIs
    <3>3. f[Len(f) - 1].n \in Nat
      BY <1>1, <1>7
    <3> QED
      BY <3>1, <3>2, <3>3
  <2>2. CASE f[Len(f) - 1] = Torn
    <3>1. f[Len(f) - 1].t # "block"
      BY <2>2, CellsDiffer
    <3>2. h \in 0..MaxBlocks
      BY <1>2, <1>3, <1>8, <3>1 DEF read_head
    <3> QED
      BY <2>2, <3>2, BlockLogAssumption
  <2> QED
    BY <1>6, <2>1, <2>2
<1>10. HeadAt(f, h, Len(f) - 1)
  BY <1>6, <1>7, <1>9 DEF HeadAt
<1> QED
  BY <1>1, <1>2, <1>3, <1>7, <1>8, <1>9, <1>10

LEMMA HeadRead ==
  ASSUME NEW f \in Seq(Cells), NEW h, Len(f) > 1, StoredAt(f, h, Len(f) - 1)
  PROVE  read_head(f) = {h} /\ f # <<>>
<1>1. Len(f) \in Nat /\ f # <<>>
  BY LenProperties, EmptySeq
<1>2. Last(f) = f[Len(f)] /\ (Len(f) - 1) + 1 = Len(f)
  BY <1>1, LastCell
<1>3. f[Len(f)] = Pos(Len(f) - 1) /\ f[Len(f) - 1] = Block(h)
  BY <1>2 DEF StoredAt
<1>4. Last(f).t = "pos" /\ Last(f).n = Len(f) - 1 /\ f[Len(f) - 1].t = "block" /\ f[Len(f) - 1].n = h
  BY <1>2, <1>3, CellsDiffer
<1> QED
  BY <1>1, <1>4 DEF read_head

(* In a log that is not torn inside the head is a block. *)
LEMMA HeadStored ==
  ASSUME NEW f, Shape(f), NEW h, NEW i \in 3..(Len(f) - 1), HeadAt(f, h, i), ~TornInside(f)
  PROVE  StoredAt(f, h, i) /\ f[i] # Torn
<1>1. Len(f) \in Nat /\ DOMAIN f = 1..Len(f)
  BY ShapeTypes
<1>2. i \in DOMAIN f /\ i < Len(f)
  BY <1>1
<1>3. f[i] # Torn
  BY <1>2 DEF TornInside
<1> QED
  BY <1>3 DEF HeadAt, StoredAt

(* The index that construct_index makes. *)
LEMMA PositionsShape ==
  ASSUME NEW f, Shape(f)
  PROVE  /\ Walked(f) \in Nat
         /\ Positions(Walked(f)) \in Seq(Nat) /\ Len(Positions(Walked(f))) = Walked(f)
         /\ \A m \in 1..Walked(f) : /\ Positions(Walked(f))[m] = 2 * m + 1
                                    /\ 2 * m + 2 <= Len(f) /\ StoredAt(f, m, 2 * m + 1)
         /\ IndexShape(f, Positions(Walked(f)))
<1>1. f \in Seq(Cells) /\ Len(f) \in Nat
  BY ShapeTypes
<1>2. Walked(f) \in Nat /\ \A m \in 1..Walked(f) : Whole(f, m)
  BY <1>1, WalkedFacts
<1>3. PICK w \in Nat : w = Walked(f)
  BY <1>2
<1>4. \A m \in 1..w : StoredAt(f, m, 2 * m + 1) /\ 2 * m + 2 <= Len(f)
  BY <1>2, <1>3, WholeBlocks
<1>5. PICK x : x = Positions(w)
  OBVIOUS
<1>6. x = [i \in 1..w |-> 2 * i + 1]
  BY <1>5 DEF Positions
<1>7. x \in [1..w -> Nat]
  BY <1>6
<1>8. x \in Seq(Nat) /\ Len(x) = w /\ DOMAIN x = 1..w
  BY <1>6, <1>7, SeqDef, LenProperties
<1>9. \A m \in 1..w : x[m] = 2 * m + 1
  BY <1>6
<1>10. IndexShape(f, x)
  <2>1. \A m, n \in DOMAIN x : m < n /\ x[n] # 0 => x[m] < x[n]
    BY <1>8, <1>9
  <2>2. \A n \in DOMAIN x : f[x[n]] = Block(n)
    BY <1>4, <1>8, <1>9 DEF StoredAt
  <2>3. \A n \in DOMAIN x : \A m \in 1..n : x[m] = 2 * m + 1
    BY <1>8, <1>9
  <2> QED
    BY <1>8, <2>1, <2>2, <2>3 DEF IndexShape
<1> QED
  BY <1>3, <1>4, <1>5, <1>8, <1>9, <1>10

(* Empty files. *)
LEMMA Empty ==
  /\ Shape(<<>>)
  /\ \A f : IndexShape(f, <<>>)
<1>1. <<>> \in Seq(Cells) /\ <<>> \in Seq(Nat) /\ Len(<<>>) = 0 /\ DOMAIN <<>> = {}
  BY EmptySeq
<1>2. 3..0 = {} /\ 3..(0 - 1) = {} /\ 3..(0 - 2) = {}
  OBVIOUS
<1>3. Shape(<<>>)
  BY <1>1, <1>2 DEF Shape
<1>4. \A f : IndexShape(f, <<>>)
  BY <1>1 DEF IndexShape
<1> QED
  BY <1>3, <1>4

-------------------------------------------------------------------------------
(* The steps. *)
LEMMA Started == Init => IInv
<1> SUFFICES ASSUME Init PROVE IInv
  OBVIOUS
<1>1. log = <<>> /\ index = <<>> /\ lsync = 0 /\ isync = 0 /\ mode = "down" /\ head = 0
      /\ pc = "idle" /\ stream = "good" /\ acked = {}
  BY DEF Init
<1>2. Shape(log) /\ IndexShape(log, index) /\ Len(log) = 0
  BY <1>1, Empty, EmptySeq
<1>3. TypeInv
  BY <1>1, <1>2 DEF TypeInv
<1>4. AckedInv
  BY <1>1 DEF AckedInv
<1> QED
  BY <1>1, <1>2, <1>3, <1>4 DEF IInv, SyncInv, Openable

(* open. *)
LEMMA IndexExactAtOpen ==
  ASSUME NEW f, NEW x, Shape(f), IndexShape(f, x), f # <<>>, NEW h \in read_head(f) \ {0},
         index_fits(f, x)
  PROVE  /\ \A m \in DOMAIN x : x[m] < Len(f)
         /\ ~TornInside(f) => Len(x) = h /\ \A m \in 1..Len(x) : x[m] = 2 * m + 1
<1>1. /\ Len(f) \in Nat /\ Len(f) - 1 \in 3..(Len(f) - 1)
      /\ Last(f).n = Len(f) - 1 /\ HeadAt(f, h, Len(f) - 1)
  BY ReadHead
<1>2. x \in Seq(Nat) /\ x # <<>> /\ Last(x) = Len(f) - 1
  BY <1>1 DEF IndexShape, index_fits
<1>3. Len(x) \in Nat /\ DOMAIN x = 1..Len(x) /\ Len(x) # 0 /\ \A m \in DOMAIN x : x[m] \in Nat
  BY <1>2, LenProperties, EmptySeq, ElementOfSeq
<1>4. x[Len(x)] = Len(f) - 1 /\ Len(x) \in DOMAIN x
  BY <1>2, <1>3 DEF Last
<1>5. x[Len(x)] # 0 /\ x[Len(x)] < Len(f)
  <2>0. \A L \in Nat : L - 1 \in 3..(L - 1) => L - 1 # 0 /\ L - 1 < L
    OBVIOUS
  <2>1. Len(f) - 1 # 0 /\ Len(f) - 1 < Len(f)
    BY <1>1, <2>0
  <2> QED
    BY <1>4, <2>1
<1>6. ASSUME NEW m \in DOMAIN x PROVE x[m] < Len(f)
  <2>1. m = Len(x) \/ m < Len(x)
    BY <1>3
  <2>2. m < Len(x) => x[m] < x[Len(x)]
    BY <1>4, <1>5 DEF IndexShape
  <2>3. x[m] \in Nat /\ x[Len(x)] \in Nat
    BY <1>3, <1>4
  <2> QED
    BY <1>1, <1>5, <2>1, <2>2, <2>3
<1>7. ASSUME ~TornInside(f) PROVE Len(x) = h /\ \A m \in 1..Len(x) : x[m] = 2 * m + 1
  <2>1. f[Len(f) - 1] \in {Block(Len(x)), Torn}
    BY <1>4, <1>5 DEF IndexShape
  <2>2. Len(x) = h
    <3>1. f[Len(f) - 1] = Block(h) /\ f[Len(f) - 1] # Torn
      BY <1>1, <1>7, HeadStored DEF StoredAt
    <3>2. Block(Len(x)) = Block(h)
      BY <2>1, <3>1
    <3> QED
      BY <3>2, CellsDiffer
  <2>3. ASSUME NEW i \in 1..(x[Len(x)] - 1) PROVE f[i] # Torn
    <3>1. i < Len(f) /\ i \in 1..Len(f)
      BY <1>1, <1>4
    <3>2. i \in DOMAIN f
      BY <3>1, ShapeTypes
    <3> QED
      BY <1>7, <3>1, <3>2 DEF TornInside
  <2>4. x[Len(x)] <= Len(f)
    BY <1>1, <1>4
  <2>5. \A m \in 1..Len(x) : x[m] = 2 * m + 1
    BY <1>4, <1>5, <2>3, <2>4 DEF IndexShape
  <2> QED
    BY <2>2, <2>5
<1> QED
  BY <1>6, <1>7

(* The walk goes to the head. *)
LEMMA WalkedToHead ==
  ASSUME NEW f, Shape(f), f # <<>>, NEW h \in read_head(f) \ {0}, ~TornInside(f)
  PROVE  Walked(f) = h
<1>1. /\ Len(f) \in Nat /\ Len(f) - 1 \in 3..(Len(f) - 1) /\ f[Len(f)].t = "pos"
      /\ HeadAt(f, h, Len(f) - 1)
  BY ReadHead
<1>2. f \in Seq(Cells) /\ DOMAIN f = 1..Len(f) /\ StoredAt(f, h, Len(f) - 1)
  BY <1>1, ShapeTypes, HeadStored
<1>3. ASSUME NEW j \in 1..((Len(f) - 1) + 1) PROVE f[j] # Torn
  <2>0. \A L \in Nat : \A k \in 1..((L - 1) + 1) : k \in 1..L /\ (k = L \/ k < L)
    OBVIOUS
  <2>1. j \in DOMAIN f /\ (j = Len(f) \/ j < Len(f))
    BY <1>1, <1>2, <2>0
  <2> QED
    BY <1>1, <1>3, <2>1, CellsDiffer DEF TornInside
<1>4. h \in Nat /\ h > 0 /\ Len(f) - 1 = 2 * h + 1 /\ \A m \in 1..h : Whole(f, m)
  BY <1>1, <1>2, <1>3, InPlace
<1>5. h <= Walked(f)
  BY <1>2, <1>4, WalkedAll
<1>6. Walked(f) \in Nat /\ \A m \in 1..Walked(f) : 2 * m + 2 <= Len(f)
  BY PositionsShape
<1>7. ~(h + 1 <= Walked(f))
  <2>1. h + 1 <= Walked(f) => h + 1 \in 1..Walked(f)
    BY <1>4, <1>6
  <2>2. ~(2 * (h + 1) + 2 <= Len(f))
    BY <1>1, <1>4
  <2> QED
    BY <1>6, <2>1, <2>2
<1> QED
  BY <1>4, <1>5, <1>6, <1>7

LEMMA OpenStep ==
  ASSUME IInv, open
  PROVE  IInv'
<1>1. /\ mode = "down" /\ UNCHANGED <<log, lsync, pc, stream, acked>>
      /\ excuse' = (excuse /\ mode' # "open")
  BY DEF open
<1>2. /\ TypeInv /\ Shape(log) /\ IndexShape(log, index) /\ lsync = Len(log)
      /\ pc = "idle" /\ stream = "good"
      /\ ~excuse => Openable(log) /\ (log = <<>> \/ index # <<0>>)
      /\ AckedInv
  BY <1>1 DEF IInv, SyncInv
<1>3. /\ Shape(log') /\ lsync' = Len(log') /\ AckedInv' /\ pc' = "idle" /\ stream' = "good"
      /\ lsync' \in 0..Len(log') /\ acked' \subseteq Nat
  BY <1>1, <1>2 DEF AckedInv, TypeInv
<1>4. SUFFICES /\ IndexShape(log, index') /\ isync' \in Nat /\ head' \in Nat
               /\ \/ mode' = "open" /\ OpenInv'
                  \/ mode' = "failed" /\ excuse
  BY <1>1, <1>3 DEF IInv, TypeInv, SyncInv
<1>5. isync \in Nat /\ head \in Nat
  BY <1>2 DEF TypeInv
<1>6. CASE log = <<>> /\ mode' = "open" /\ head' = 0 /\ index' = <<>> /\ isync' = 0
  BY <1>1, <1>2, <1>6, Empty DEF OpenInv
<1>7. CASE /\ log # <<>>
           /\ log[1] # Version(supported_version) \/ 0 \in read_head(log) \/ index = <<0>>
           /\ mode' = "failed" /\ UNCHANGED <<head, index, isync>>
  BY <1>2, <1>5, <1>7 DEF Openable, supported_version
<1>8. CASE /\ log # <<>> /\ log[1] = Version(supported_version)
           /\ \E found \in read_head(log) \ {0} :
                \/ /\ index_fits(log, index)
                   /\ mode' = "open" /\ head' = found /\ UNCHANGED <<index, isync>>
                \/ /\ ~index_fits(log, index)
                   /\ construct_index(found)
  <2>1. PICK found \in read_head(log) \ {0} :
           \/ /\ index_fits(log, index)
              /\ mode' = "open" /\ head' = found /\ UNCHANGED <<index, isync>>
           \/ construct_index(found)
    BY <1>8
  <2>2. /\ Len(log) \in Nat /\ found \in Nat /\ found > 0 /\ log[1] = Version(1)
        /\ Len(log) > 0
        /\ \E i \in 3..(Len(log) - 1) : HeadAt(log, found, i)
    <3>1. /\ Len(log) \in Nat /\ Len(log) - 1 \in 3..(Len(log) - 1)
          /\ found \in Nat /\ HeadAt(log, found, Len(log) - 1)
      BY <1>2, <1>8, ReadHead
    <3> QED
      BY <1>8, <3>1 DEF supported_version
  <2>3. ASSUME mode' = "open", head' = found, \A m \in DOMAIN index' : index'[m] < Len(log),
               ~TornInside(log) => Len(index') = found /\ \A m \in 1..found : index'[m] = 2 * m + 1
        PROVE  OpenInv'
    <3>1. TornInside(log') = TornInside(log)
      BY <1>1 DEF TornInside
    <3> QED
      BY <1>1, <1>3, <1>8, <2>2, <2>3, <3>1 DEF OpenInv, HeadAt
  <2>4. CASE /\ index_fits(log, index)
             /\ mode' = "open" /\ head' = found /\ UNCHANGED <<index, isync>>
    <3>1. /\ \A m \in DOMAIN index : index[m] < Len(log)
          /\ ~TornInside(log) => Len(index) = found /\ \A m \in 1..Len(index) : index[m] = 2 * m + 1
      BY <1>2, <1>8, <2>4, IndexExactAtOpen
    <3>2. OpenInv'
      BY <2>3, <2>4, <3>1
    <3> QED
      BY <1>2, <1>5, <2>2, <2>4, <3>2
  <2>5. /\ Walked(log) \in Nat
        /\ Positions(Walked(log)) \in Seq(Nat) /\ Len(Positions(Walked(log))) = Walked(log)
        /\ \A m \in 1..Walked(log) : /\ Positions(Walked(log))[m] = 2 * m + 1
                                     /\ 2 * m + 2 <= Len(log)
        /\ IndexShape(log, Positions(Walked(log)))
    BY <1>2, PositionsShape
  <2>6. CASE construct_index(found) /\ ~TornInside(log)
    <3>1. /\ index' = Positions(Walked(log)) /\ isync' = 0
          /\ mode' = "open" /\ head' = found
      BY <2>6 DEF construct_index
    <3>2. Walked(log) = found
      BY <1>2, <1>8, <2>6, WalkedToHead
    <3>3. Len(index') = head' /\ DOMAIN index' = 1..head' /\ \A m \in 1..head' : index'[m] = 2 * m + 1
      BY <2>5, <3>1, <3>2, LenProperties
    <3>4. \A m \in DOMAIN index' : index'[m] < Len(log)
      <4> SUFFICES ASSUME NEW m \in 1..head' PROVE index'[m] < Len(log)
        BY <3>3
      <4>1. m \in Nat /\ Len(log) \in Nat /\ 2 * m + 2 <= Len(log) /\ index'[m] = 2 * m + 1
        BY <2>2, <2>5, <3>1, <3>2, <3>3
      <4> QED
        BY <4>1
    <3>5. OpenInv'
      BY <2>3, <3>1, <3>3, <3>4
    <3> QED
      BY <2>2, <2>5, <3>1, <3>5
  <2>7. CASE construct_index(found) /\ TornInside(log)
    <3>1. excuse
      BY <1>2, <1>8, <2>7 DEF Openable
    <3>2. CASE /\ index' = Positions(Walked(log)) /\ isync' = Walked(log)
               /\ mode' = "failed" /\ head' = 0
      BY <2>5, <3>1, <3>2
    <3>3. CASE /\ index' = Append(Positions(Walked(log)), 0) /\ isync' = 0
               /\ mode' = "open" /\ head' = found
      <4>1. PICK x, w : x = Positions(Walked(log)) /\ w = Walked(log)
        OBVIOUS
      <4>2. w \in Nat /\ x \in Seq(Nat) /\ Len(x) = w /\ IndexShape(log, x)
            /\ \A m \in 1..w : x[m] = 2 * m + 1 /\ 2 * m + 2 <= Len(log)
        BY <2>5, <4>1
      <4>3. /\ index' \in Seq(Nat) /\ Len(index') = w + 1 /\ index'[w + 1] = 0
            /\ \A n \in 1..w : index'[n] = x[n]
        BY <3>3, <4>1, <4>2, AppendProperties
      <4>4. IndexCut(x, index', w)
        BY <4>2, <4>3 DEF IndexCut
      <4>5. IndexShape(log, index')
        BY <4>2, <4>4, CutIndex
      <4>6. DOMAIN index' = 1..(w + 1)
        BY <4>3, LenProperties
      <4>7. \A m \in DOMAIN index' : index'[m] < Len(log)
        <5> SUFFICES ASSUME NEW m \in 1..(w + 1) PROVE index'[m] < Len(log)
          BY <4>6
        <5>1. CASE m = w + 1
          BY <2>2, <4>3, <5>1
        <5>2. CASE m # w + 1
          <6>1. m \in 1..w
            BY <4>2, <5>2
          <6>2. index'[m] = 2 * m + 1 /\ 2 * m + 2 <= Len(log)
            BY <4>2, <4>3, <6>1
          <6> QED
            BY <2>2, <6>2
        <5> QED
          BY <5>1, <5>2
      <4>8. OpenInv'
        BY <2>3, <2>7, <3>3, <4>7
      <4> QED
        BY <2>2, <3>3, <4>5, <4>8
    <3> QED
      BY <2>7, <3>2, <3>3 DEF construct_index
  <2> QED
    BY <2>1, <2>4, <2>6, <2>7
<1> QED
  BY <1>6, <1>7, <1>8 DEF open

(* reset_to_genesis. *)
LEMMA GenesisStep ==
  ASSUME IInv, reset_to_genesis
  PROVE  IInv'
<1>1. /\ mode = "open" /\ log = <<>>
      /\ log' = <<Version(0), GenesisState, Block(1), Pos(3)>> /\ lsync' = 0
      /\ index' = <<3>> /\ isync' = 0
      /\ head' = 1 /\ pc' = "flush" /\ mode' = "open" /\ acked' = acked /\ stream' = stream
  BY DEF reset_to_genesis
<1>2. TypeInv /\ AckedInv /\ stream = "good"
  BY <1>1 DEF IInv
<1>3. acked = {}
  <2>1. Len(log) = 0 /\ lsync = 0
    BY <1>1, <1>2, EmptySeq DEF TypeInv
  <2>2. 3..(lsync - 1) = {}
    BY <2>1
  <2> QED
    BY <1>2, <2>2 DEF AckedInv
<1>4. PICK f : f = <<Version(0), GenesisState, Block(1), Pos(3)>>
  OBVIOUS
<1>5. /\ f \in Seq(Cells) /\ Len(f) = 4 /\ DOMAIN f = 1..4
      /\ f[1] = Version(0) /\ f[2] = GenesisState /\ f[3] = Block(1) /\ f[4] = Pos(3)
  BY <1>4, CellTypes
<1>6. Shape(f)
  <2>1. /\ 1..4 = {1, 2, 3, 4} /\ 3..4 = {3, 4} /\ 3..(4 - 1) = {3} /\ 3..(4 - 2) = {}
        /\ 3 + 1 = 4 /\ 4 - 1 = 3
    OBVIOUS
  <2>2. f[3].t = "block" /\ f[3].n = 1
    BY <1>5, CellsDiffer
  <2>3. BlockCell(f, 3) /\ PosCell(f, 4)
    BY <1>5, <2>1, <2>2 DEF BlockCell, PosCell
  <2> QED
    BY <1>5, <2>1, <2>2, <2>3 DEF Shape
<1>7. IndexShape(f, <<3>>)
  <2>1. PICK x : x = <<3>>
    OBVIOUS
  <2>2. x \in Seq(Nat) /\ DOMAIN x = {1} /\ x[1] = 3
    BY <2>1
  <2> QED
    BY <1>5, <2>1, <2>2 DEF IndexShape
<1>8. OpenInv'
  <2>1. Len(index') = 1 /\ index'[1] = 3 /\ DOMAIN index' = {1}
    BY <1>1
  <2>2. (3 + 2)..4 = {} /\ 3 \in 3..(4 - 1) /\ 1..1 = {1} /\ 2 * 1 + 1 = 3 /\ 3 + 1 = 4
        /\ 4 - 1 = 3
    OBVIOUS
  <2>3. HeadAt(log', head', 3) /\ StoredAt(log', head', Len(log') - 1)
    BY <1>1, <1>4, <1>5, <2>2 DEF HeadAt, StoredAt
  <2>4. log' # <<>>
    BY <1>1
  <2> QED
    BY <1>1, <1>4, <1>5, <2>1, <2>2, <2>3, <2>4 DEF OpenInv
<1>9. TypeInv' /\ AckedInv'
  BY <1>1, <1>2, <1>3, <1>4, <1>5 DEF TypeInv, AckedInv
<1>10. SyncInv'
  BY <1>1, <1>2, <1>4, <1>5, CellsDiffer DEF SyncInv
<1> QED
  BY <1>1, <1>2, <1>4, <1>6, <1>7, <1>8, <1>9, <1>10 DEF IInv

(* write_version changes the first cell. *)
LEMMA VersionStep ==
  ASSUME IInv, write_version
  PROVE  IInv'
<1>1. /\ mode = "open" /\ pc = "version" /\ log' = [log EXCEPT ![1] = Version(1)]
      /\ pc' = "idle" /\ acked' = acked \cup {head}
      /\ UNCHANGED <<index, lsync, isync, mode, head, stream>>
  BY DEF write_version, supported_version
<1>2. /\ TypeInv /\ Shape(log) /\ IndexShape(log, index) /\ OpenInv
      /\ lsync = Len(log) /\ stream = "good" /\ AckedInv
  BY <1>1 DEF IInv, SyncInv
<1>3. /\ log \in Seq(Cells) /\ Len(log) \in Nat /\ DOMAIN log = 1..Len(log)
      /\ head \in Nat /\ isync \in Nat
  BY <1>2, ShapeTypes DEF TypeInv
<1>4. /\ log # <<>> /\ head > 0 /\ log[1] \in {Version(0), Version(1)}
      /\ StoredAt(log, head, Len(log) - 1)
      /\ \E i \in 3..(Len(log) - 1) : HeadAt(log, head, i)
      /\ \A m \in DOMAIN index : index[m] < Len(log)
      /\ ~TornInside(log) => Len(index) = head /\ \A m \in 1..head : index[m] = 2 * m + 1
  BY <1>1, <1>2 DEF OpenInv
<1>5. PICK h \in 3..(Len(log) - 1) : HeadAt(log, head, h)
  BY <1>4
<1>6. 1 \in DOMAIN log /\ Len(log) > 3
  BY <1>3, <1>5
<1>7. PICK g : g = log'
  OBVIOUS
<1>8. /\ g \in Seq(Cells) /\ Len(g) = Len(log) /\ DOMAIN g = 1..Len(log) /\ g[1] = Version(1)
      /\ \A i \in 2..Len(log) : g[i] = log[i]
  <2>1. \A i \in DOMAIN log : log[i] \in Cells
    BY <1>3, ElementOfSeq
  <2>2. g = [j \in 1..Len(log) |-> IF j = 1 THEN Version(1) ELSE log[j]]
    BY <1>1, <1>3, <1>7
  <2>3. g \in [1..Len(log) -> Cells]
    BY <1>3, <2>1, <2>2, CellTypes
  <2>4. g \in Seq(Cells) /\ Len(g) = Len(log)
    BY <1>3, <2>3, SeqDef, LenProperties
  <2> QED
    BY <1>3, <1>6, <2>2, <2>4
<1>9. Shape(g)
  <2>1. 2 \in DOMAIN g => g[2] \in {GenesisState, Torn}
    <3>1. 2 \in DOMAIN log /\ g[2] = log[2]
      BY <1>3, <1>6, <1>8
    <3> QED
      BY <1>2, <3>1 DEF Shape
  <2>2. ASSUME NEW i \in 3..Len(g) PROVE g[i] = Torn \/ BlockCell(g, i) \/ PosCell(g, i)
    <3>1. i \in 3..Len(log) /\ g[i] = log[i] /\ g[i - 1] = log[i - 1]
      BY <1>3, <1>8
    <3>2. CASE BlockCell(log, i)
      BY <3>1, <3>2 DEF BlockCell
    <3>3. CASE PosCell(log, i)
      BY <3>1, <3>3 DEF PosCell
    <3> QED
      BY <1>2, <3>1, <3>2, <3>3 DEF Shape
  <2>3. ASSUME NEW i \in 3..(Len(g) - 1), g[i].t = "block" PROVE g[i + 1] \in {Pos(i), Torn}
    <3>1. i \in 3..(Len(log) - 1) /\ g[i] = log[i] /\ g[i + 1] = log[i + 1]
      BY <1>3, <1>8
    <3> QED
      BY <1>2, <2>3, <3>1 DEF Shape
  <2>4. 3 \in DOMAIN g /\ g[3].t = "block" => g[3].n = 1
    <3>1. 3 \in DOMAIN log /\ g[3] = log[3]
      BY <1>3, <1>6, <1>8
    <3> QED
      BY <1>2, <3>1 DEF Shape
  <2>5. ASSUME NEW i \in 3..(Len(g) - 2), g[i].t = "block", g[i + 1] = Pos(i), g[i + 2].t = "block"
        PROVE  g[i + 2].n = g[i].n + 1
    <3>1. i \in 3..(Len(log) - 2) /\ g[i] = log[i] /\ g[i + 1] = log[i + 1] /\ g[i + 2] = log[i + 2]
      BY <1>3, <1>8
    <3> QED
      BY <1>2, <2>5, <3>1 DEF Shape
  <2> QED
    BY <1>8, <2>1, <2>2, <2>3, <2>4, <2>5 DEF Shape
<1>10. \A i \in 1..Len(log) : g[i] = Torn <=> log[i] = Torn
  <2>1. g[1] # Torn /\ log[1] # Torn
    BY <1>4, <1>8, CellsDiffer
  <2>2. \A i \in 1..Len(log) : i = 1 \/ i \in 2..Len(log)
    BY <1>3
  <2> QED
    BY <1>8, <2>1, <2>2
<1>11. IndexShape(g, index)
  <2>1. index \in Seq(Nat) /\ \A n \in DOMAIN index : index[n] \in Nat
    <3>1. index \in Seq(Nat)
      BY <1>2 DEF IndexShape
    <3> QED
      BY <3>1, LenProperties, ElementOfSeq
  <2>2. ASSUME NEW n \in DOMAIN index, index[n] # 0 PROVE g[index[n]] \in {Block(n), Torn}
    <3>1. log[index[n]] \in {Block(n), Torn}
      BY <1>2, <1>4, <2>2 DEF IndexShape
    <3>2. index[n] # 1
      BY <1>4, <3>1, CellsDiffer
    <3>3. index[n] \in 2..Len(log)
      BY <1>3, <1>4, <2>1, <2>2, <3>2
    <3> QED
      BY <1>8, <3>1, <3>3
  <2>3. ASSUME NEW n \in DOMAIN index, index[n] # 0, \A i \in 1..(index[n] - 1) : g[i] # Torn
        PROVE  \A m \in 1..n : index[m] = 2 * m + 1
    <3>1. index[n] \in Nat /\ index[n] <= Len(log)
      BY <1>3, <1>4, <2>1
    <3>2. ASSUME NEW i \in 1..(index[n] - 1) PROVE log[i] # Torn
      <4>1. i \in 1..Len(log)
        BY <1>3, <3>1
      <4> QED
        BY <1>10, <2>3, <4>1
    <3> QED
      BY <1>2, <2>3, <3>1, <3>2 DEF IndexShape
  <2>4. \A m, n \in DOMAIN index : m < n /\ index[n] # 0 => index[m] < index[n]
    BY <1>2 DEF IndexShape
  <2> QED
    BY <2>1, <2>2, <2>3, <2>4 DEF IndexShape
<1>12. HeadAt(g, head, h)
  <2>1. h \in 2..Len(log) /\ h + 1 \in 2..Len(log) /\ \A j \in (h + 2)..Len(log) : j \in 2..Len(log)
    BY <1>3
  <2> QED
    BY <1>5, <1>8, <2>1 DEF HeadAt
<1>13. TornInside(g) <=> TornInside(log)
  BY <1>3, <1>8, <1>10 DEF TornInside
<1>14. OpenInv'
  <2>1. g # <<>>
    BY <1>6, <1>8, EmptySeq
  <2> QED
    BY <1>1, <1>4, <1>7, <1>8, <1>12, <1>13, <2>1 DEF OpenInv
<1>15. AckedInv'
  <2>1. \A i \in 3..(Len(log) - 1) : i \in 2..Len(log) /\ i + 1 \in 2..Len(log)
    BY <1>3
  <2>2. \A n, i : i \in 3..(Len(log) - 1) /\ StoredAt(log, n, i) => StoredAt(g, n, i)
    BY <1>8, <2>1 DEF StoredAt
  <2>3. Len(log) - 1 \in 3..(Len(log) - 1)
    BY <1>3, <1>6
  <2>4. \A n \in acked \cup {head} : \E i \in 3..(Len(log) - 1) : StoredAt(g, n, i)
    BY <1>2, <1>4, <2>2, <2>3 DEF AckedInv
  <2> QED
    BY <1>1, <1>2, <1>7, <2>4 DEF AckedInv
<1>16. TypeInv' /\ SyncInv'
  BY <1>1, <1>2, <1>3, <1>7, <1>8 DEF TypeInv, SyncInv
<1> QED
  BY <1>1, <1>2, <1>7, <1>8, <1>9, <1>11, <1>14, <1>15, <1>16 DEF IInv

(* A log that is open and not new. *)
LEMMA OpenLog ==
  ASSUME IInv, mode = "open", stream # "closed", head > 0
  PROVE  /\ log \in Seq(Cells) /\ Len(log) \in Nat /\ DOMAIN log = 1..Len(log)
         /\ log # <<>> /\ head \in Nat /\ isync \in Nat /\ acked \subseteq Nat
         /\ index \in Seq(Nat) /\ Len(index) \in Nat /\ DOMAIN index = 1..Len(index)
         /\ log[1] \in {Version(0), Version(1)}
         /\ pc = "idle" => log[1] = Version(1)
         /\ pc # "idle" => StoredAt(log, head, Len(log) - 1)
         /\ \E i \in 3..(Len(log) - 1) : HeadAt(log, head, i)
         /\ \A m \in DOMAIN index : index[m] \in Nat /\ index[m] < Len(log)
         /\ ~TornInside(log) => Len(index) = head /\ \A m \in 1..head : index[m] = 2 * m + 1
         /\ pc # "flush" /\ stream = "good" => lsync = Len(log)
<1>1. /\ TypeInv /\ Shape(log) /\ IndexShape(log, index) /\ OpenInv
      /\ pc # "flush" /\ stream = "good" => lsync = Len(log)
  BY DEF IInv, SyncInv
<1>2. head # 0
  BY <1>1 DEF TypeInv
<1>3. /\ log # <<>> /\ log[1] \in {Version(0), Version(1)}
      /\ pc = "idle" => log[1] = Version(1)
      /\ pc # "idle" => StoredAt(log, head, Len(log) - 1)
      /\ \E i \in 3..(Len(log) - 1) : HeadAt(log, head, i)
      /\ \A m \in DOMAIN index : index[m] < Len(log)
      /\ ~TornInside(log) => Len(index) = head /\ \A m \in 1..head : index[m] = 2 * m + 1
  BY <1>1, <1>2 DEF OpenInv
<1>4. log \in Seq(Cells) /\ Len(log) \in Nat /\ DOMAIN log = 1..Len(log)
  BY <1>1, ShapeTypes
<1>5. index \in Seq(Nat) /\ Len(index) \in Nat /\ DOMAIN index = 1..Len(index)
      /\ \A m \in DOMAIN index : index[m] \in Nat
  <2>1. index \in Seq(Nat)
    BY <1>1 DEF IndexShape
  <2> QED
    BY <2>1, LenProperties, ElementOfSeq
<1> QED
  BY <1>1, <1>3, <1>4, <1>5 DEF TypeInv

(* What is stored in a log is stored in a longer one. *)
LEMMA StillStored ==
  ASSUME NEW f, NEW g, NEW L \in Nat, \A i \in 1..L : g[i] = f[i],
         NEW i \in 3..(L - 1), NEW n, StoredAt(f, n, i)
  PROVE  StoredAt(g, n, i)
<1>1. i \in 1..L /\ i + 1 \in 1..L
  OBVIOUS
<1> QED
  BY <1>1 DEF StoredAt

(* append: the shape of the log with one more block. *)
LEMMA ShapeAppend ==
  ASSUME NEW f, Shape(f), NEW h \in Nat, h > 0, NEW p \in 3..(Len(f) - 1), HeadAt(f, h, p),
         NEW g \in Seq(Cells), Len(g) = Len(f) + 2,
         \A i \in 1..Len(f) : g[i] = f[i],
         g[Len(f) + 1] = Block(h + 1), g[Len(f) + 2] = Pos(Len(f) + 1)
  PROVE  Shape(g)
<1>1. f \in Seq(Cells) /\ Len(f) \in Nat /\ DOMAIN f = 1..Len(f)
  BY ShapeTypes
<1>2. PICK L \in Nat : L = Len(f)
  BY <1>1
<1>3. /\ Len(g) = L + 2 /\ DOMAIN g = 1..(L + 2) /\ (\A i \in 1..L : g[i] = f[i])
      /\ g[L + 1] = Block(h + 1) /\ g[L + 2] = Pos(L + 1) /\ p \in 3..(L - 1) /\ L > 3
  BY <1>2, LenProperties
<1>4. /\ f[p] \in {Block(h), Torn} /\ f[p + 1] = Pos(p) /\ (\A j \in (p + 2)..L : f[j] = Torn)
  BY <1>2 DEF HeadAt
<1>5. g[L + 1].t = "block" /\ g[L + 1].n = h + 1 /\ g[L + 2].t = "pos"
  BY <1>3, CellsDiffer
<1>6. f[L].t # "block" /\ (f[L] # Torn => L - 1 = p)
  <2>1. L = p + 1 \/ L \in (p + 2)..L
    BY <1>3
  <2>2. L = p + 1 => f[L].t = "pos"
    BY <1>4, CellsDiffer
  <2>3. L \in (p + 2)..L => f[L] = Torn
    BY <1>4
  <2> QED
    BY <1>3, <2>1, <2>2, <2>3, CellsDiffer
<1>7. 1 \in DOMAIN g => g[1] \in {Version(0), Version(1), Torn}
  <2>1. 1 \in DOMAIN f /\ g[1] = f[1]
    BY <1>1, <1>2, <1>3
  <2> QED
    BY <2>1 DEF Shape
<1>8. 2 \in DOMAIN g => g[2] \in {GenesisState, Torn}
  <2>1. 2 \in DOMAIN f /\ g[2] = f[2]
    BY <1>1, <1>2, <1>3
  <2> QED
    BY <2>1 DEF Shape
<1>9. ASSUME NEW i \in 3..Len(g) PROVE g[i] = Torn \/ BlockCell(g, i) \/ PosCell(g, i)
  <2>1. CASE i <= L
    <3>1. i \in 3..Len(f) /\ g[i] = f[i] /\ g[i - 1] = f[i - 1]
      BY <1>2, <1>3, <2>1
    <3>2. CASE BlockCell(f, i)
      BY <3>1, <3>2 DEF BlockCell
    <3>3. CASE PosCell(f, i)
      BY <3>1, <3>3 DEF PosCell
    <3> QED
      BY <3>1, <3>2, <3>3 DEF Shape
  <2>2. CASE i = L + 1
    <3>1. h + 1 > 0
      OBVIOUS
    <3> QED
      BY <1>5, <2>2, <3>1 DEF BlockCell
  <2>3. CASE i = L + 2
    <3>1. i - 1 = L + 1 /\ i > 3
      BY <1>3, <2>3
    <3> QED
      BY <1>3, <1>5, <2>3, <3>1 DEF PosCell
  <2> QED
    BY <1>3, <2>1, <2>2, <2>3
<1>10. ASSUME NEW i \in 3..(Len(g) - 1), g[i].t = "block" PROVE g[i + 1] \in {Pos(i), Torn}
  <2>1. CASE i = L + 1
    BY <1>3, <2>1
  <2>2. CASE i # L + 1
    <3>1. i \in 1..L
      BY <1>3, <2>2
    <3>2. i # L
      BY <1>3, <1>6, <1>10, <3>1
    <3>3. i \in 3..(Len(f) - 1) /\ g[i] = f[i] /\ g[i + 1] = f[i + 1]
      BY <1>2, <1>3, <3>1, <3>2
    <3> QED
      BY <1>10, <3>3 DEF Shape
  <2> QED
    BY <2>1, <2>2
<1>11. 3 \in DOMAIN g /\ g[3].t = "block" => g[3].n = 1
  <2>1. 3 \in DOMAIN f /\ g[3] = f[3]
    BY <1>1, <1>2, <1>3
  <2> QED
    BY <2>1 DEF Shape
<1>12. ASSUME NEW i \in 3..(Len(g) - 2), g[i].t = "block", g[i + 1] = Pos(i), g[i + 2].t = "block"
       PROVE  g[i + 2].n = g[i].n + 1
  <2>1. i \in 3..L /\ i # L
    <3>1. i \in 3..L
      BY <1>3
    <3>2. i = L => i + 2 = L + 2
      BY <1>3
    <3> QED
      BY <1>5, <1>12, <3>1, <3>2
  <2>2. CASE i = L - 1
    <3>1. i + 1 = L /\ i + 2 = L + 1
      BY <2>2
    <3>2. f[L] = Pos(i)
      <4>1. L \in 1..L
        BY <1>3
      <4>2. g[L] = f[L]
        BY <1>3, <4>1
      <4>3. g[L] = Pos(i)
        BY <1>12, <3>1
      <4> QED
        BY <4>2, <4>3
    <3>3. p = i
      BY <1>6, <2>2, <3>2, CellsDiffer
    <3>4. g[i] = Block(h)
      <4>1. g[i] \in {Block(h), Torn}
        BY <1>3, <1>4, <2>1, <3>3
      <4> QED
        BY <1>12, <4>1, CellsDiffer
    <3> QED
      BY <1>5, <3>1, <3>4, CellsDiffer
  <2>3. CASE i # L - 1
    <3>1. i \in 3..(Len(f) - 2) /\ g[i] = f[i] /\ g[i + 1] = f[i + 1] /\ g[i + 2] = f[i + 2]
      BY <1>2, <1>3, <2>1, <2>3
    <3> QED
      BY <1>12, <3>1 DEF Shape
  <2> QED
    BY <2>2, <2>3
<1> QED
  BY <1>7, <1>8, <1>9, <1>10, <1>11, <1>12 DEF Shape

LEMMA AppendStep ==
  ASSUME IInv, append
  PROVE  IInv'
<1>1. /\ mode = "open" /\ pc = "idle" /\ head \in 1..(MaxBlocks - 1) /\ Len(index) = head
      /\ log' = log \o <<Block(head + 1), Pos(Len(log) + 1)>>
      /\ index' = Append(index, Len(log) + 1)
      /\ head' = head + 1 /\ pc' = "flush"
      /\ UNCHANGED <<lsync, isync, mode, stream, acked>> /\ stream = "good"
  BY DEF append, MayAppend
<1>2. MaxBlocks \in Nat /\ head > 0 /\ head \in Nat
  BY <1>1, BlockLogAssumption
<1>3. /\ log \in Seq(Cells) /\ Len(log) \in Nat /\ DOMAIN log = 1..Len(log)
      /\ log # <<>> /\ isync \in Nat /\ acked \subseteq Nat
      /\ index \in Seq(Nat) /\ DOMAIN index = 1..Len(index)
      /\ log[1] = Version(1)
      /\ \E i \in 3..(Len(log) - 1) : HeadAt(log, head, i)
      /\ \A m \in DOMAIN index : index[m] \in Nat /\ index[m] < Len(log)
      /\ ~TornInside(log) => \A m \in 1..head : index[m] = 2 * m + 1
      /\ lsync = Len(log)
  BY <1>1, <1>2, OpenLog
<1>4. PICK L, h : L = Len(log) /\ h = head
  OBVIOUS
<1>5. PICK p \in 3..(L - 1) : HeadAt(log, h, p)
  BY <1>3, <1>4
<1>6. L \in Nat /\ L > 3 /\ h \in Nat /\ h > 0 /\ p \in Nat /\ p + 1 <= L
  BY <1>2, <1>3, <1>4, <1>5
<1>7. Shape(log) /\ IndexShape(log, index) /\ AckedInv
  BY DEF IInv
<1>8. PICK g : g = log'
  OBVIOUS
<1>9. /\ g \in Seq(Cells) /\ Len(g) = L + 2 /\ DOMAIN g = 1..(L + 2)
      /\ (\A i \in 1..L : g[i] = log[i])
      /\ g[L + 1] = Block(h + 1) /\ g[L + 2] = Pos(L + 1)
  <2>1. PICK t : t = <<Block(h + 1), Pos(L + 1)>>
    OBVIOUS
  <2>2. h + 1 \in Nat /\ L + 1 \in Nat
    BY <1>6
  <2>3. t \in Seq(Cells) /\ Len(t) = 2 /\ t[1] = Block(h + 1) /\ t[2] = Pos(L + 1)
    BY <2>1, <2>2, CellTypes
  <2>4. g = log \o t
    BY <1>1, <1>4, <1>8, <2>1
  <2>5. /\ g \in Seq(Cells) /\ Len(g) = L + 2
        /\ \A i \in 1..(L + 2) : g[i] = IF i <= L THEN log[i] ELSE t[i - L]
    <3>1. log \in Seq(Cells) /\ t \in Seq(Cells)
      BY <1>3, <2>3
    <3>2. /\ log \o t \in Seq(Cells) /\ Len(log \o t) = Len(log) + Len(t)
          /\ \A i \in 1..(Len(log) + Len(t)) :
               (log \o t)[i] = IF i <= Len(log) THEN log[i] ELSE t[i - Len(log)]
      BY <3>1, ConcatProperties
    <3> QED
      BY <1>4, <2>3, <2>4, <3>2
  <2>6. L + 1 \in 1..(L + 2) /\ L + 2 \in 1..(L + 2) /\ (L + 1) - L = 1 /\ (L + 2) - L = 2
        /\ ~(L + 1 <= L) /\ ~(L + 2 <= L) /\ \A i \in 1..L : i \in 1..(L + 2) /\ i <= L
    BY <1>6
  <2> QED
    BY <2>3, <2>5, <2>6, LenProperties
<1>10. PICK x : x = index'
  OBVIOUS
<1>11. /\ x \in Seq(Nat) /\ Len(x) = h + 1 /\ DOMAIN x = 1..(h + 1) /\ x[h + 1] = L + 1
       /\ \A n \in 1..h : x[n] = index[n] /\ index[n] \in Nat /\ index[n] < L /\ n \in DOMAIN index
  <2>1. L + 1 \in Nat
    BY <1>6
  <2>2. x \in Seq(Nat) /\ Len(x) = h + 1 /\ x[h + 1] = L + 1 /\ \A n \in 1..h : x[n] = index[n]
    BY <1>1, <1>3, <1>4, <1>10, <2>1, AppendProperties
  <2> QED
    BY <1>1, <1>3, <1>4, <2>2, LenProperties
<1>12. Shape(g)
  BY <1>4, <1>5, <1>6, <1>7, <1>9, ShapeAppend
<1>13. ASSUME \A i \in 1..L : g[i] # Torn
       PROVE  L + 1 = 2 * (h + 1) + 1 /\ \A m \in 1..(h + 1) : x[m] = 2 * m + 1
  <2>1. \A i \in 1..L : log[i] # Torn
    BY <1>9, <1>13
  <2>2. ~TornInside(log)
    BY <1>3, <1>4, <2>1 DEF TornInside
  <2>3. p + 1 = L
    <3>1. p + 2 <= L => L \in (p + 2)..L /\ L \in 1..L
      BY <1>6
    <3>2. ~(p + 2 <= L)
      BY <1>4, <1>5, <2>1, <3>1 DEF HeadAt
    <3> QED
      BY <1>6, <3>2
  <2>4. p = 2 * h + 1
    <3>1. StoredAt(log, h, p)
      BY <1>4, <1>5, <1>7, <2>2, HeadStored
    <3> QED
      BY <1>4, <1>5, <1>7, <2>1, <2>3, <3>1, InPlace
  <2>5. L + 1 = 2 * (h + 1) + 1
    BY <1>6, <2>3, <2>4
  <2>6. ASSUME NEW m \in 1..(h + 1) PROVE x[m] = 2 * m + 1
    <3>1. m = h + 1 \/ m \in 1..h
      BY <1>6
    <3>2. m = h + 1 => x[m] = 2 * m + 1
      BY <1>11, <2>5
    <3>3. m \in 1..h => x[m] = 2 * m + 1
      BY <1>3, <1>4, <1>11, <2>2
    <3> QED
      BY <3>1, <3>2, <3>3
  <2> QED
    BY <2>5, <2>6
<1>14. IndexShape(g, x)
  <2>1. ASSUME NEW m \in DOMAIN x, NEW n \in DOMAIN x, m < n, x[n] # 0 PROVE x[m] < x[n]
    <3>1. m \in 1..h
      BY <1>6, <1>11, <2>1
    <3>2. CASE n = h + 1
      BY <1>6, <1>11, <3>1, <3>2
    <3>3. CASE n # h + 1
      <4>1. n \in 1..h
        BY <1>6, <1>11, <3>3
      <4>2. x[m] = index[m] /\ x[n] = index[n] /\ m \in DOMAIN index /\ n \in DOMAIN index
        BY <1>11, <3>1, <4>1
      <4> QED
        BY <1>7, <2>1, <4>2 DEF IndexShape
    <3> QED
      BY <3>2, <3>3
  <2>2. ASSUME NEW n \in DOMAIN x, x[n] # 0 PROVE g[x[n]] \in {Block(n), Torn}
    <3>1. CASE n = h + 1
      BY <1>9, <1>11, <3>1
    <3>2. CASE n # h + 1
      <4>1. n \in 1..h
        BY <1>6, <1>11, <3>2
      <4>2. x[n] = index[n] /\ n \in DOMAIN index /\ index[n] \in Nat /\ index[n] < L
        BY <1>11, <4>1
      <4>3. log[index[n]] \in {Block(n), Torn}
        BY <1>4, <1>7, <2>2, <4>2 DEF IndexShape
      <4>4. index[n] \in 1..L
        BY <1>6, <2>2, <4>2
      <4> QED
        BY <1>9, <4>2, <4>3, <4>4
    <3> QED
      BY <3>1, <3>2
  <2>3. ASSUME NEW n \in DOMAIN x, x[n] # 0, \A i \in 1..(x[n] - 1) : g[i] # Torn
        PROVE  \A m \in 1..n : x[m] = 2 * m + 1
    <3>1. CASE n = h + 1
      <4>1. x[n] - 1 = L
        BY <1>6, <1>11, <3>1
      <4>2. \A i \in 1..L : g[i] # Torn
        BY <2>3, <4>1
      <4> QED
        BY <1>13, <3>1, <4>2
    <3>2. CASE n # h + 1
      <4>1. n \in 1..h /\ \A m \in 1..n : m \in 1..h
        BY <1>6, <1>11, <3>2
      <4>2. x[n] = index[n] /\ n \in DOMAIN index /\ index[n] \in Nat /\ index[n] <= L
        BY <1>6, <1>11, <4>1
      <4>3. ASSUME NEW i \in 1..(index[n] - 1) PROVE log[i] # Torn
        <5>1. i \in 1..L /\ i \in 1..(x[n] - 1)
          BY <1>6, <4>2
        <5> QED
          BY <1>9, <2>3, <5>1
      <4>4. \A m \in 1..n : index[m] = 2 * m + 1
        BY <1>4, <1>7, <2>3, <4>2, <4>3 DEF IndexShape
      <4> QED
        BY <1>11, <4>1, <4>4
    <3> QED
      BY <3>1, <3>2
  <2> QED
    BY <1>11, <2>1, <2>2, <2>3 DEF IndexShape
<1>15. OpenInv'
  <2>1. g # <<>> /\ g[1] = Version(1)
    BY <1>3, <1>6, <1>9
  <2>2. /\ L + 1 \in 3..(Len(g) - 1) /\ HeadAt(g, h + 1, L + 1)
        /\ Len(g) - 1 = L + 1 /\ StoredAt(g, h + 1, L + 1)
    <3>1. L + 1 \in 3..(Len(g) - 1) /\ ((L + 1) + 2)..(L + 2) = {} /\ (L + 1) + 1 = L + 2
          /\ Len(g) - 1 = L + 1
      BY <1>6, <1>9
    <3> QED
      BY <1>9, <3>1 DEF HeadAt, StoredAt
  <2>3. \A m \in DOMAIN x : x[m] < Len(g)
    <3>1. ASSUME NEW m \in 1..(h + 1) PROVE x[m] < L + 2
      <4>1. m = h + 1 \/ m \in 1..h
        BY <1>6
      <4>2. L + 1 < L + 2
        BY <1>6
      <4> QED
        BY <1>6, <1>11, <4>1, <4>2
    <3> QED
      BY <1>9, <1>11, <3>1
  <2>4. ASSUME ~TornInside(g) PROVE \A m \in 1..(h + 1) : x[m] = 2 * m + 1
    <3>1. \A i \in 1..L : i \in DOMAIN g /\ i < Len(g)
      BY <1>6, <1>9
    <3>2. \A i \in 1..L : g[i] # Torn
      BY <2>4, <3>1 DEF TornInside
    <3> QED
      BY <1>13, <3>2
  <2>5. h + 1 > 0
    BY <1>6
  <2> QED
    BY <1>1, <1>4, <1>8, <1>10, <1>11, <2>1, <2>2, <2>3, <2>4, <2>5 DEF OpenInv
<1>16. AckedInv'
  <2>1. ASSUME NEW n \in acked PROVE \E i \in 3..(lsync - 1) : StoredAt(g, n, i)
    <3>1. PICK i \in 3..(L - 1) : StoredAt(log, n, i)
      BY <1>3, <1>4, <1>7 DEF AckedInv
    <3>2. StoredAt(g, n, i)
      BY <1>6, <1>9, <3>1, StillStored
    <3> QED
      BY <1>3, <1>4, <3>2
  <2> QED
    BY <1>1, <1>8, <2>1 DEF AckedInv
<1>17. TypeInv'
  <2>1. lsync' \in 0..Len(log')
    BY <1>1, <1>3, <1>4, <1>6, <1>8, <1>9
  <2> QED
    BY <1>1, <1>2, <1>3, <2>1 DEF TypeInv
<1>18. SyncInv'
  <2>1. lsync' = Len(log') - 2
    BY <1>1, <1>3, <1>4, <1>6, <1>8, <1>9
  <2> QED
    BY <1>1, <2>1 DEF SyncInv
<1> QED
  BY <1>1, <1>8, <1>10, <1>12, <1>14, <1>15, <1>16, <1>17, <1>18 DEF IInv

(* append_throws leaves at most a torn cell at the end. *)
LEMMA ThrowStep ==
  ASSUME IInv, append_throws
  PROVE  IInv'
<1>1. /\ mode = "open" /\ pc = "idle" /\ head \in 1..(MaxBlocks - 1)
      /\ \/ log' = Append(log, Torn) /\ lsync' = Len(log) + 1
         \/ UNCHANGED <<log, lsync>>
      /\ stream = "good" /\ stream' = "bad"
      /\ UNCHANGED <<index, isync, mode, head, pc, acked, excuse>>
  BY DEF append_throws, MayAppend
<1>2. MaxBlocks \in Nat /\ head > 0 /\ head \in Nat
  BY <1>1, BlockLogAssumption
<1>3. /\ log \in Seq(Cells) /\ Len(log) \in Nat /\ DOMAIN log = 1..Len(log)
      /\ log # <<>> /\ isync \in Nat /\ acked \subseteq Nat
      /\ log[1] = Version(1)
      /\ \E i \in 3..(Len(log) - 1) : HeadAt(log, head, i)
      /\ \A m \in DOMAIN index : index[m] \in Nat /\ index[m] < Len(log)
      /\ ~TornInside(log) => Len(index) = head /\ \A m \in 1..head : index[m] = 2 * m + 1
      /\ lsync = Len(log)
  BY <1>1, <1>2, OpenLog
<1>4. Shape(log) /\ IndexShape(log, index) /\ AckedInv /\ OpenInv
  BY <1>1 DEF IInv
<1>5. CASE UNCHANGED <<log, lsync>>
  <2>1. SyncInv'
    BY <1>1, <1>3, <1>5 DEF SyncInv
  <2> QED
    BY <1>1, <1>3, <1>5, <2>1 DEF IInv, TypeInv, OpenInv, AckedInv, HeadAt, StoredAt, TornInside
<1>6. CASE log' = Append(log, Torn) /\ lsync' = Len(log) + 1
  <2>1. PICK g, L : g = log' /\ L = Len(log)
    OBVIOUS
  <2>2. g \in Seq(Cells) /\ Len(g) = L + 1 /\ g[L + 1] = Torn /\ \A i \in 1..L : g[i] = log[i]
    BY <1>3, <1>6, <2>1, AppendProperties, CellTypes
  <2>3. L \in Nat /\ L > 3 /\ DOMAIN g = 1..(L + 1)
    BY <1>3, <2>1, <2>2, LenProperties
  <2>4. Cut(log, g, L)
    BY <2>1, <2>2, <2>3 DEF Cut
  <2>5. Shape(g) /\ IndexShape(g, index)
    BY <1>3, <1>4, <2>4, ShapeCut, IndexOfCut
  <2>6. PICK p \in 3..(L - 1) : HeadAt(log, head, p)
    BY <1>3, <2>1
  <2>7. HeadAt(g, head, p)
    <3>1. g[p] \in {Block(head), Torn} /\ g[p + 1] = Pos(p)
      <4>1. p \in 1..L /\ p + 1 \in 1..L
        BY <2>3
      <4> QED
        BY <2>2, <2>6, <4>1 DEF HeadAt
    <3>2. ASSUME NEW j \in (p + 2)..Len(g) PROVE g[j] = Torn
      <4>1. j = L + 1 \/ (j \in (p + 2)..L /\ j \in 1..L)
        BY <2>2, <2>3
      <4> QED
        BY <2>1, <2>2, <2>6, <4>1 DEF HeadAt
    <3> QED
      BY <3>1, <3>2 DEF HeadAt
  <2>8. p \in 3..(Len(g) - 1)
    BY <2>2, <2>3
  <2>9. TornInside(log) => TornInside(g)
    <3>1. \A i \in 1..L : i \in 1..(L + 1) /\ i < L + 1
      BY <2>3
    <3> QED
      BY <1>3, <2>1, <2>2, <2>3, <3>1 DEF TornInside
  <2>10. \A m \in DOMAIN index : index[m] < Len(g)
    <3> SUFFICES ASSUME NEW m \in DOMAIN index PROVE index[m] < Len(g)
      OBVIOUS
    <3>1. index[m] \in Nat /\ index[m] < L
      BY <1>3, <2>1
    <3> QED
      BY <2>2, <2>3, <3>1
  <2>11. g # <<>> /\ g[1] = Version(1)
    BY <1>3, <2>1, <2>2, <2>3
  <2>12. OpenInv'
    BY <1>1, <1>2, <1>3, <2>1, <2>7, <2>8, <2>9, <2>10, <2>11 DEF OpenInv
  <2>13. AckedInv'
    <3>1. ASSUME NEW n \in acked PROVE \E i \in 3..((L + 1) - 1) : StoredAt(g, n, i)
      <4>1. PICK i \in 3..(L - 1) : StoredAt(log, n, i)
        BY <1>3, <1>4, <2>1 DEF AckedInv
      <4>2. StoredAt(g, n, i) /\ i \in 3..((L + 1) - 1)
        BY <2>2, <2>3, <4>1, StillStored
      <4> QED
        BY <4>2
    <3> QED
      BY <1>1, <1>6, <2>1, <3>1 DEF AckedInv
  <2>14. TypeInv'
    <3>1. lsync' = Len(log') /\ lsync' \in 0..Len(log')
      BY <1>6, <2>1, <2>2, <2>3
    <3> QED
      BY <1>1, <1>2, <1>3, <3>1 DEF TypeInv
  <2>15. SyncInv'
    <3>1. lsync' = Len(log') /\ Len(log') \in Nat
      BY <1>6, <2>1, <2>2, <2>3
    <3> QED
      BY <1>1, <3>1 DEF SyncInv
  <2> QED
    BY <1>1, <1>6, <2>1, <2>2, <2>5, <2>11, <2>12, <2>13, <2>14, <2>15 DEF IInv
<1> QED
  BY <1>1, <1>5, <1>6

(* flush and read_block. *)
LEMMA FlushBlockStep ==
  ASSUME IInv, flush_block
  PROVE  IInv'
<1>1. /\ mode = "open" /\ pc = "flush" /\ lsync' = Len(log) /\ pc' = "flush_index"
      /\ UNCHANGED <<log, index, isync, mode, head, stream, acked, excuse>>
  BY DEF flush_block
<1>2. /\ Shape(log) /\ IndexShape(log, index) /\ AckedInv /\ OpenInv /\ TypeInv
      /\ stream = "good"
  BY <1>1 DEF IInv
<1>3. Len(log) \in Nat /\ lsync \in 0..Len(log)
  BY <1>2, ShapeTypes DEF TypeInv
<1>4. AckedInv'
  <2>1. \A i \in 3..(lsync - 1) : i \in 3..(Len(log) - 1)
    BY <1>3
  <2> QED
    BY <1>1, <1>2, <2>1 DEF AckedInv, StoredAt
<1>5. TypeInv' /\ SyncInv'
  BY <1>1, <1>2, <1>3 DEF TypeInv, SyncInv
<1>6. OpenInv'
  BY <1>1, <1>2 DEF OpenInv, HeadAt, StoredAt, TornInside
<1> QED
  BY <1>1, <1>2, <1>4, <1>5, <1>6 DEF IInv

LEMMA FlushIndexStep ==
  ASSUME IInv, flush_index
  PROVE  IInv'
<1>1. /\ mode = "open" /\ pc = "flush_index" /\ isync' = Len(index)
      /\ \/ log[1] = Version(0) /\ pc' = "version" /\ acked' = acked
         \/ log[1] # Version(0) /\ pc' = "idle" /\ acked' = acked \cup {head}
      /\ UNCHANGED <<log, index, lsync, mode, head, stream, excuse>>
  BY DEF flush_index
<1>2. /\ Shape(log) /\ IndexShape(log, index) /\ AckedInv /\ OpenInv /\ TypeInv
      /\ stream = "good"
  BY <1>1 DEF IInv
<1>3. head \in Nat /\ head > 0
  BY <1>1, <1>2 DEF OpenInv, TypeInv
<1>4. /\ Len(log) \in Nat /\ Len(index) \in Nat /\ acked \subseteq Nat /\ lsync = Len(log)
      /\ log # <<>> /\ log[1] \in {Version(0), Version(1)}
      /\ StoredAt(log, head, Len(log) - 1)
      /\ \E i \in 3..(Len(log) - 1) : HeadAt(log, head, i)
      /\ \A m \in DOMAIN index : index[m] < Len(log)
      /\ ~TornInside(log) => Len(index) = head /\ \A m \in 1..head : index[m] = 2 * m + 1
  BY <1>1, <1>2, <1>3, OpenLog
<1>5. AckedInv'
  <2>1. Len(log) - 1 \in 3..(Len(log) - 1)
    BY <1>4
  <2>2. \A n \in acked \cup {head} : \E i \in 3..(Len(log) - 1) : StoredAt(log, n, i)
    BY <1>2, <1>4, <2>1 DEF AckedInv
  <2>3. \A n \in acked' : \E i \in 3..(Len(log) - 1) : StoredAt(log, n, i)
    BY <1>1, <2>2
  <2> QED
    BY <1>1, <1>4, <2>3 DEF AckedInv, StoredAt
<1>6. TypeInv' /\ SyncInv'
  BY <1>1, <1>2, <1>3, <1>4 DEF TypeInv, SyncInv
<1>7. pc' = "idle" => log[1] = Version(1)
  BY <1>1, <1>4
<1>8. OpenInv'
  BY <1>1, <1>3, <1>4, <1>7 DEF OpenInv, HeadAt, StoredAt, TornInside
<1> QED
  BY <1>1, <1>2, <1>4, <1>5, <1>6, <1>8 DEF IInv

(* A flush that fails leaves the last block where it is, or a torn cell in *)
(* its place.                                                              *)
LEMMA FlushThrowsUnchanged ==
  ASSUME IInv, mode = "open", pc \in {"flush", "flush_index"}, log[1] = Version(1),
         pc' = "idle", stream' = "bad",
         UNCHANGED <<log, lsync, index, isync, mode, head, acked, excuse>>
  PROVE  IInv'
<1>1. /\ Shape(log) /\ IndexShape(log, index) /\ AckedInv /\ OpenInv /\ TypeInv
      /\ stream = "good" /\ SyncInv
  BY DEF IInv
<1>2. Len(log) \in Nat /\ log # <<>> /\ head > 0
  BY <1>1, ShapeTypes DEF OpenInv
<1>3. lsync >= Len(log) - 2
  BY <1>1, <1>2 DEF SyncInv
<1>4. TypeInv' /\ SyncInv' /\ AckedInv'
  BY <1>1, <1>3 DEF TypeInv, SyncInv, AckedInv, StoredAt
<1>5. OpenInv'
  BY <1>1, <1>2 DEF OpenInv, HeadAt, StoredAt, TornInside
<1> QED
  BY <1>1, <1>2, <1>4, <1>5 DEF IInv

LEMMA FlushThrowsTorn ==
  ASSUME IInv, mode = "open", pc = "flush", log[1] = Version(1),
         log' = [log EXCEPT ![Len(log) - 1] = Torn], lsync' = Len(log) - 1,
         pc' = "idle", stream' = "bad",
         UNCHANGED <<index, isync, mode, head, acked, excuse>>
  PROVE  IInv'
<1>1. /\ Shape(log) /\ IndexShape(log, index) /\ AckedInv /\ OpenInv /\ TypeInv
      /\ stream = "good" /\ SyncInv
  BY DEF IInv
<1>2. head \in Nat /\ head > 0
  BY <1>1 DEF OpenInv, TypeInv
<1>3. /\ log \in Seq(Cells) /\ Len(log) \in Nat /\ DOMAIN log = 1..Len(log)
      /\ log # <<>> /\ isync \in Nat /\ acked \subseteq Nat
      /\ StoredAt(log, head, Len(log) - 1)
      /\ \E i \in 3..(Len(log) - 1) : HeadAt(log, head, i)
      /\ \A m \in DOMAIN index : index[m] \in Nat /\ index[m] < Len(log)
  BY <1>1, <1>2, OpenLog
<1>4. PICK L : L = Len(log)
  OBVIOUS
<1>5. L \in Nat /\ L > 3 /\ lsync = L - 2 /\ L - 1 \in 1..L /\ (L - 1) + 1 = L
  BY <1>1, <1>3, <1>4 DEF SyncInv
<1>6. log[L - 1] = Block(head) /\ log[L] = Pos(L - 1)
  BY <1>3, <1>4, <1>5 DEF StoredAt
<1>7. PICK g : g = log'
  OBVIOUS
<1>8. /\ g \in Seq(Cells) /\ Len(g) = L /\ DOMAIN g = 1..L /\ g[L - 1] = Torn
      /\ \A i \in 1..L : i # L - 1 => g[i] = log[i]
  <2>1. \A i \in DOMAIN log : log[i] \in Cells
    BY <1>3, ElementOfSeq
  <2>2. g = [j \in 1..L |-> IF j = L - 1 THEN Torn ELSE log[j]]
    BY <1>3, <1>4, <1>7
  <2>3. g \in [1..L -> Cells]
    BY <1>3, <1>4, <2>1, <2>2, CellTypes
  <2>4. g \in Seq(Cells) /\ Len(g) = L
    BY <1>5, <2>3, SeqDef, LenProperties
  <2> QED
    BY <1>5, <2>2, <2>4
<1>9. \A i \in 1..L : g[i] # Torn => g[i] = log[i] /\ i # L - 1
  BY <1>8
<1>10. \A i \in 1..L : g[i].t = "block" => g[i] = log[i] /\ i # L - 1
  BY <1>8, CellsDiffer
<1>11. Shape(g)
  <2>1. 1 \in DOMAIN g => g[1] \in {Version(0), Version(1), Torn}
    <3>1. 1 \in DOMAIN log /\ 1 \in 1..L
      BY <1>3, <1>4, <1>5
    <3>2. log[1] \in {Version(0), Version(1), Torn}
      BY <1>1, <3>1 DEF Shape
    <3> QED
      BY <1>9, <3>1, <3>2
  <2>2. 2 \in DOMAIN g => g[2] \in {GenesisState, Torn}
    <3>1. 2 \in DOMAIN log /\ 2 \in 1..L
      BY <1>3, <1>4, <1>5
    <3>2. log[2] \in {GenesisState, Torn}
      BY <1>1, <3>1 DEF Shape
    <3> QED
      BY <1>9, <3>1, <3>2
  <2>3. ASSUME NEW i \in 3..Len(g) PROVE g[i] = Torn \/ BlockCell(g, i) \/ PosCell(g, i)
    <3>1. i \in 3..Len(log) /\ i \in 1..L /\ i - 1 \in 1..L
      BY <1>4, <1>5, <1>8
    <3>2. SUFFICES ASSUME g[i] # Torn PROVE BlockCell(g, i) \/ PosCell(g, i)
      OBVIOUS
    <3>3. g[i] = log[i] /\ (g[i - 1] = log[i - 1] \/ g[i - 1] = Torn)
      BY <1>9, <3>1, <3>2
    <3>4. BlockCell(log, i) \/ PosCell(log, i)
      BY <1>1, <3>1, <3>2, <3>3 DEF Shape
    <3> QED
      BY <3>3, <3>4 DEF BlockCell, PosCell
  <2>4. ASSUME NEW i \in 3..(Len(g) - 1), g[i].t = "block" PROVE g[i + 1] \in {Pos(i), Torn}
    <3>1. i \in 3..(Len(log) - 1) /\ i \in 1..L /\ i + 1 \in 1..L
      BY <1>4, <1>5, <1>8
    <3>2. g[i] = log[i] /\ (g[i + 1] = log[i + 1] \/ g[i + 1] = Torn)
      BY <1>9, <1>10, <2>4, <3>1
    <3>3. log[i].t = "block"
      BY <2>4, <3>2
    <3>4. log[i + 1] \in {Pos(i), Torn}
      BY <1>1, <3>1, <3>3 DEF Shape
    <3> QED
      BY <3>2, <3>4
  <2>5. ASSUME 3 \in DOMAIN g, g[3].t = "block" PROVE g[3].n = 1
    <3>1. 3 \in DOMAIN log /\ g[3] = log[3]
      BY <1>3, <1>4, <1>8, <1>10, <2>5
    <3> QED
      BY <1>1, <2>5, <3>1 DEF Shape
  <2>6. ASSUME NEW i \in 3..(Len(g) - 2), g[i].t = "block", g[i + 1] = Pos(i), g[i + 2].t = "block"
        PROVE  g[i + 2].n = g[i].n + 1
    <3>1. i \in 3..(Len(log) - 2) /\ i \in 1..L /\ i + 1 \in 1..L /\ i + 2 \in 1..L
      BY <1>4, <1>5, <1>8
    <3>2. g[i + 1] # Torn
      BY <2>6, CellsDiffer
    <3>3. g[i] = log[i] /\ g[i + 1] = log[i + 1] /\ g[i + 2] = log[i + 2]
      BY <1>9, <1>10, <2>6, <3>1, <3>2
    <3>4. log[i].t = "block" /\ log[i + 1] = Pos(i) /\ log[i + 2].t = "block"
      BY <2>6, <3>3
    <3>5. log[i + 2].n = log[i].n + 1
      BY <1>1, <3>1, <3>4 DEF Shape
    <3> QED
      BY <3>3, <3>5
  <2> QED
    BY <1>8, <2>1, <2>2, <2>3, <2>4, <2>5, <2>6 DEF Shape
<1>12. IndexShape(g, index)
  <2>1. /\ index \in Seq(Nat)
        /\ \A m, n \in DOMAIN index : m < n /\ index[n] # 0 => index[m] < index[n]
    BY <1>1 DEF IndexShape
  <2>2. ASSUME NEW n \in DOMAIN index, index[n] # 0 PROVE g[index[n]] \in {Block(n), Torn}
    <3>1. index[n] \in 1..L
      BY <1>3, <1>4, <1>5, <2>2
    <3>2. log[index[n]] \in {Block(n), Torn}
      BY <1>1, <1>3, <2>2 DEF IndexShape
    <3> QED
      BY <1>9, <3>1, <3>2
  <2>3. ASSUME NEW n \in DOMAIN index, index[n] # 0, \A i \in 1..(index[n] - 1) : g[i] # Torn
        PROVE  \A m \in 1..n : index[m] = 2 * m + 1
    <3>1. index[n] \in Nat /\ index[n] <= Len(log)
      BY <1>3
    <3>2. ASSUME NEW i \in 1..(index[n] - 1) PROVE log[i] # Torn
      <4>1. i \in 1..L
        BY <1>4, <1>5, <3>1
      <4> QED
        BY <1>9, <2>3, <4>1
    <3> QED
      BY <1>1, <2>3, <3>1, <3>2 DEF IndexShape
  <2> QED
    BY <2>1, <2>2, <2>3 DEF IndexShape
<1>13. L - 1 \in 3..(Len(g) - 1) /\ HeadAt(g, head, L - 1)
  <2>1. L - 1 \in 3..(Len(g) - 1) /\ ((L - 1) + 2)..L = {} /\ L \in 1..L /\ L # L - 1
    BY <1>5, <1>8
  <2> QED
    BY <1>5, <1>6, <1>8, <2>1 DEF HeadAt
<1>14. TornInside(g)
  <2>1. L - 1 \in DOMAIN g /\ L - 1 < Len(g)
    BY <1>5, <1>8
  <2> QED
    BY <1>8, <2>1 DEF TornInside
<1>15. g # <<>> /\ g[1] = Version(1)
  <2>1. 1 \in 1..L /\ 1 # L - 1
    BY <1>5
  <2> QED
    BY <1>5, <1>8, <2>1, EmptySeq
<1>16. OpenInv'
  <2>1. \A m \in DOMAIN index : index[m] < Len(g)
    BY <1>3, <1>4, <1>8
  <2> QED
    BY <1>2, <1>7, <1>13, <1>14, <1>15, <2>1 DEF OpenInv
<1>17. AckedInv'
  <2>1. \A i \in 3..((L - 2) - 1) : /\ i \in 1..L /\ i + 1 \in 1..L /\ i # L - 1 /\ i + 1 # L - 1
                                    /\ i \in 3..((L - 1) - 1)
    BY <1>5
  <2>2. \A n \in acked : \E i \in 3..((L - 1) - 1) : StoredAt(g, n, i)
    BY <1>1, <1>5, <1>8, <2>1 DEF AckedInv, StoredAt
  <2> QED
    BY <1>4, <1>7, <2>2 DEF AckedInv
<1>18. TypeInv' /\ SyncInv'
  <2>1. lsync' \in 0..Len(log') /\ lsync' >= Len(log') - 2
    BY <1>4, <1>5, <1>7, <1>8
  <2> QED
    BY <1>2, <1>3, <2>1 DEF TypeInv, SyncInv
<1> QED
  BY <1>7, <1>11, <1>12, <1>15, <1>16, <1>17, <1>18 DEF IInv

LEMMA FlushBlockThrowsStep ==
  ASSUME IInv, flush_block_throws
  PROVE  IInv'
<1>1. /\ mode = "open" /\ pc = "flush" /\ log[1] = Version(1) /\ pc' = "idle" /\ stream' = "bad"
      /\ \/ UNCHANGED <<log, lsync>>
         \/ log' = [log EXCEPT ![Len(log) - 1] = Torn] /\ lsync' = Len(log) - 1
      /\ UNCHANGED <<index, isync, mode, head, acked, excuse>>
  BY DEF flush_block_throws, supported_version
<1>2. CASE UNCHANGED <<log, lsync>>
  BY <1>1, <1>2, FlushThrowsUnchanged
<1>3. CASE log' = [log EXCEPT ![Len(log) - 1] = Torn] /\ lsync' = Len(log) - 1
  BY <1>1, <1>3, FlushThrowsTorn
<1> QED
  BY <1>1, <1>2, <1>3

LEMMA FlushIndexThrowsStep ==
  ASSUME IInv, flush_index_throws
  PROVE  IInv'
BY FlushThrowsUnchanged DEF flush_index_throws, supported_version

LEMMA ReadBlockStep ==
  ASSUME IInv, read_block
  PROVE  IInv'
<1>1. /\ mode = "open" /\ pc = "idle" /\ head > 0 /\ stream # "closed"
      /\ lsync' = Len(log) /\ isync' = Len(index) /\ stream' = "good"
      /\ UNCHANGED <<log, index, mode, head, pc, acked, excuse>>
  BY DEF read_block
<1>2. Shape(log) /\ IndexShape(log, index) /\ AckedInv /\ OpenInv /\ TypeInv
  BY <1>1 DEF IInv
<1>3. Len(log) \in Nat /\ Len(index) \in Nat /\ lsync \in 0..Len(log)
  BY <1>1, <1>2, OpenLog DEF TypeInv
<1>4. AckedInv'
  <2>1. \A i \in 3..(lsync - 1) : i \in 3..(Len(log) - 1)
    BY <1>3
  <2> QED
    BY <1>1, <1>2, <2>1 DEF AckedInv, StoredAt
<1>5. TypeInv' /\ SyncInv'
  BY <1>1, <1>2, <1>3 DEF TypeInv, SyncInv
<1>6. OpenInv'
  BY <1>1, <1>2 DEF OpenInv, HeadAt, StoredAt, TornInside
<1> QED
  BY <1>1, <1>2, <1>4, <1>5, <1>6 DEF IInv

(* What a stop, or a stream that cannot be closed in order, leaves of the  *)
(* files.                                                                  *)
LEMMA LogLeft ==
  ASSUME NEW f, NEW x, Shape(f), IndexShape(f, x), NEW k \in 0..Len(f), NEW g \in Remains(f, k)
  PROVE  /\ g \in Seq(Cells) /\ Len(g) \in Nat
         /\ Shape(g) /\ IndexShape(g, x)
         /\ Len(g) >= k /\ (\A i \in 1..k : g[i] = f[i])
         /\ k = Len(f) => g = f
<1>1. f \in Seq(Cells) /\ Len(f) \in Nat /\ k \in Nat /\ k <= Len(f)
  BY ShapeTypes
<1>2. PICK e \in k..Len(f) : Cut(f, g, e) /\ (Len(g) = e \/ e < Len(f))
  BY <1>1, RemainsCut
<1>3. g \in Seq(Cells) /\ (Len(g) = e \/ Len(g) = e + 1) /\ \A i \in 1..e : g[i] = f[i]
  BY <1>2 DEF Cut
<1>4. e \in Nat /\ k <= e /\ e <= Len(f) /\ Len(g) \in Nat
  BY <1>1, <1>3, LenProperties
<1>5. Len(g) <= Len(f) /\ k <= Len(g)
  BY <1>1, <1>2, <1>3, <1>4
<1>6. Shape(g)
  BY <1>2, ShapeCut
<1>7. IndexShape(g, x)
  BY <1>2, <1>5, IndexOfCut
<1>8. \A i \in 1..k : g[i] = f[i]
  <2>1. \A i \in 1..k : i \in 1..e
    BY <1>1, <1>4
  <2> QED
    BY <1>3, <2>1
<1>9. ASSUME k = Len(f) PROVE g = f
  <2>1. Len(g) = Len(f)
    BY <1>1, <1>4, <1>5, <1>9
  <2> QED
    BY <1>1, <1>3, <1>8, <1>9, <2>1, SeqEqual
<1> QED
  BY <1>1, <1>3, <1>4, <1>5, <1>6, <1>7, <1>8, <1>9

(* The acknowledged blocks are in what the stream has passed on. *)
LEMMA AckedLeft ==
  ASSUME AckedInv, lsync \in Nat, NEW g, Len(g) \in Nat, Len(g) >= lsync,
         \A i \in 1..lsync : g[i] = log[i]
  PROVE  \A n \in acked : \E i \in 3..(Len(g) - 1) : StoredAt(g, n, i)
<1>1. ASSUME NEW n \in acked PROVE \E i \in 3..(Len(g) - 1) : StoredAt(g, n, i)
  <2>1. PICK i \in 3..(lsync - 1) : StoredAt(log, n, i)
    BY DEF AckedInv
  <2>2. StoredAt(g, n, i)
    BY <2>1, StillStored
  <2>3. i \in 3..(Len(g) - 1)
    OBVIOUS
  <2> QED
    BY <2>2, <2>3
<1> QED
  BY <1>1

LEMMA ReadBlockThrowsStep ==
  ASSUME IInv, read_block_throws
  PROVE  IInv'
<1>1. /\ mode = "open" /\ pc = "idle" /\ head > 0 /\ stream # "closed" /\ stream' = "closed"
      /\ \/ /\ index' \in RemainsOfIndex(index, isync) /\ isync' = Len(index')
            /\ UNCHANGED <<log, lsync>>
         \/ /\ isync' = Len(index)
            /\ log' \in Remains(log, lsync) /\ lsync' = Len(log')
            /\ UNCHANGED index
      /\ UNCHANGED <<mode, head, pc, acked, excuse>>
  BY DEF read_block_throws, PassedOn
<1>2. Shape(log) /\ IndexShape(log, index) /\ AckedInv /\ TypeInv /\ SyncInv
  BY DEF IInv
<1>3. /\ Len(log) \in Nat /\ Len(index) \in Nat /\ isync \in Nat /\ log # <<>>
      /\ \E i \in 3..(Len(log) - 1) : HeadAt(log, head, i)
  BY <1>1, OpenLog
<1>4. lsync \in 0..Len(log) /\ lsync \in Nat /\ lsync >= Len(log) - 2 /\ Len(log) > 3
  BY <1>1, <1>2, <1>3 DEF TypeInv, SyncInv
<1>5. CASE /\ index' \in RemainsOfIndex(index, isync) /\ isync' = Len(index')
           /\ UNCHANGED <<log, lsync>>
  <2>1. IndexShape(log, index') /\ Len(index') \in Nat
    BY <1>2, <1>3, <1>5, IndexRemains
  <2>2. TypeInv' /\ SyncInv' /\ AckedInv'
    BY <1>1, <1>2, <1>4, <1>5, <2>1 DEF TypeInv, SyncInv, AckedInv, StoredAt
  <2> QED
    BY <1>1, <1>2, <1>3, <1>5, <2>1, <2>2 DEF IInv
<1>6. CASE /\ isync' = Len(index)
           /\ log' \in Remains(log, lsync) /\ lsync' = Len(log')
           /\ UNCHANGED index
  <2>1. /\ log' \in Seq(Cells) /\ Len(log') \in Nat /\ Shape(log') /\ IndexShape(log', index)
        /\ Len(log') >= lsync /\ (\A i \in 1..lsync : log'[i] = log[i])
    BY <1>2, <1>4, <1>6, LogLeft
  <2>2. \A n \in acked : \E i \in 3..(Len(log') - 1) : StoredAt(log', n, i)
    BY <1>2, <1>4, <2>1, AckedLeft
  <2>3. AckedInv'
    BY <1>1, <1>6, <2>2 DEF AckedInv, StoredAt
  <2>4. TypeInv' /\ SyncInv'
    BY <1>1, <1>2, <1>3, <1>6, <2>1 DEF TypeInv, SyncInv
  <2>5. log' # <<>>
    <3>1. Len(log') # 0
      BY <1>3, <1>4, <2>1
    <3> QED
      BY <3>1, EmptySeq
  <2> QED
    BY <1>1, <1>6, <2>1, <2>3, <2>4, <2>5 DEF IInv
<1> QED
  BY <1>1, <1>5, <1>6

LEMMA CrashStep ==
  ASSUME IInv, crash
  PROVE  IInv'
<1>1. /\ mode = "open" /\ log' \in Remains(log, lsync) /\ index' \in RemainsOfIndex(index, isync)
      /\ index' # <<0>>
      /\ lsync' = Len(log') /\ isync' = Len(index')
      /\ mode' = "down" /\ head' = 0 /\ pc' = "idle" /\ stream' = "good" /\ acked' = acked
      /\ excuse' = (excuse \/ pc # "idle" \/ stream # "good" \/ \E i \in DOMAIN log : log[i] = Torn)
  BY DEF crash, Stopped, PassedOn
<1>2. /\ Shape(log) /\ IndexShape(log, index) /\ AckedInv /\ TypeInv
      /\ pc # "flush" /\ stream = "good" => lsync = Len(log)
      /\ stream = "good" => OpenInv
  BY <1>1 DEF IInv, SyncInv
<1>3. lsync \in 0..Len(log) /\ lsync \in Nat /\ isync \in Nat /\ acked \subseteq Nat
  BY <1>2, ShapeTypes DEF TypeInv
<1>4. /\ log' \in Seq(Cells) /\ Len(log') \in Nat
      /\ Shape(log') /\ IndexShape(log', index)
      /\ Len(log') >= lsync /\ (\A i \in 1..lsync : log'[i] = log[i])
      /\ lsync = Len(log) => log' = log
  BY <1>1, <1>2, <1>3, LogLeft
<1>5. IndexShape(log', index') /\ Len(index') \in Nat
  BY <1>1, <1>3, <1>4, IndexRemains
<1>6. AckedInv'
  <2>1. \A n \in acked : \E i \in 3..(Len(log') - 1) : StoredAt(log', n, i)
    BY <1>2, <1>3, <1>4, AckedLeft
  <2> QED
    BY <1>1, <2>1 DEF AckedInv, StoredAt
<1>7. ASSUME ~excuse' PROVE Openable(log')
  <2>1. pc = "idle" /\ stream = "good" /\ ~(\E i \in DOMAIN log : log[i] = Torn)
    BY <1>1, <1>7
  <2>2. log' = log /\ OpenInv
    BY <1>2, <1>4, <2>1
  <2>3. CASE log = <<>>
    BY <2>2, <2>3 DEF Openable
  <2>4. CASE log # <<>>
    <3>1. log[1] = Version(1) /\ head > 0 /\ \E i \in 3..(Len(log) - 1) : HeadAt(log, head, i)
      BY <2>1, <2>2, <2>4 DEF OpenInv
    <3>2. PICK p \in 3..(Len(log) - 1) : HeadAt(log, head, p)
      BY <3>1
    <3>3. log \in Seq(Cells) /\ Len(log) \in Nat /\ DOMAIN log = 1..Len(log)
      BY <1>2, ShapeTypes
    <3>4. p = Len(log) - 1 /\ Len(log) > 1
      <4>1. p + 2 <= Len(log) => Len(log) \in (p + 2)..Len(log) /\ Len(log) \in DOMAIN log
        BY <3>3
      <4>2. ~(p + 2 <= Len(log))
        BY <2>1, <3>2, <4>1 DEF HeadAt
      <4>3. \A L \in Nat : \A i \in 3..(L - 1) : ~(i + 2 <= L) => i = L - 1 /\ L > 1
        OBVIOUS
      <4> QED
        BY <3>3, <4>2, <4>3
    <3>5. ~TornInside(log)
      BY <2>1 DEF TornInside
    <3>6. StoredAt(log, head, p)
      BY <1>2, <3>2, <3>5, HeadStored
    <3>7. read_head(log) = {head}
      BY <3>3, <3>4, <3>6, HeadRead
    <3>8. head # 0
      BY <1>2, <3>1 DEF TypeInv
    <3> QED
      BY <2>2, <3>1, <3>5, <3>7, <3>8 DEF Openable
  <2> QED
    BY <2>3, <2>4
<1>8. TypeInv' /\ SyncInv'
  BY <1>1, <1>3, <1>4, <1>5 DEF TypeInv, SyncInv
<1> QED
  BY <1>1, <1>4, <1>5, <1>6, <1>7, <1>8 DEF IInv

(* What the walk finds of the acknowledged blocks. *)
LEMMA AckedWalked ==
  ASSUME NEW f, Shape(f)
  PROVE  \A n \in 1..Walked(f) : \E i \in 3..(Len(f) - 1) : StoredAt(f, n, i)
<1>1. Walked(f) \in Nat /\ \A m \in 1..Walked(f) : 2 * m + 2 <= Len(f) /\ StoredAt(f, m, 2 * m + 1)
  BY PositionsShape
<1>2. Len(f) \in Nat
  BY ShapeTypes
<1>3. ASSUME NEW n \in 1..Walked(f) PROVE \E i \in 3..(Len(f) - 1) : StoredAt(f, n, i)
  <2>1. 2 * n + 2 <= Len(f) /\ StoredAt(f, n, 2 * n + 1)
    BY <1>1
  <2>2. 2 * n + 1 \in 3..(Len(f) - 1)
    BY <1>1, <1>2, <2>1
  <2> QED
    BY <2>1, <2>2
<1> QED
  BY <1>3

LEMMA PowerStep ==
  ASSUME IInv, power_loss
  PROVE  IInv'
<1>1. /\ mode = "open" /\ log' \in Remains(log, 0) /\ index' \in RemainsOfIndex(index, 0)
      /\ lsync' = Len(log') /\ isync' = Len(index')
      /\ mode' = "down" /\ head' = 0 /\ pc' = "idle" /\ stream' = "good"
      /\ acked' = acked \cap 1..Walked(log')
      /\ excuse' = TRUE
  BY DEF power_loss, Stopped
<1>2. Shape(log) /\ IndexShape(log, index) /\ TypeInv
  BY DEF IInv
<1>3. 0 \in 0..Len(log) /\ acked \subseteq Nat
  BY <1>2, ShapeTypes DEF TypeInv
<1>4. Len(log') \in Nat /\ Shape(log') /\ IndexShape(log', index)
  BY <1>1, <1>2, <1>3, LogLeft
<1>5. Len(index') \in Nat /\ IndexShape(log', index')
  BY <1>1, <1>4, IndexRemains
<1>6. acked' \subseteq Nat /\ \A n \in acked' : \E i \in 3..(Len(log') - 1) : StoredAt(log', n, i)
  BY <1>1, <1>3, <1>4, AckedWalked
<1>7. AckedInv'
  BY <1>1, <1>6 DEF AckedInv, StoredAt
<1>8. TypeInv' /\ SyncInv'
  BY <1>1, <1>4, <1>5, <1>6 DEF TypeInv, SyncInv
<1> QED
  BY <1>1, <1>4, <1>5, <1>7, <1>8 DEF IInv

(* What repair_log makes of a log: a part that ends after a block. *)
LEMMA RecoveredFacts ==
  ASSUME NEW f, Shape(f), Header(f), NEW t \in Nat
  PROVE  \E n \in 0..Walked(f) :
           /\ n = IF t = 0 THEN Walked(f) ELSE MinOf(Walked(f), t)
           /\ 2 + 2 * n \in 2..Len(f)
           /\ Cut(f, recovered(f, t), 2 + 2 * n) /\ Len(recovered(f, t)) = 2 + 2 * n
           /\ Shape(recovered(f, t))
<1>1. /\ Walked(f) \in Nat
      /\ \A m \in 1..Walked(f) : 2 * m + 2 <= Len(f)
  BY PositionsShape
<1>2. f \in Seq(Cells) /\ Len(f) \in Nat /\ Len(f) >= 2 /\ DOMAIN f = 1..Len(f)
  BY ShapeTypes DEF Header
<1>3. PICK n : n = IF t = 0 THEN Walked(f) ELSE MinOf(Walked(f), t)
  OBVIOUS
<1>4. n \in Nat /\ n <= Walked(f)
  BY <1>1, <1>3 DEF MinOf
<1>5. 2 + 2 * n \in Nat /\ 2 + 2 * n <= Len(f)
  <2>1. CASE n = 0
    BY <1>2, <2>1
  <2>2. CASE n # 0
    <3>1. n \in 1..Walked(f)
      BY <1>1, <1>4, <2>2
    <3>2. 2 * n + 2 <= Len(f)
      BY <1>1, <3>1
    <3> QED
      BY <1>2, <1>4, <3>2
  <2> QED
    BY <2>1, <2>2
<1>6. PICK e \in Nat : e = 2 + 2 * n
  BY <1>5
<1>7. recovered(f, t) = SubSeq(f, 1, e)
  BY <1>3, <1>6 DEF recovered
<1>8. \A i \in 1..e : f[i] \in Cells
  <2>1. \A i \in 1..e : i \in 1..Len(f)
    BY <1>2, <1>5, <1>6
  <2> QED
    BY <1>2, <2>1, ElementOfSeq
<1>9. /\ SubSeq(f, 1, e) \in Seq(Cells) /\ Len(SubSeq(f, 1, e)) = e
      /\ \A i \in 1..e : SubSeq(f, 1, e)[i] = f[i]
  BY <1>2, <1>5, <1>6, <1>8, SubSeqProperties
<1>10. Cut(f, SubSeq(f, 1, e), e)
  BY <1>2, <1>5, <1>6, <1>9 DEF Cut
<1>11. Shape(SubSeq(f, 1, e))
  BY <1>10, ShapeCut
<1>12. n \in 0..Walked(f) /\ 2 + 2 * n \in 2..Len(f)
  BY <1>1, <1>2, <1>4, <1>5
<1> QED
  BY <1>3, <1>6, <1>7, <1>9, <1>10, <1>11, <1>12

(* A block that is stored in a log that is not torn inside is reached by   *)
(* the walk.                                                               *)
LEMMA StoredWalked ==
  ASSUME NEW f, Shape(f), ~TornInside(f), NEW n \in Nat, NEW i \in 3..(Len(f) - 1), StoredAt(f, n, i)
  PROVE  n > 0 /\ n <= Walked(f) /\ i = 2 * n + 1
<1>1. f \in Seq(Cells) /\ Len(f) \in Nat /\ DOMAIN f = 1..Len(f)
  BY ShapeTypes
<1>2. ASSUME NEW j \in 1..(i + 1) PROVE f[j] # Torn
  <2>1. j \in DOMAIN f /\ (j < Len(f) \/ j = i + 1)
    BY <1>1
  <2>2. f[i + 1] # Torn
    BY CellsDiffer DEF StoredAt
  <2> QED
    BY <1>2, <2>1, <2>2 DEF TornInside
<1>3. n > 0 /\ i = 2 * n + 1 /\ \A m \in 1..n : Whole(f, m)
  BY <1>2, InPlace
<1> QED
  BY <1>1, <1>3, WalkedAll

(* A log that ends after its n-th block can be opened. *)
LEMMA RecoveredOpens ==
  ASSUME NEW f, Shape(f), Header(f), NEW n \in 1..Walked(f), NEW g, Cut(f, g, 2 + 2 * n), Len(g) = 2 + 2 * n
  PROVE  Openable(g)
<1>1. /\ Walked(f) \in Nat
      /\ \A m \in 1..Walked(f) : 2 * m + 2 <= Len(f) /\ StoredAt(f, m, 2 * m + 1)
  BY PositionsShape
<1>2. n \in Nat /\ n >= 1 /\ n <= Walked(f)
  BY <1>1
<1>3. PICK e \in Nat : e = 2 + 2 * n
  BY <1>2
<1>4. g \in Seq(Cells) /\ Len(g) = e /\ DOMAIN g = 1..e /\ \A i \in 1..e : g[i] = f[i]
  <2>1. g \in Seq(Cells) /\ \A i \in 1..e : g[i] = f[i]
    BY <1>3 DEF Cut
  <2> QED
    BY <1>3, <2>1, LenProperties
<1>5. ASSUME NEW m \in 1..n
      PROVE  g[2 * m + 1] = Block(m) /\ g[2 * m + 2] = Pos(2 * m + 1)
  <2>0. m \in Nat /\ 1 <= m /\ m <= n
    BY <1>2
  <2>1. m \in 1..Walked(f) /\ 2 * m + 1 \in 1..e /\ 2 * m + 2 \in 1..e /\ (2 * m + 1) + 1 = 2 * m + 2
    <3>1. m \in 1..Walked(f)
      BY <1>1, <1>2, <2>0
    <3>2. 2 * m + 2 <= e
      BY <1>2, <1>3, <2>0
    <3> QED
      BY <2>0, <3>1, <3>2
  <2>2. StoredAt(f, m, 2 * m + 1)
    BY <1>1, <2>1
  <2> QED
    BY <1>4, <2>1, <2>2 DEF StoredAt
<1>6. g[1] = Version(1) /\ g[2] = GenesisState
  <2>1. 1 \in 1..e /\ 2 \in 1..e
    BY <1>2, <1>3
  <2> QED
    BY <1>4, <2>1 DEF Header, supported_version
<1>7. 0 \notin read_head(g)
  <2>1. n \in 1..n /\ 2 * n + 1 = e - 1 /\ 2 * n + 2 = e /\ e > 1 /\ (e - 1) + 1 = e
    BY <1>2, <1>3
  <2>2. StoredAt(g, n, e - 1)
    BY <1>5, <2>1 DEF StoredAt
  <2>3. read_head(g) = {n}
    BY <1>4, <2>1, <2>2, HeadRead
  <2> QED
    BY <1>2, <2>3
<1>8. ASSUME NEW i \in 1..e PROVE g[i] # Torn
  <2>1. CASE i < 3
    <3>1. i = 1 \/ i = 2
      BY <1>3, <2>1
    <3> QED
      BY <1>6, <3>1, CellsDiffer
  <2>2. CASE i >= 3
    <3>0. i \in Nat
      OBVIOUS
    <3>1. PICK m \in Nat \ {0} : i = 2 * m + 1 \/ i = 2 * m + 2
      BY <2>2, <3>0, OddOrEven
    <3>2. m \in 1..n
      BY <1>2, <1>3, <3>1
    <3>3. g[2 * m + 1].t = "block" /\ g[2 * m + 2].t = "pos"
      BY <1>5, <3>2, CellsDiffer
    <3>4. g[i].t = "block" \/ g[i].t = "pos"
      BY <3>1, <3>3
    <3> QED
      BY <3>4, CellsDiffer
  <2> QED
    BY <1>3, <2>1, <2>2
<1>9. ~TornInside(g)
  BY <1>4, <1>8 DEF TornInside
<1> QED
  BY <1>6, <1>7, <1>9 DEF Openable

(* A log that replaces the one that was there. *)
LEMMA ReplacedStep ==
  ASSUME IInv, mode \in {"down", "failed"}, NEW f, Replaced(f), Shape(f), acked' \subseteq Nat,
         \A n \in acked' : \E i \in 3..(Len(f) - 1) : StoredAt(f, n, i),
         ~excuse' => Openable(f)
  PROVE  IInv'
<1>1. /\ log' = f /\ lsync' = Len(f) /\ index' = <<>> /\ isync' = 0 /\ mode' = "down"
      /\ head' = head /\ pc' = pc /\ stream' = stream
  BY DEF Replaced
<1>2. pc = "idle" /\ stream = "good" /\ head \in Nat /\ Len(f) \in Nat
  BY ShapeTypes DEF IInv, TypeInv
<1>3. TypeInv' /\ SyncInv'
  BY <1>1, <1>2 DEF TypeInv, SyncInv
<1>4. AckedInv'
  BY <1>1 DEF AckedInv
<1>5. index' # <<0>>
  BY <1>1
<1> QED
  BY <1>1, <1>2, <1>3, <1>4, <1>5, Empty DEF IInv

LEMMA EmptiedStep ==
  ASSUME IInv, mode \in {"down", "failed"}, Replaced(<<>>), acked' = {}
  PROVE  IInv'
<1>1. Openable(<<>>) /\ Shape(<<>>)
  BY Empty DEF Openable
<1> QED
  BY <1>1, ReplacedStep

LEMMA RepairStep ==
  ASSUME IInv, NEW t \in 0..MaxBlocks, repair_log(t)
  PROVE  IInv'
<1>1. t \in Nat /\ mode \in {"down", "failed"}
  BY BlockLogAssumption DEF repair_log
<1>2. Shape(log) /\ AckedInv /\ acked \subseteq Nat /\ lsync = Len(log)
  BY <1>1 DEF IInv, TypeInv, SyncInv
<1>3. CASE Replaced(<<>>) /\ acked' = {}
  BY <1>1, <1>3, EmptiedStep
<1>4. ASSUME Header(log) PROVE Len(log) \in Nat /\ Walked(log) \in Nat
  BY <1>2, PositionsShape, ShapeTypes
<1>5. CASE /\ Header(log)
           /\ Replaced(recovered(log, t))
           /\ acked' = IF TornInside(log) THEN acked \cap 1..Walked(log')
                       ELSE IF t = 0 THEN acked ELSE acked \cap 1..t
           /\ excuse' = (Walked(log) = 0)
  <2>1. PICK n \in 0..Walked(log) :
           /\ n = IF t = 0 THEN Walked(log) ELSE MinOf(Walked(log), t)
           /\ 2 + 2 * n \in 2..Len(log)
           /\ Cut(log, recovered(log, t), 2 + 2 * n) /\ Len(recovered(log, t)) = 2 + 2 * n
           /\ Shape(recovered(log, t))
    BY <1>1, <1>2, <1>5, RecoveredFacts
  <2>2. PICK g : g = recovered(log, t)
    OBVIOUS
  <2>3. log' = g
    BY <1>5, <2>2 DEF Replaced
  <2>4. Walked(log) \in Nat /\ Len(log) \in Nat /\ n \in Nat /\ n <= Walked(log)
    BY <1>4, <1>5
  <2>5. ASSUME ~excuse' PROVE Openable(g)
    <3>1. Walked(log) # 0
      BY <1>5, <2>5
    <3>2. n \in 1..Walked(log)
      BY <1>1, <2>1, <2>4, <3>1 DEF MinOf
    <3> QED
      BY <1>2, <1>5, <2>1, <2>2, <3>2, RecoveredOpens
  <2>6. acked' \subseteq Nat /\ \A m \in acked' : \E i \in 3..(Len(g) - 1) : StoredAt(g, m, i)
    <3>1. CASE TornInside(log)
      <4>1. acked' = acked \cap 1..Walked(g)
        BY <1>5, <2>3, <3>1
      <4> QED
        BY <1>2, <2>1, <2>2, <4>1, AckedWalked
    <3>2. CASE ~TornInside(log)
      <4>1. acked' = IF t = 0 THEN acked ELSE acked \cap 1..t
        BY <1>5, <3>2
      <4>2. acked' \subseteq acked /\ (t # 0 => acked' \subseteq 1..t)
        BY <4>1
      <4>3. ASSUME NEW m \in acked' PROVE \E i \in 3..(Len(g) - 1) : StoredAt(g, m, i)
        <5>1. m \in acked /\ m \in Nat /\ (t # 0 => m <= t)
          BY <1>1, <1>2, <4>2
        <5>2. PICK i \in 3..(Len(log) - 1) : StoredAt(log, m, i)
          BY <1>2, <5>1 DEF AckedInv
        <5>3. m > 0 /\ m <= Walked(log) /\ i = 2 * m + 1
          BY <1>2, <3>2, <5>1, <5>2, StoredWalked
        <5>4. m <= n
          BY <1>1, <2>1, <2>4, <5>1, <5>3 DEF MinOf
        <5>5. PICK e : e = 2 + 2 * n
          OBVIOUS
        <5>6. e \in Nat /\ i \in 3..(e - 1) /\ Len(g) = e /\ \A j \in 1..e : g[j] = log[j]
          BY <2>1, <2>2, <2>4, <5>1, <5>3, <5>4, <5>5, SMTT(60) DEF Cut
        <5>7. StoredAt(g, m, i)
          BY <5>2, <5>6, StillStored
        <5> QED
          BY <5>6, <5>7
      <4> QED
        BY <1>2, <4>2, <4>3
    <3> QED
      BY <3>1, <3>2
  <2> QED
    BY <1>1, <1>5, <2>1, <2>2, <2>5, <2>6, ReplacedStep
<1>6. CASE /\ Header(log)
           /\ \E f \in Remains(recovered(log, t), 0) :
                Replaced(f) /\ acked' = acked \cap 1..Walked(f)
           /\ excuse' = TRUE
  <2>1. PICK f \in Remains(recovered(log, t), 0) : Replaced(f) /\ acked' = acked \cap 1..Walked(f)
    BY <1>6
  <2>2. Shape(recovered(log, t))
    BY <1>1, <1>2, <1>6, RecoveredFacts
  <2>3. recovered(log, t) \in Seq(Cells) /\ 0 \in 0..Len(recovered(log, t))
    BY <2>2, ShapeTypes
  <2>4. PICK e \in 0..Len(recovered(log, t)) : Cut(recovered(log, t), f, e)
    BY <2>1, <2>3, RemainsCut
  <2>5. Shape(f)
    BY <2>2, <2>4, ShapeCut
  <2>6. acked' \subseteq Nat /\ \A m \in acked' : \E i \in 3..(Len(f) - 1) : StoredAt(f, m, i)
    BY <1>2, <2>1, <2>5, AckedWalked
  <2> QED
    BY <1>1, <1>6, <2>1, <2>5, <2>6, ReplacedStep
<1> QED
  BY <1>3, <1>5, <1>6 DEF repair_log

LEMMA Preserved == IInv /\ [Next]_vars => IInv'
<1> SUFFICES ASSUME IInv, [Next]_vars PROVE IInv'
  OBVIOUS
<1>1. CASE open
  BY <1>1, OpenStep
<1>2. CASE reset_to_genesis
  BY <1>2, GenesisStep
<1>3. CASE write_version
  BY <1>3, VersionStep
<1>4. CASE append
  BY <1>4, AppendStep
<1>5. CASE append_throws
  BY <1>5, ThrowStep
<1>6. CASE flush_block
  BY <1>6, FlushBlockStep
<1>7. CASE flush_index
  BY <1>7, FlushIndexStep
<1>8. CASE read_block
  BY <1>8, ReadBlockStep
<1>9. CASE crash
  BY <1>9, CrashStep
<1>10. CASE power_loss
  BY <1>10, PowerStep
<1>11. CASE \E n \in 0..MaxBlocks : repair_log(n)
  BY <1>11, RepairStep
<1>12. CASE delete_all_blocks
  BY <1>12, EmptiedStep DEF delete_all_blocks
<1>13. CASE flush_block_throws
  BY <1>13, FlushBlockThrowsStep
<1>14. CASE flush_index_throws
  BY <1>14, FlushIndexThrowsStep
<1>15. CASE read_block_throws
  BY <1>15, ReadBlockThrowsStep
<1>16. CASE UNCHANGED vars
  <2>1. UNCHANGED <<log, index, lsync, isync, mode, head, pc, stream, acked, excuse>>
    BY <1>16 DEF vars, files
  <2> QED
    BY <2>1 DEF IInv, TypeInv, SyncInv, OpenInv, AckedInv, HeadAt, StoredAt, TornInside
<1> QED
  BY <1>1, <1>2, <1>3, <1>4, <1>5, <1>6, <1>7, <1>8, <1>9, <1>10, <1>11, <1>12, <1>13, <1>14,
     <1>15, <1>16 DEF Next

-------------------------------------------------------------------------------
(* The invariant of the log and its index. *)
THEOREM Invariance == Spec => []IInv
BY Started, Preserved, PTL DEF Spec

(* Whatever stopped the node before and whatever write or flush failed, in *)
(* a log that is open each block up to the head is found by                *)
(* read_block_by_num, and the next append takes the next entry of the      *)
(* index, unless the log is torn inside or its files could not be closed.  *)
THEOREM IndexFindsBlocks == Spec => []IndexExact
<1>1. IInv => IndexExact
  <2> SUFFICES ASSUME IInv, mode = "open", stream # "closed", ~TornInside(log)
               PROVE  Len(index) = head /\ \A n \in 1..head : read_block_by_num(n) = n
    BY DEF IndexExact
  <2>1. OpenInv /\ TypeInv /\ Shape(log) /\ IndexShape(log, index)
    BY DEF IInv
  <2>2. CASE log = <<>> /\ index = <<>> /\ head = 0
    BY <2>2, EmptySeq
  <2>3. CASE head > 0
    <3>1. /\ Len(log) \in Nat /\ DOMAIN log = 1..Len(log) /\ head \in Nat
          /\ DOMAIN index = 1..Len(index)
          /\ (\A m \in DOMAIN index : index[m] \in Nat /\ index[m] < Len(log))
          /\ Len(index) = head /\ (\A m \in 1..head : index[m] = 2 * m + 1)
      BY <2>3, OpenLog
    <3>2. ASSUME NEW n \in 1..head PROVE read_block_by_num(n) = n
      <4>1. n \in DOMAIN index /\ n <= Len(index) /\ index[n] # 0 /\ index[n] < Len(log)
            /\ index[n] \in Nat
        BY <3>1
      <4>2. index[n] \in DOMAIN log
        BY <3>1, <4>1
      <4>3. log[index[n]] # Torn
        BY <4>1, <4>2 DEF TornInside
      <4>4. log[index[n]] = Block(n)
        BY <2>1, <4>1, <4>3 DEF IndexShape
      <4> QED
        BY <4>1, <4>2, <4>4 DEF read_block_by_num
    <3> QED
      BY <3>1, <3>2
  <2> QED
    BY <2>1, <2>2, <2>3 DEF OpenInv
<1> QED
  BY <1>1, Invariance, PTL

(* A block whose append has returned stays in the log through every crash, *)
(* reopening and repair, but for a loss of power.                          *)
THEOREM BlocksKept == Spec => []AcknowledgedKept
<1>1. IInv => AcknowledgedKept
  <2> SUFFICES ASSUME IInv, NEW n \in acked
               PROVE  \E i \in DOMAIN log : i < Len(log) /\ log[i] = Block(n) /\ log[i + 1] = Pos(i)
    BY DEF AcknowledgedKept
  <2>1. Shape(log) /\ AckedInv /\ lsync \in 0..Len(log)
    BY DEF IInv, TypeInv
  <2>2. Len(log) \in Nat /\ DOMAIN log = 1..Len(log)
    BY <2>1, ShapeTypes
  <2>3. PICK i \in 3..(lsync - 1) : StoredAt(log, n, i)
    BY <2>1 DEF AckedInv
  <2>4. i \in DOMAIN log /\ i < Len(log)
    BY <2>1, <2>2
  <2> QED
    BY <2>3, <2>4 DEF StoredAt
<1> QED
  BY <1>1, Invariance, PTL

(* open does not throw on a log that was closed in order, that a crash     *)
(* left while nothing was being written, or that repair_log made of one    *)
(* with a block.                                                           *)
THEOREM OpensAgain == Spec => []OpensAfterStop
<1>1. IInv => OpensAfterStop
  BY DEF IInv, OpensAfterStop
<1> QED
  BY <1>1, Invariance, PTL
===============================================================================
