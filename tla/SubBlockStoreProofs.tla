-------------------------- MODULE SubBlockStoreProofs --------------------------
(***************************************************************************)
(* Proofs about the backup of sub blocks, for any blocks, sizes and        *)
(* numbers of files, failures, restarts and power losses: that a restart   *)
(* in order loses no entry of the index but those whose own write failed   *)
(* (RestartKeepsIndex), and that in the first run of the process no block  *)
(* is stored over another one (PlacesDisjoint) and each can be served      *)
(* (ServesInFirstRun).                                                     *)
(*                                                                         *)
(* The argument.  IndexInv: an entry of the index is dirty, or was dropped *)
(* by a write that failed, or is in the database; and an entry of the      *)
(* database is the one of the index.  So what a flush saves is the index   *)
(* without the dropped entries, and what a restart loads is part of it,    *)
(* with all that was neither dirty nor dropped.  PlacesInv:                *)
(* in the first run the cells of each known block hold that block, below   *)
(* the size that is recorded for its file; new blocks go above that size,  *)
(* and the file that is left is truncated to it.                           *)
(***************************************************************************)
EXTENDS SubBlockStore, FiniteSetTheorems, SequenceTheorems, WellFoundedInduction, TLAPS

CellValues == [block : SubBlocks \cup {""}, part : Nat]
Contents == [Files -> [Cells -> CellValues]]

(* The index in memory and in the database. *)
IndexInv ==
  /\ mapSubBlockIndex = [b \in Known |-> mapSubBlockIndex[b]]
  /\ psubblocktree = [b \in DOMAIN psubblocktree |-> psubblocktree[b]]
  /\ Known \ (setDirtySubBlockIndex \cup dropped) \subseteq DOMAIN psubblocktree
  /\ \A b \in DOMAIN psubblocktree : psubblocktree[b] = mapSubBlockIndex[b]

LeftInv == left \in [failures : Nat, restarts : 0..MaxRestarts, losses : 0..MaxPowerLosses]

(* Block b is stored in file f from cell p on, after its magic bytes. *)
StoredAt(b, f, p) ==
  /\ f \in Files /\ p \in Nat \ {0} /\ p + Size[b] <= nSize(f)
  /\ \A c \in (p - 1)..(p + Size[b] - 1) : files[f][c] = [block |-> b, part |-> c - (p - 1)]

PlacesInv ==
  /\ ~aborted
  /\ \A b \in Known : StoredAt(b, mapSubBlockIndex[b][1], mapSubBlockIndex[b][2])

(* The inductive invariant. *)
IInv == TypeOK /\ IndexInv /\ LeftInv /\ (FirstRun => PlacesInv)


-------------------------------------------------------------------------------
(* A set of naturals has a least element. *)
LEMMA Least ==
  ASSUME NEW S \in SUBSET Nat, S # {}
  PROVE  \E m \in S : \A n \in S : m <= n
<1>1. PICK m \in S : \A n \in S : ~(<<n, m>> \in OpToRel(<, Nat))
  BY NatLessThanWellFounded, WFMin
<1>2. ASSUME NEW n \in S PROVE m <= n
  <2>1. ~(n < m)
    BY <1>1 DEF OpToRel
  <2> QED
    BY <2>1
<1> QED
  BY <1>2

LEMMA Bounds ==
  /\ MaxFileSize \in Nat /\ MaxFiles \in Nat \ {0} /\ MaxBlockFile \in Nat
  /\ MaxRestarts \in Nat /\ MaxPowerLosses \in Nat
BY StoreAssumption

LEMMA StateTypes ==
  ASSUME TypeOK
  PROVE  /\ vinfoSubBlockFile \in Seq(0..MaxFileSize - 1) /\ Len(vinfoSubBlockFile) \in Nat
         /\ nLastSubBlockFile \in Files /\ nLastSubBlockFile \in 0..MaxFiles - 1
         /\ nLastSubBlockFile \in Nat
<1>1. vinfoSubBlockFile \in Seq(0..MaxFileSize - 1) /\ nLastSubBlockFile \in Files
  BY DEF TypeOK
<1>2. nLastSubBlockFile \in 0..MaxFiles - 1
  BY <1>1 DEF Files
<1>3. nLastSubBlockFile \in Nat
  BY <1>2, Bounds
<1>4. Len(vinfoSubBlockFile) \in Nat
  BY <1>1, LenProperties
<1> QED
  BY <1>1, <1>2, <1>3, <1>4

LEMMA SizeOf ==
  ASSUME NEW b \in SubBlocks
  PROVE  Size[b] \in Nat \ {0} /\ nAddSize(b) = Size[b] + 1 /\ MaxFileSize \in Nat
         /\ Size[b] + 1 < MaxFileSize /\ MaxFiles \in Nat \ {0}
BY StoreAssumption DEF nAddSize

LEMMA SizeType ==
  ASSUME TypeOK, NEW n \in Nat
  PROVE  nSize(n) \in Nat /\ (n < Len(vinfoSubBlockFile) => nSize(n) < MaxFileSize)
<1>1. vinfoSubBlockFile \in Seq(0..MaxFileSize - 1) /\ Len(vinfoSubBlockFile) \in Nat
      /\ MaxFileSize \in Nat
  BY Bounds, StateTypes
<1>2. CASE n < Len(vinfoSubBlockFile)
  <2>1. n + 1 \in 1..Len(vinfoSubBlockFile)
    BY <1>1, <1>2
  <2>2. vinfoSubBlockFile[n + 1] \in 0..MaxFileSize - 1
    BY <1>1, <2>1
  <2> QED
    BY <1>1, <1>2, <2>2 DEF nSize
<1>3. CASE ~(n < Len(vinfoSubBlockFile))
  BY <1>3 DEF nSize
<1> QED
  BY <1>2, <1>3

(* FindSubBlockPos always finds a file, if need be one that there is not   *)
(* yet.                                                                    *)
LEMMA NextFileFacts ==
  ASSUME TypeOK, NEW b \in SubBlocks
  PROVE  /\ NextFile(b) \in nLastSubBlockFile..MaxFiles
         /\ NextFile(b) = MaxFiles \/ fits(b, NextFile(b))
<1> DEFINE S == {f \in nLastSubBlockFile..MaxFiles : f = MaxFiles \/ fits(b, f)}
<1>1. nLastSubBlockFile \in Nat /\ MaxFiles \in Nat /\ nLastSubBlockFile <= MaxFiles
  BY Bounds, StateTypes
<1>2. S \in SUBSET Nat /\ MaxFiles \in S
  BY <1>1
<1>3. PICK m \in S : \A n \in S : m <= n
  <2> HIDE DEF S
  <2> QED BY <1>2, Least
<1>4. \A g \in nLastSubBlockFile..m - 1 : ~fits(b, g)
  <2> SUFFICES ASSUME NEW g \in nLastSubBlockFile..m - 1, fits(b, g) PROVE FALSE
    OBVIOUS
  <2>1. m \in Nat /\ m <= MaxFiles
    BY <1>1, <1>3
  <2>2. g \in nLastSubBlockFile..MaxFiles /\ g < m
    BY <1>1, <2>1
  <2>3. m <= g
    BY <1>3, <2>2
  <2> QED
    BY <1>1, <2>1, <2>2, <2>3
<1>5. \E f \in nLastSubBlockFile..MaxFiles :
        /\ f = MaxFiles \/ fits(b, f)
        /\ \A g \in nLastSubBlockFile..f - 1 : ~fits(b, g)
  BY <1>3, <1>4
<1> QED
  BY <1>5, Zenon DEF NextFile

LEMMA ResizedFacts ==
  ASSUME TypeOK, NEW n \in Nat \ {0}, MaxFileSize > 0
  PROVE  LET v == Resized(vinfoSubBlockFile, n)
         IN /\ v \in Seq(0..MaxFileSize - 1) /\ Len(v) \in Nat /\ Len(v) >= n
            /\ \A g \in Nat : g < Len(v) => v[g + 1] = nSize(g)
            /\ \A g \in Nat : ~(g < Len(v)) => nSize(g) = 0
<1> DEFINE w == vinfoSubBlockFile
           m == IF Len(w) > n THEN Len(w) ELSE n
           v == Resized(w, n)
<1>1. w \in Seq(0..MaxFileSize - 1) /\ Len(w) \in Nat /\ MaxFileSize \in Nat
  BY Bounds, StateTypes
<1>2. m \in Nat /\ m >= n /\ m >= Len(w)
  BY <1>1
<1>3. v = [i \in 1..m |-> IF i <= Len(w) THEN w[i] ELSE 0]
  BY DEF Resized
<1>4. v \in [1..m -> 0..MaxFileSize - 1]
  <2>1. \A i \in 1..m : (IF i <= Len(w) THEN w[i] ELSE 0) \in 0..MaxFileSize - 1
    BY <1>1, <1>2
  <2> HIDE DEF m, w
  <2> QED
    BY <1>3, <2>1
<1>5. v \in Seq(0..MaxFileSize - 1) /\ Len(v) = m
  <2> HIDE DEF v, m
  <2>1. v \in Seq(0..MaxFileSize - 1)
    BY <1>2, <1>4, SeqDef
  <2>2. DOMAIN v = 1..m /\ DOMAIN v = 1..Len(v) /\ Len(v) \in Nat
    BY <1>4, <2>1, LenProperties
  <2> QED
    BY <1>2, <2>1, <2>2
<1>6. ASSUME NEW g \in Nat, g < m PROVE v[g + 1] = nSize(g)
  <2>1. g + 1 \in 1..m /\ (g + 1 <= Len(w) <=> g < Len(w))
    BY <1>1, <1>2, <1>6
  <2>2. v[g + 1] = IF g + 1 <= Len(w) THEN w[g + 1] ELSE 0
    <3> HIDE DEF v, m
    <3> QED BY <1>3, <2>1
  <2> QED
    BY <2>1, <2>2 DEF nSize
<1>7. ASSUME NEW g \in Nat, ~(g < m) PROVE nSize(g) = 0
  BY <1>1, <1>2, <1>7 DEF nSize
<1> HIDE DEF v, m
<1> QED
  BY <1>2, <1>5, <1>6, <1>7 DEF v

(* The type of the files. *)
LEMMA EmptyType == Empty \in CellValues
BY DEF Empty, CellValues

LEMMA TruncatedType ==
  ASSUME NEW cells \in [Cells -> CellValues], NEW n
  PROVE  /\ Truncated(cells, n) \in [Cells -> CellValues]
         /\ \A c \in Cells : c < n => Truncated(cells, n)[c] = cells[c]
BY EmptyType DEF Truncated

LEMMA WrittenType ==
  ASSUME NEW cells \in [Cells -> CellValues], NEW b \in SubBlocks, NEW p \in Nat
  PROVE  /\ WriteSubBlockToDisk(cells, b, p) \in [Cells -> CellValues]
         /\ \A c \in Cells : WriteSubBlockToDisk(cells, b, p)[c] =
              IF c \in p..p + Size[b] THEN [block |-> b, part |-> c - p] ELSE cells[c]
<1>1. Size[b] \in Nat
  BY SizeOf
<1>2. \A c \in p..p + Size[b] : c - p \in Nat
  BY <1>1
<1>3. \A c \in p..p + Size[b] : [block |-> b, part |-> c - p] \in CellValues
  BY <1>2 DEF CellValues
<1>4. WriteSubBlockToDisk(cells, b, p) =
        [c \in Cells |-> IF c \in p..p + Size[b] THEN [block |-> b, part |-> c - p] ELSE cells[c]]
  BY DEF WriteSubBlockToDisk
<1> QED
  BY <1>3, <1>4

(* A place is taken for b0: what both outcomes of ProcessNewSubBlock have  *)
(* in common.                                                              *)
LEMMA PlaceTaken ==
  ASSUME IInv, NEW b0 \in SubBlocks, NEW f, f = NextFile(b0), NEW flushed,
         flushed \in FlushSubBlockFile(Resized(vinfoSubBlockFile, f + 1), f),
         FindSubBlockPos(b0, f, flushed)
  PROVE  /\ f \in Files /\ nLastSubBlockFile <= f /\ nLastSubBlockFile' = f
         /\ nSize(f) \in Nat /\ nSize(f) + Size[b0] + 1 < MaxFileSize
         /\ flushed \in Contents /\ stable' \in Contents
         /\ vinfoSubBlockFile' \in Seq(0..MaxFileSize - 1)
         /\ \A g \in Nat : nSize(g)' = IF g = f THEN nSize(f) + Size[b0] + 1 ELSE nSize(g)
         /\ nLastBlockFile = 0 /\ f <= 1 =>
              \A g \in Files, c \in Cells : c < nSize(g) => flushed[g][c] = files[g][c]
<1> DEFINE v == Resized(vinfoSubBlockFile, f + 1)
           last == nLastSubBlockFile
<1>1. TypeOK /\ files \in Contents /\ stable \in Contents
  BY DEF IInv, TypeOK, Contents, CellValues
<1>2. last \in Nat /\ last \in Files /\ MaxFiles \in Nat \ {0}
  BY <1>1, Bounds, StateTypes
<1>3. /\ f \in last..MaxFiles /\ f < MaxFiles /\ fits(b0, f)
  BY <1>1, <1>2, NextFileFacts DEF FindSubBlockPos
<1>4. f \in Nat /\ f \in Files /\ last <= f
  BY <1>2, <1>3 DEF Files
<1>5. nSize(f) \in Nat /\ nSize(f) + Size[b0] + 1 < MaxFileSize /\ Size[b0] \in Nat
      /\ MaxFileSize \in Nat /\ MaxFileSize > 0 /\ nAddSize(b0) = Size[b0] + 1
  <2>1. nSize(f) \in Nat
    BY <1>1, <1>4, SizeType
  <2>2. Size[b0] \in Nat /\ MaxFileSize \in Nat /\ nAddSize(b0) = Size[b0] + 1
    BY SizeOf
  <2>3. nSize(f) + nAddSize(b0) < MaxFileSize
    BY <1>3 DEF fits
  <2> QED
    BY <2>1, <2>2, <2>3
<1>6. /\ v \in Seq(0..MaxFileSize - 1) /\ Len(v) \in Nat /\ Len(v) >= f + 1
      /\ \A g \in Nat : g < Len(v) => v[g + 1] = nSize(g)
      /\ \A g \in Nat : ~(g < Len(v)) => nSize(g) = 0
  <2>1. f + 1 \in Nat \ {0}
    BY <1>4
  <2> QED
    BY <1>1, <1>5, <2>1, ResizedFacts
<1> HIDE DEF v
<1>7. vinfoSubBlockFile' = [v EXCEPT ![f + 1] = @ + nAddSize(b0)]
  BY DEF FindSubBlockPos, v
<1>8. f + 1 \in 1..Len(v) /\ v[f + 1] = nSize(f)
  BY <1>4, <1>6
<1>9. vinfoSubBlockFile' = [v EXCEPT ![f + 1] = nSize(f) + Size[b0] + 1]
  <2>1. nSize(f) + nAddSize(b0) = nSize(f) + Size[b0] + 1
    BY <1>5
  <2> QED
    BY <1>7, <1>8, <2>1
<1>10. /\ vinfoSubBlockFile' \in Seq(0..MaxFileSize - 1) /\ Len(vinfoSubBlockFile') = Len(v)
       /\ \A i \in 1..Len(v) : vinfoSubBlockFile'[i] =
            IF i = f + 1 THEN nSize(f) + Size[b0] + 1 ELSE v[i]
  <2>1. nSize(f) + Size[b0] + 1 \in 0..MaxFileSize - 1
    BY <1>5
  <2> QED
    BY <1>6, <1>8, <1>9, <2>1, ExceptSeq
<1>11. ASSUME NEW g \in Nat
       PROVE  nSize(g)' = IF g = f THEN nSize(f) + Size[b0] + 1 ELSE nSize(g)
  <2>1. nSize(g)' = IF g < Len(v) THEN vinfoSubBlockFile'[g + 1] ELSE 0
    BY <1>10 DEF nSize
  <2>2. CASE g < Len(v)
    <3>1. g + 1 \in 1..Len(v) /\ (g + 1 = f + 1 <=> g = f)
      BY <1>4, <1>6, <2>2
    <3>2. vinfoSubBlockFile'[g + 1] = IF g = f THEN nSize(f) + Size[b0] + 1 ELSE v[g + 1]
      BY <1>10, <3>1
    <3> QED
      BY <1>6, <2>1, <2>2, <3>2
  <2>3. CASE ~(g < Len(v))
    <3>1. g # f
      BY <1>4, <1>6, <2>3
    <3> QED
      BY <1>6, <2>1, <2>3, <3>1
  <2> QED
    BY <2>2, <2>3
<1>12. CASE f = last
  <2>1. flushed = files /\ stable' = stable
    BY <1>12 DEF FlushSubBlockFile, FindSubBlockPos
  <2>2. nLastSubBlockFile' = f
    BY DEF FindSubBlockPos
  <2> QED
    BY <1>1, <1>4, <1>5, <1>10, <1>11, <2>1, <2>2
<1>13. CASE f # last
  <2>1. PICK n \in TruncateSizes(v) : flushed = [files EXCEPT ![last] = Truncated(files[last], n)]
    BY <1>13 DEF FlushSubBlockFile, v
  <2>2. stable' = [stable EXCEPT ![last] = flushed[last]] /\ nLastSubBlockFile' = f
    BY <1>13 DEF FindSubBlockPos
  <2>3. files[last] \in [Cells -> CellValues]
    BY <1>1, <1>2 DEF Contents
  <2>4. /\ Truncated(files[last], n) \in [Cells -> CellValues]
        /\ \A c \in Cells : c < n => Truncated(files[last], n)[c] = files[last][c]
    BY <2>3, TruncatedType
  <2>5. flushed \in Contents /\ flushed[last] = Truncated(files[last], n)
        /\ \A g \in Files \ {last} : flushed[g] = files[g]
    BY <1>1, <1>2, <2>1, <2>4 DEF Contents
  <2>6. stable' \in Contents
    BY <1>1, <2>2, <2>4, <2>5 DEF Contents
  <2>7. ASSUME nLastBlockFile = 0, f <= 1, NEW g \in Files, NEW c \in Cells, c < nSize(g)
        PROVE  flushed[g][c] = files[g][c]
    <3>1. last = 0
      BY <1>2, <1>4, <1>13, <2>7
    <3>2. n = nSize(last)
      <4>1. nLastBlockFile < Len(v) /\ nLastBlockFile + 1 = 0 + 1
        BY <1>4, <1>6, <2>7
      <4>2. n = v[0 + 1]
        BY <2>1, <4>1 DEF TruncateSizes
      <4>3. 0 \in Nat /\ 0 < Len(v)
        BY <1>4, <1>6
      <4> QED
        BY <1>6, <3>1, <4>2, <4>3
    <3>3. CASE g = last
      BY <2>4, <2>5, <2>7, <3>2, <3>3
    <3>4. CASE g # last
      BY <2>5, <3>4
    <3> QED
      BY <3>3, <3>4
  <2> QED
    BY <1>4, <1>5, <1>10, <1>11, <2>2, <2>5, <2>6, <2>7
<1> QED
  BY <1>12, <1>13


-------------------------------------------------------------------------------
LEMMA InitInv == Init => IInv
<1> SUFFICES ASSUME Init PROVE IInv
  OBVIOUS
<1>1. NoFiles \in Contents
  BY EmptyType DEF NoFiles, Contents
<1>2. DOMAIN NoIndex = {} /\ NoIndex = [b \in {} |-> NoIndex[b]]
  BY DEF NoIndex
<1>3. 0 \in Files /\ 0 \in 0..MaxBlockFile
  BY Bounds DEF Files
<1>4. TypeOK
  <2>1. files \in Contents /\ stable \in Contents
    BY <1>1 DEF Init
  <2>2. vinfoSubBlockFile \in Seq(0..MaxFileSize - 1)
    BY EmptySeq DEF Init
  <2> QED
    BY <1>2, <1>3, <2>1, <2>2 DEF Init, TypeOK, Known, Contents, CellValues
<1>5. IndexInv
  BY <1>2 DEF Init, IndexInv, Known
<1>6. LeftInv
  <2>1. MaxFailures \in Nat /\ MaxRestarts \in 0..MaxRestarts /\ MaxPowerLosses \in 0..MaxPowerLosses
    BY StoreAssumption
  <2> QED
    BY <2>1 DEF Init, LeftInv
<1>7. PlacesInv
  BY <1>2 DEF Init, PlacesInv, Known
<1> QED
  BY <1>4, <1>5, <1>6, <1>7 DEF IInv

(* A block that is stored stays where it is. *)
LEMMA StaysStored ==
  ASSUME TypeOK, NEW b \in SubBlocks, NEW f, NEW p, StoredAt(b, f, p),
         nSize(f) <= nSize(f)', nSize(f)' \in Nat,
         \A c \in Cells : c < nSize(f) => files'[f][c] = files[f][c]
  PROVE  StoredAt(b, f, p)'
<1>1. f \in Files /\ p \in Nat \ {0} /\ p + Size[b] <= nSize(f)
      /\ \A c \in (p - 1)..(p + Size[b] - 1) : files[f][c] = [block |-> b, part |-> c - (p - 1)]
  BY DEF StoredAt
<1>2. f \in Nat /\ Size[b] \in Nat /\ MaxFileSize \in Nat
  BY <1>1, Bounds, SizeOf DEF Files
<1>3. nSize(f) \in Nat /\ nSize(f) < MaxFileSize
  <2>1. nSize(f) \in Nat /\ (f < Len(vinfoSubBlockFile) => nSize(f) < MaxFileSize)
    BY <1>2, SizeType
  <2>2. nSize(f) # 0
    BY <1>1, <1>2, <2>1
  <2> QED
    BY <2>1, <2>2 DEF nSize
<1>4. \A c \in (p - 1)..(p + Size[b] - 1) : c \in Cells /\ c < nSize(f)
  BY <1>1, <1>2, <1>3 DEF Cells
<1>5. p + Size[b] <= nSize(f)'
  BY <1>1, <1>2, <1>3
<1> QED
  BY <1>1, <1>4, <1>5 DEF StoredAt

LEMMA StoreInv ==
  ASSUME IInv, NEW b0 \in SubBlocks, ProcessNewSubBlock(b0)
  PROVE  IInv'
<1>0. PICK f, p0 : f = NextFile(b0) /\ p0 = nSize(f)
  OBVIOUS
<1>1. PICK flushed \in FlushSubBlockFile(Resized(vinfoSubBlockFile, f + 1), f) :
        /\ FindSubBlockPos(b0, f, flushed)
        /\ files' = [flushed EXCEPT ![f] = WriteSubBlockToDisk(@, b0, p0)]
  BY <1>0 DEF ProcessNewSubBlock
<1>2. /\ f \in Files /\ nLastSubBlockFile <= f /\ nLastSubBlockFile' = f
      /\ p0 \in Nat /\ p0 + Size[b0] + 1 < MaxFileSize
      /\ flushed \in Contents /\ stable' \in Contents
      /\ vinfoSubBlockFile' \in Seq(0..MaxFileSize - 1)
      /\ \A g \in Nat : nSize(g)' = IF g = f THEN p0 + Size[b0] + 1 ELSE nSize(g)
      /\ nLastBlockFile = 0 /\ f <= 1 =>
           \A g \in Files, c \in Cells : c < nSize(g) => flushed[g][c] = files[g][c]
  BY <1>0, <1>1, PlaceTaken
<1>3. /\ ~aborted /\ b0 \notin Known
      /\ mapSubBlockIndex' = [c \in Known \cup {b0} |-> IF c = b0 THEN <<f, p0 + 1>> ELSE mapSubBlockIndex[c]]
      /\ setDirtySubBlockIndex' = setDirtySubBlockIndex \cup {b0}
      /\ UNCHANGED <<nLastBlockFile, psubblocktree, most_recent_subblock, aborted, dropped, left>>
  BY <1>0 DEF ProcessNewSubBlock, AddToSubBlockIndex
<1>4. Known' = Known \cup {b0} /\ mapSubBlockIndex'[b0] = <<f, p0 + 1>>
      /\ \A c \in Known : mapSubBlockIndex'[c] = mapSubBlockIndex[c]
  BY <1>3 DEF Known
<1>5. TypeOK
  BY DEF IInv
<1>6. flushed[f] \in [Cells -> CellValues]
  BY <1>2 DEF Contents
<1>7. /\ WriteSubBlockToDisk(flushed[f], b0, p0) \in [Cells -> CellValues]
      /\ \A c \in Cells : WriteSubBlockToDisk(flushed[f], b0, p0)[c] =
           IF c \in p0..p0 + Size[b0] THEN [block |-> b0, part |-> c - p0] ELSE flushed[f][c]
  BY <1>2, <1>6, WrittenType
<1>8. /\ files' \in Contents /\ files'[f] = WriteSubBlockToDisk(flushed[f], b0, p0)
      /\ \A g \in Files \ {f} : files'[g] = flushed[g]
  BY <1>1, <1>2, <1>7 DEF Contents
<1>9. TypeOK'
  BY <1>2, <1>3, <1>4, <1>5, <1>8 DEF TypeOK, Contents, CellValues
<1>10. IndexInv'
  <2>1. mapSubBlockIndex' = [b \in Known' |-> mapSubBlockIndex'[b]]
    BY <1>3, <1>4
  <2> QED
    BY <1>3, <1>4, <1>5, <2>1 DEF IInv, IndexInv, TypeOK
<1>11. LeftInv'
  BY <1>3 DEF IInv, LeftInv
<1>12. ASSUME FirstRun' PROVE PlacesInv'
  <2>1. nLastBlockFile = 0 /\ f <= 1 /\ FirstRun
    <3>1. nLastBlockFile = 0 /\ f <= 1 /\ left.restarts = MaxRestarts /\ left.losses = MaxPowerLosses
      BY <1>2, <1>3, <1>12 DEF FirstRun
    <3>2. nLastSubBlockFile \in Nat /\ f \in Int
      BY <1>2, <1>5, Bounds, StateTypes DEF Files
    <3>3. nLastSubBlockFile <= 1
      BY <1>2, <3>1, <3>2
    <3> QED
      BY <3>1, <3>3 DEF FirstRun
  <2>2. PlacesInv
    BY <2>1 DEF IInv
  <2>3. p0 \in Nat /\ Size[b0] \in Nat /\ MaxFileSize \in Nat /\ f \in Nat
    BY <1>2, Bounds, SizeOf DEF Files
  <2>4. \A g \in Files, c \in Cells : c < nSize(g) => files'[g][c] = files[g][c]
    <3> SUFFICES ASSUME NEW g \in Files, NEW c \in Cells, c < nSize(g)
                 PROVE  files'[g][c] = files[g][c]
      OBVIOUS
    <3>1. flushed[g][c] = files[g][c]
      BY <1>2, <2>1
    <3>2. CASE g = f
      <4>1. c \notin p0..p0 + Size[b0]
        BY <1>0, <2>3, <3>2 DEF Cells
      <4> QED
        BY <1>7, <1>8, <3>1, <3>2, <4>1
    <3>3. CASE g # f
      BY <1>8, <3>1, <3>3
    <3> QED
      BY <3>2, <3>3
  <2>5. \A g \in Files : nSize(g)' \in Nat /\ nSize(g) <= nSize(g)'
    <3> SUFFICES ASSUME NEW g \in Files PROVE nSize(g)' \in Nat /\ nSize(g) <= nSize(g)'
      OBVIOUS
    <3>1. g \in Nat
      BY Bounds DEF Files
    <3>2. nSize(g) \in Nat
      BY <1>5, <3>1, SizeType
    <3>3. CASE g = f
      BY <1>0, <1>2, <2>3, <3>1, <3>3
    <3>4. CASE g # f
      BY <1>2, <3>1, <3>2, <3>4
    <3> QED
      BY <3>3, <3>4
  <2>6. ASSUME NEW b \in Known
        PROVE  StoredAt(b, mapSubBlockIndex[b][1], mapSubBlockIndex[b][2])'
    <3>1. PICK g, p : g = mapSubBlockIndex[b][1] /\ p = mapSubBlockIndex[b][2]
      OBVIOUS
    <3>2. StoredAt(b, g, p) /\ b \in SubBlocks
      BY <1>5, <2>2, <3>1 DEF PlacesInv, TypeOK
    <3>3. g \in Files
      BY <3>2 DEF StoredAt
    <3>4. StoredAt(b, g, p)'
      BY <1>5, <2>4, <2>5, <3>2, <3>3, StaysStored
    <3>5. mapSubBlockIndex'[b] = mapSubBlockIndex[b]
      BY <1>4
    <3> QED
      BY <3>1, <3>4, <3>5 DEF StoredAt
  <2>7. StoredAt(b0, f, p0 + 1)'
    <3>1. \A c \in p0..(p0 + Size[b0]) : c \in Cells
      BY <1>2, <2>3 DEF Cells
    <3>2. \A c \in p0..(p0 + Size[b0]) : files'[f][c] = [block |-> b0, part |-> c - p0]
      BY <1>7, <1>8, <3>1
    <3>3. (p0 + 1) - 1 = p0 /\ (p0 + 1) + Size[b0] - 1 = p0 + Size[b0] /\ p0 + 1 \in Nat \ {0}
          /\ (p0 + 1) + Size[b0] = p0 + Size[b0] + 1
      BY <2>3
    <3>4. nSize(f)' = p0 + Size[b0] + 1
      BY <1>2, <2>3
    <3>5. p0 + 1 + Size[b0] <= nSize(f)'
      BY <2>3, <3>4
    <3>6. \A c \in ((p0 + 1) - 1)..((p0 + 1) + Size[b0] - 1) :
            files'[f][c] = [block |-> b0, part |-> c - ((p0 + 1) - 1)]
      BY <3>2, <3>3
    <3> QED
      BY <1>2, <3>3, <3>5, <3>6 DEF StoredAt
  <2>8. ~aborted'
    BY <1>3
  <2>9. ASSUME NEW b \in Known'
        PROVE  StoredAt(b, mapSubBlockIndex[b][1], mapSubBlockIndex[b][2])'
    <3>1. CASE b = b0
      BY <1>4, <2>7, <3>1 DEF StoredAt
    <3>2. CASE b # b0
      BY <1>4, <2>6, <3>2
    <3> QED
      BY <3>1, <3>2
  <2> QED
    BY <2>8, <2>9 DEF PlacesInv
<1> QED
  BY <1>9, <1>10, <1>11, <1>12 DEF IInv


LEMMA NoSpaceInv ==
  ASSUME IInv, NEW b0 \in SubBlocks, ProcessNewSubBlock_no_space(b0)
  PROVE  IInv'
<1>1. PICK f, p0 : f = NextFile(b0) /\ p0 = nSize(f)
  OBVIOUS
<1>2. FindSubBlockPos(b0, f, files')
      /\ files' \in FlushSubBlockFile(Resized(vinfoSubBlockFile, f + 1), f)
  BY <1>1 DEF ProcessNewSubBlock_no_space
<1>3. PICK flushed : flushed = files'
  OBVIOUS
<1>4. FindSubBlockPos(b0, f, flushed)
      /\ flushed \in FlushSubBlockFile(Resized(vinfoSubBlockFile, f + 1), f)
  BY <1>2, <1>3 DEF FindSubBlockPos
<1>5. /\ f \in Files /\ nLastSubBlockFile <= f /\ nLastSubBlockFile' = f
      /\ p0 \in Nat /\ p0 + Size[b0] + 1 < MaxFileSize
      /\ flushed \in Contents /\ stable' \in Contents
      /\ vinfoSubBlockFile' \in Seq(0..MaxFileSize - 1)
      /\ \A g \in Nat : nSize(g)' = IF g = f THEN p0 + Size[b0] + 1 ELSE nSize(g)
      /\ nLastBlockFile = 0 /\ f <= 1 =>
           \A g \in Files, c \in Cells : c < nSize(g) => flushed[g][c] = files[g][c]
  BY <1>1, <1>4, PlaceTaken
<1>6. /\ ~aborted /\ left' = [left EXCEPT !.failures = @ - 1] /\ left.failures > 0
      /\ UNCHANGED <<nLastBlockFile, mapSubBlockIndex, setDirtySubBlockIndex, psubblocktree,
                     most_recent_subblock, aborted, dropped>>
  BY DEF ProcessNewSubBlock_no_space
<1>7. TypeOK /\ Known' = Known
  BY <1>6 DEF IInv, Known
<1>8. TypeOK'
  BY <1>3, <1>5, <1>6, <1>7 DEF TypeOK, Contents, CellValues
<1>9. IndexInv'
  BY <1>6, <1>7 DEF IInv, IndexInv
<1>10. LeftInv' /\ left'.restarts = left.restarts /\ left'.losses = left.losses
  <2>1. left \in [failures : Nat, restarts : 0..MaxRestarts, losses : 0..MaxPowerLosses]
    BY DEF IInv, LeftInv
  <2>2. left.failures - 1 \in Nat
    BY <1>6, <2>1
  <2> QED
    BY <1>6, <2>1, <2>2 DEF LeftInv
<1>11. ASSUME FirstRun' PROVE PlacesInv'
  <2>1. nLastBlockFile = 0 /\ f <= 1 /\ FirstRun
    <3>1. nLastBlockFile = 0 /\ f <= 1 /\ left.restarts = MaxRestarts /\ left.losses = MaxPowerLosses
      BY <1>5, <1>6, <1>10, <1>11 DEF FirstRun
    <3>2. nLastSubBlockFile \in Nat /\ f \in Int
      BY <1>5, <1>7, Bounds, StateTypes DEF Files
    <3>3. nLastSubBlockFile <= 1
      BY <1>5, <3>1, <3>2
    <3> QED
      BY <3>1, <3>3 DEF FirstRun
  <2>2. PlacesInv
    BY <2>1 DEF IInv
  <2>3. \A g \in Files, c \in Cells : c < nSize(g) => files'[g][c] = files[g][c]
    BY <1>3, <1>5, <2>1
  <2>4. \A g \in Files : nSize(g)' \in Nat /\ nSize(g) <= nSize(g)'
    <3> SUFFICES ASSUME NEW g \in Files PROVE nSize(g)' \in Nat /\ nSize(g) <= nSize(g)'
      OBVIOUS
    <3>1. g \in Nat
      BY Bounds DEF Files
    <3>2. nSize(g) \in Nat /\ Size[b0] \in Nat
      BY <1>7, <3>1, SizeType, SizeOf
    <3>3. nSize(g)' = IF g = f THEN p0 + Size[b0] + 1 ELSE nSize(g)
      BY <1>5, <3>1
    <3> QED
      BY <1>1, <1>5, <3>2, <3>3
  <2>5. ASSUME NEW b \in Known
        PROVE  StoredAt(b, mapSubBlockIndex[b][1], mapSubBlockIndex[b][2])'
    <3>1. PICK g, p : g = mapSubBlockIndex[b][1] /\ p = mapSubBlockIndex[b][2]
      OBVIOUS
    <3>2. StoredAt(b, g, p) /\ b \in SubBlocks
      BY <1>7, <2>2, <3>1 DEF PlacesInv, TypeOK
    <3>3. g \in Files
      BY <3>2 DEF StoredAt
    <3>4. StoredAt(b, g, p)'
      BY <1>7, <2>3, <2>4, <3>2, <3>3, StaysStored
    <3> QED
      BY <1>6, <3>1, <3>4 DEF StoredAt
  <2> QED
    BY <1>6, <1>7, <2>5 DEF PlacesInv
<1> QED
  BY <1>8, <1>9, <1>10, <1>11 DEF IInv

(* What is stored can be read. *)
LEMMA StoredReadable ==
  ASSUME TypeOK, PlacesInv, NEW b \in Known
  PROVE  Readable(files, mapSubBlockIndex, b)
<1>1. PICK f, p : f = mapSubBlockIndex[b][1] /\ p = mapSubBlockIndex[b][2]
  OBVIOUS
<1>2. /\ f \in Files /\ p \in Nat \ {0} /\ p + Size[b] <= nSize(f)
      /\ \A c \in (p - 1)..(p + Size[b] - 1) : files[f][c] = [block |-> b, part |-> c - (p - 1)]
  BY <1>1 DEF PlacesInv, StoredAt
<1>3. b \in SubBlocks
  BY DEF TypeOK
<1>4. f \in Nat /\ Size[b] \in Nat /\ MaxFileSize \in Nat
  BY <1>2, <1>3, Bounds, SizeOf DEF Files
<1>5. nSize(f) \in Nat /\ nSize(f) < MaxFileSize
  <2>1. nSize(f) \in Nat /\ (f < Len(vinfoSubBlockFile) => nSize(f) < MaxFileSize)
    BY <1>4, SizeType
  <2>2. nSize(f) # 0
    BY <1>2, <1>4, <2>1
  <2> QED
    BY <2>1, <2>2 DEF nSize
<1>6. ASSUME NEW i \in 1..Size[b]
      PROVE  p + i - 1 \in Cells /\ files[f][p + i - 1] = [block |-> b, part |-> i]
  <2>1. p + i - 1 \in (p - 1)..(p + Size[b] - 1) /\ (p + i - 1) - (p - 1) = i
    BY <1>2, <1>4
  <2>2. p + i - 1 \in Cells
    BY <1>2, <1>4, <1>5 DEF Cells
  <2> QED
    BY <1>2, <2>1, <2>2
<1> QED
  BY <1>1, <1>6 DEF Readable

(* Steps that leave the files, the places and the left file's number alone. *)
LEMMA PlacesFrame ==
  ASSUME FirstRun => PlacesInv, FirstRun' => FirstRun,
         FirstRun => ~aborted',
         UNCHANGED <<files, vinfoSubBlockFile, mapSubBlockIndex>>
  PROVE  FirstRun' => PlacesInv'
<1> SUFFICES ASSUME FirstRun' PROVE PlacesInv'
  OBVIOUS
<1>1. PlacesInv
  OBVIOUS
<1>2. ASSUME NEW b \in Known' PROVE StoredAt(b, mapSubBlockIndex[b][1], mapSubBlockIndex[b][2])'
  BY <1>1 DEF PlacesInv, StoredAt, nSize, Known
<1> QED
  BY <1>2 DEF PlacesInv

LEMMA GetDataInv ==
  ASSUME IInv, NEW b \in SubBlocks, ProcessGetData(b)
  PROVE  IInv'
<1>1. /\ ~aborted /\ b \in Known
      /\ aborted' = (most_recent_subblock # b /\ ~Readable(files, mapSubBlockIndex, b))
      /\ most_recent_subblock' = IF aborted' THEN most_recent_subblock ELSE b
      /\ UNCHANGED <<files, stable, vinfoSubBlockFile, nLastSubBlockFile, nLastBlockFile,
                     mapSubBlockIndex, setDirtySubBlockIndex, psubblocktree, dropped, left>>
  BY DEF ProcessGetData
<1>2. TypeOK'
  BY <1>1 DEF IInv, TypeOK, Known
<1>3. IndexInv' /\ LeftInv'
  BY <1>1 DEF IInv, IndexInv, LeftInv, Known
<1>4. FirstRun' => FirstRun
  BY <1>1 DEF FirstRun
<1>5. FirstRun => ~aborted'
  BY <1>1, StoredReadable DEF IInv
<1>6. FirstRun' => PlacesInv'
  BY <1>1, <1>4, <1>5, PlacesFrame DEF IInv
<1> QED
  BY <1>2, <1>3, <1>6 DEF IInv

(* What is saved is part of the index, with all that was not dropped.      *)
LEMMA SavedIsIndex ==
  ASSUME TypeOK, IndexInv
  PROVE  /\ Saved = [b \in DOMAIN Saved |-> Saved[b]]
         /\ DOMAIN Saved \subseteq Known /\ Known \ dropped \subseteq DOMAIN Saved
         /\ \A b \in DOMAIN Saved : Saved[b] = mapSubBlockIndex[b]
<1> DEFINE S == DOMAIN psubblocktree \cup setDirtySubBlockIndex
<1>1. Saved = [b \in S |->
                 IF b \in setDirtySubBlockIndex THEN mapSubBlockIndex[b] ELSE psubblocktree[b]]
  BY DEF Saved
<1>2. S \subseteq Known /\ Known \ dropped \subseteq S
  BY DEF TypeOK, IndexInv
<1>3. \A b \in S : (IF b \in setDirtySubBlockIndex THEN mapSubBlockIndex[b]
                    ELSE psubblocktree[b]) = mapSubBlockIndex[b]
  BY DEF IndexInv
<1> HIDE DEF S
<1>4. DOMAIN Saved = S /\ Saved = [b \in S |-> Saved[b]]
  BY <1>1
<1>5. \A b \in S : Saved[b] = mapSubBlockIndex[b]
  BY <1>1, <1>3
<1> QED
  BY <1>2, <1>4, <1>5

LEMMA FlushInv == ASSUME IInv, FlushStateToDisk PROVE IInv'
<1>1. /\ ~aborted /\ psubblocktree' = Saved /\ setDirtySubBlockIndex' = {}
      /\ UNCHANGED <<files, stable, vinfoSubBlockFile, nLastSubBlockFile, nLastBlockFile,
                     mapSubBlockIndex, most_recent_subblock, aborted, dropped, left>>
  BY DEF FlushStateToDisk
<1>2. TypeOK /\ IndexInv
  BY DEF IInv
<1>3. /\ psubblocktree' = [b \in DOMAIN psubblocktree' |-> psubblocktree'[b]]
      /\ DOMAIN psubblocktree' \subseteq Known /\ Known \ dropped \subseteq DOMAIN psubblocktree'
      /\ \A b \in DOMAIN psubblocktree' : psubblocktree'[b] = mapSubBlockIndex[b]
  BY <1>1, <1>2, SavedIsIndex
<1>4. mapSubBlockIndex' = mapSubBlockIndex /\ Known' = Known
  BY <1>1 DEF Known
<1>5. TypeOK'
  BY <1>1, <1>2, <1>3, <1>4 DEF TypeOK
<1>6. IndexInv'
  BY <1>1, <1>2, <1>3, <1>4 DEF IndexInv
<1>7. LeftInv' /\ (FirstRun' => FirstRun)
  BY <1>1 DEF IInv, LeftInv, FirstRun
<1>8. FirstRun' => PlacesInv'
  BY <1>1, <1>7, PlacesFrame DEF IInv
<1> QED
  BY <1>5, <1>6, <1>7, <1>8 DEF IInv

LEMMA FlushFailsInv == ASSUME IInv, FlushStateToDisk_fails PROVE IInv'
<1>1. /\ ~aborted /\ left.failures > 0 /\ left' = [left EXCEPT !.failures = @ - 1]
      /\ \/ UNCHANGED <<setDirtySubBlockIndex, dropped>>
         \/ setDirtySubBlockIndex' = {} /\ dropped' = dropped \cup setDirtySubBlockIndex
      /\ UNCHANGED <<files, stable, vinfoSubBlockFile, nLastSubBlockFile, nLastBlockFile,
                     mapSubBlockIndex, psubblocktree, most_recent_subblock, aborted>>
  BY DEF FlushStateToDisk_fails
<1>2. TypeOK /\ IndexInv /\ Known' = Known
  BY <1>1 DEF IInv, Known
<1>3. setDirtySubBlockIndex' \subseteq Known /\ dropped' \subseteq Known
      /\ setDirtySubBlockIndex \cup dropped = setDirtySubBlockIndex' \cup dropped'
  BY <1>1, <1>2 DEF TypeOK
<1>4. TypeOK'
  BY <1>1, <1>2, <1>3 DEF TypeOK
<1>5. IndexInv'
  BY <1>1, <1>2, <1>3 DEF IndexInv
<1>6. LeftInv' /\ left'.restarts = left.restarts /\ left'.losses = left.losses
  <2>1. left \in [failures : Nat, restarts : 0..MaxRestarts, losses : 0..MaxPowerLosses]
    BY DEF IInv, LeftInv
  <2>2. left.failures - 1 \in Nat
    BY <1>1, <2>1
  <2> QED
    BY <1>1, <2>1, <2>2 DEF LeftInv
<1>7. FirstRun' => FirstRun
  BY <1>1, <1>6 DEF FirstRun
<1>8. FirstRun' => PlacesInv'
  BY <1>1, <1>7, PlacesFrame DEF IInv
<1> QED
  BY <1>4, <1>5, <1>6, <1>8 DEF IInv

LEMMA BlockFileInv == ASSUME IInv, FindBlockPos PROVE IInv'
<1>1. /\ ~aborted /\ nLastBlockFile < MaxBlockFile /\ nLastBlockFile' = nLastBlockFile + 1
      /\ UNCHANGED <<files, stable, vinfoSubBlockFile, nLastSubBlockFile, mapSubBlockIndex,
                     setDirtySubBlockIndex, psubblocktree, most_recent_subblock, aborted, dropped,
                     left>>
  BY DEF FindBlockPos
<1>2. nLastBlockFile \in 0..MaxBlockFile
  BY DEF IInv, TypeOK
<1>3. nLastBlockFile' \in 0..MaxBlockFile /\ nLastBlockFile' # 0
  BY <1>1, <1>2, Bounds
<1>4. TypeOK'
  BY <1>1, <1>3 DEF IInv, TypeOK, Known
<1>5. IndexInv' /\ LeftInv'
  BY <1>1 DEF IInv, IndexInv, LeftInv, Known
<1>6. ~FirstRun'
  BY <1>3 DEF FirstRun
<1> QED
  BY <1>4, <1>5, <1>6 DEF IInv

(* What a restart loads. *)
LEMMA RestartLoads ==
  ASSUME IInv, Restart
  PROVE  /\ psubblocktree' = [b \in DOMAIN psubblocktree' |-> psubblocktree'[b]]
         /\ DOMAIN psubblocktree' \subseteq Known
         /\ \A b \in DOMAIN psubblocktree' : psubblocktree'[b] = mapSubBlockIndex[b]
         /\ mapSubBlockIndex' = psubblocktree' /\ Known' = DOMAIN psubblocktree'
         /\ LeftInv' /\ left'.restarts = left.restarts - 1 /\ left.restarts - 1 # MaxRestarts
         /\ Known \ Known' \subseteq
              dropped \cup (IF left'.failures < left.failures THEN setDirtySubBlockIndex ELSE {})
<1>1. TypeOK /\ IndexInv
  BY DEF IInv
<1>2. mapSubBlockIndex' = psubblocktree' /\ Known' = DOMAIN psubblocktree'
  BY DEF Restart, LoadSubBlockIndex, Known
<1>3. left \in [failures : Nat, restarts : 0..MaxRestarts, losses : 0..MaxPowerLosses]
  BY DEF IInv, LeftInv
<1>4. left.restarts - 1 \in 0..MaxRestarts /\ left.restarts - 1 # MaxRestarts
  <2>1. left.restarts \in 0..MaxRestarts /\ left.restarts > 0
    BY <1>3 DEF Restart
  <2> QED
    BY <2>1, Bounds
<1>5. CASE psubblocktree' = Saved /\ left' = [left EXCEPT !.restarts = @ - 1]
  <2>1. LeftInv' /\ left'.restarts = left.restarts - 1
    BY <1>3, <1>4, <1>5 DEF LeftInv
  <2> QED
    BY <1>1, <1>2, <1>4, <1>5, <2>1, SavedIsIndex
<1>6. CASE /\ left.failures > 0 /\ psubblocktree' = psubblocktree
           /\ left' = [left EXCEPT !.restarts = @ - 1, !.failures = @ - 1]
  <2>1. left.failures \in Nat /\ left.failures - 1 \in Nat
    BY <1>3, <1>6
  <2>2. LeftInv' /\ left'.restarts = left.restarts - 1 /\ left'.failures = left.failures - 1
    BY <1>3, <1>4, <1>6, <2>1 DEF LeftInv
  <2>3. left'.failures < left.failures
    BY <2>1, <2>2
  <2> QED
    BY <1>1, <1>2, <1>4, <1>6, <2>2, <2>3 DEF TypeOK, IndexInv
<1> QED
  BY <1>5, <1>6 DEF Restart

LEMMA RestartInv == ASSUME IInv, Restart PROVE IInv'
<1>1. /\ vinfoSubBlockFile' = <<>> /\ nLastSubBlockFile' = 0
      /\ setDirtySubBlockIndex' = {} /\ dropped' = {} /\ most_recent_subblock' = ""
      /\ UNCHANGED <<nLastBlockFile, aborted, files, stable>>
  BY DEF Restart, LoadSubBlockIndex
<1>2. TypeOK
  BY DEF IInv
<1>3. /\ psubblocktree' = [b \in DOMAIN psubblocktree' |-> psubblocktree'[b]]
      /\ DOMAIN psubblocktree' \subseteq Known
      /\ mapSubBlockIndex' = psubblocktree' /\ Known' = DOMAIN psubblocktree'
      /\ LeftInv' /\ left'.restarts = left.restarts - 1 /\ left.restarts - 1 # MaxRestarts
  BY RestartLoads
<1>4. 0 \in Files /\ <<>> \in Seq(0..MaxFileSize - 1)
  BY Bounds, EmptySeq DEF Files
<1>5. TypeOK'
  BY <1>1, <1>2, <1>3, <1>4 DEF TypeOK
<1>6. IndexInv'
  BY <1>1, <1>3 DEF IndexInv
<1>7. ~FirstRun'
  BY <1>3 DEF FirstRun
<1> QED
  BY <1>3, <1>5, <1>6, <1>7 DEF IInv

LEMMA PowerLossInv == ASSUME IInv, PowerLoss PROVE IInv'
<1>1. PICK S \in SUBSET Files : files' = [f \in Files |-> IF f \in S THEN files[f] ELSE stable[f]]
  BY DEF PowerLoss
<1>2. /\ ~aborted /\ left.losses > 0 /\ psubblocktree' = psubblocktree /\ stable' = files'
      /\ mapSubBlockIndex' = psubblocktree /\ vinfoSubBlockFile' = <<>> /\ nLastSubBlockFile' = 0
      /\ setDirtySubBlockIndex' = {} /\ dropped' = {} /\ most_recent_subblock' = ""
      /\ left' = [left EXCEPT !.losses = @ - 1]
      /\ UNCHANGED <<nLastBlockFile, aborted>>
  BY DEF PowerLoss, LoadSubBlockIndex
<1>3. files \in Contents /\ stable \in Contents /\ TypeOK /\ IndexInv
  BY DEF IInv, TypeOK, Contents, CellValues
<1>4. files' \in Contents
  BY <1>1, <1>3 DEF Contents
<1>5. Known' = DOMAIN psubblocktree /\ DOMAIN psubblocktree' = Known'
  BY <1>2 DEF Known
<1>6. 0 \in Files /\ <<>> \in Seq(0..MaxFileSize - 1)
  BY Bounds, EmptySeq DEF Files
<1>7. TypeOK'
  BY <1>2, <1>3, <1>4, <1>5, <1>6 DEF TypeOK, Contents, CellValues
<1>8. IndexInv'
  BY <1>2, <1>3, <1>5 DEF IndexInv
<1>9. LeftInv' /\ left'.losses = left.losses - 1 /\ left.losses - 1 # MaxPowerLosses
  <2>1. left \in [failures : Nat, restarts : 0..MaxRestarts, losses : 0..MaxPowerLosses]
    BY DEF IInv, LeftInv
  <2>2. left.losses - 1 \in 0..MaxPowerLosses /\ left.losses - 1 # MaxPowerLosses
    <3>1. left.losses \in 0..MaxPowerLosses /\ left.losses > 0
      BY <1>2, <2>1
    <3> QED
      BY <3>1, Bounds
  <2> QED
    BY <1>2, <2>1, <2>2 DEF LeftInv
<1>10. ~FirstRun'
  BY <1>9 DEF FirstRun
<1> QED
  BY <1>7, <1>8, <1>9, <1>10 DEF IInv

LEMMA StutterInv == ASSUME IInv, UNCHANGED vars PROVE IInv'
<1>1. TypeOK' /\ IndexInv' /\ LeftInv' /\ (FirstRun' => FirstRun) /\ aborted' = aborted
  BY DEF IInv, vars, TypeOK, IndexInv, LeftInv, FirstRun, Known
<1>2. FirstRun' => PlacesInv'
  BY <1>1, PlacesFrame DEF IInv, vars, PlacesInv
<1> QED
  BY <1>1, <1>2 DEF IInv

LEMMA NextInv == IInv /\ [Next]_vars => IInv'
<1> SUFFICES ASSUME IInv, [Next]_vars PROVE IInv'
  OBVIOUS
<1>1. ASSUME NEW b \in SubBlocks, ProcessNewSubBlock(b) PROVE IInv'
  BY <1>1, StoreInv
<1>2. ASSUME NEW b \in SubBlocks, ProcessNewSubBlock_no_space(b) PROVE IInv'
  BY <1>2, NoSpaceInv
<1>3. ASSUME NEW b \in SubBlocks, ProcessGetData(b) PROVE IInv'
  BY <1>3, GetDataInv
<1>4. CASE FlushStateToDisk
  BY <1>4, FlushInv
<1>5. CASE FindBlockPos
  BY <1>5, BlockFileInv
<1>6. CASE Restart
  BY <1>6, RestartInv
<1>7. CASE PowerLoss
  BY <1>7, PowerLossInv
<1>8. CASE UNCHANGED vars
  BY <1>8, StutterInv
<1>9. CASE FlushStateToDisk_fails
  BY <1>9, FlushFailsInv
<1> QED
  BY <1>1, <1>2, <1>3, <1>4, <1>5, <1>6, <1>7, <1>8, <1>9 DEF Next

(* IInv is inductive. *)
THEOREM Invariance == Spec => []IInv
<1>1. IInv /\ [Next]_vars => IInv'
  BY NextInv
<1> QED
  BY <1>1, InitInv, PTL DEF Spec

-------------------------------------------------------------------------------
(* The variables keep their types, through failed stores, restarts and     *)
(* power losses: in particular no file is recorded as longer than          *)
(* MAX_BLOCKFILE_SIZE, and the database has no block the index lacks.      *)
THEOREM TypeCorrect == Spec => []TypeOK
<1>1. IInv => TypeOK
  BY DEF IInv
<1> QED
  BY <1>1, Invariance, PTL

(* A restart in order finds in the index database every block the node     *)
(* knew, at the place it knew, and no other (FlushStateToDisk and          *)
(* LoadSubBlockIndex); it may lack only the entries whose write failed     *)
(* when they were no longer dirty, or in the flushes of Shutdown.          *)
THEOREM IndexSurvivesRestart == Spec => RestartKeepsIndex
<1> DEFINE Kept ==
      /\ Known' \subseteq Known /\ \A b \in Known' : mapSubBlockIndex'[b] = mapSubBlockIndex[b]
      /\ Known \ Known' \subseteq
           dropped \cup (IF left'.failures < left.failures THEN setDirtySubBlockIndex ELSE {})
<1>1. ASSUME IInv, [Next]_vars
      PROVE  [left'.restarts < left.restarts => Kept]_vars
  <2> SUFFICES ASSUME Next, left'.restarts < left.restarts PROVE Kept
    BY <1>1
  <2>1. left \in [failures : Nat, restarts : 0..MaxRestarts, losses : 0..MaxPowerLosses]
    BY <1>1 DEF IInv, LeftInv
  <2>2. left'.restarts # left.restarts
    <3>1. left.restarts \in 0..MaxRestarts
      BY <2>1
    <3> QED
      BY <3>1, Bounds
  <2>3. CASE \E b \in SubBlocks : ProcessNewSubBlock(b) \/ ProcessNewSubBlock_no_space(b) \/ ProcessGetData(b)
    BY <2>1, <2>2, <2>3 DEF ProcessNewSubBlock, ProcessNewSubBlock_no_space, ProcessGetData
  <2>4. CASE FlushStateToDisk \/ FlushStateToDisk_fails \/ FindBlockPos \/ PowerLoss
    BY <2>1, <2>2, <2>4 DEF FlushStateToDisk, FlushStateToDisk_fails, FindBlockPos, PowerLoss
  <2>5. CASE Restart
    BY <1>1, <2>5, RestartLoads
  <2> QED
    BY <2>3, <2>4, <2>5 DEF Next
<1> QED
  BY <1>1, Invariance, PTL DEF Spec, RestartKeepsIndex

(* In the first run no two blocks are stored over each other, and none     *)
(* reaches past the recorded size of its file (FindSubBlockPos), also      *)
(* after stores that failed with the place already taken.                  *)
THEOREM DisjointPlaces == Spec => []PlacesDisjoint
<1>1. ASSUME IInv, FirstRun, NEW a \in Known, NEW b \in Known, a # b,
             NEW c \in mapSubBlockIndex[a][2] - 1..mapSubBlockIndex[a][2] + Size[a] - 1,
             c \in mapSubBlockIndex[b][2] - 1..mapSubBlockIndex[b][2] + Size[b] - 1,
             mapSubBlockIndex[a][1] = mapSubBlockIndex[b][1]
      PROVE  FALSE
  <2>1. StoredAt(a, mapSubBlockIndex[a][1], mapSubBlockIndex[a][2])
        /\ StoredAt(b, mapSubBlockIndex[b][1], mapSubBlockIndex[b][2])
    BY <1>1 DEF IInv, PlacesInv
  <2>2. PICK f, p, q : f = mapSubBlockIndex[a][1] /\ p = mapSubBlockIndex[a][2]
                       /\ q = mapSubBlockIndex[b][2]
    OBVIOUS
  <2>3. StoredAt(a, f, p) /\ StoredAt(b, f, q)
    BY <1>1, <2>1, <2>2
  <2>4. c \in (p - 1)..(p + Size[a] - 1) /\ c \in (q - 1)..(q + Size[b] - 1)
    BY <1>1, <2>2
  <2>5. files[f][c] = [block |-> a, part |-> c - (p - 1)]
        /\ files[f][c] = [block |-> b, part |-> c - (q - 1)]
    BY <2>3, <2>4 DEF StoredAt
  <2>6. a = b
    BY <2>5
  <2> QED
    BY <1>1, <2>6
<1>2. IInv => PlacesDisjoint
  <2> SUFFICES ASSUME IInv, FirstRun
               PROVE  /\ \A a, b \in Known : a # b =>
                           {<<mapSubBlockIndex[a][1], c>> :
                              c \in mapSubBlockIndex[a][2] - 1..mapSubBlockIndex[a][2] + Size[a] - 1}
                           \cap {<<mapSubBlockIndex[b][1], c>> :
                              c \in mapSubBlockIndex[b][2] - 1..mapSubBlockIndex[b][2] + Size[b] - 1} = {}
                      /\ \A b \in Known : mapSubBlockIndex[b][2] + Size[b] <= nSize(mapSubBlockIndex[b][1])
    BY DEF PlacesDisjoint
  <2>1. \A b \in Known : mapSubBlockIndex[b][2] + Size[b] <= nSize(mapSubBlockIndex[b][1])
    BY DEF IInv, PlacesInv, StoredAt
  <2>2. ASSUME NEW a \in Known, NEW b \in Known, a # b
        PROVE  {<<mapSubBlockIndex[a][1], c>> :
                  c \in mapSubBlockIndex[a][2] - 1..mapSubBlockIndex[a][2] + Size[a] - 1}
               \cap {<<mapSubBlockIndex[b][1], c>> :
                  c \in mapSubBlockIndex[b][2] - 1..mapSubBlockIndex[b][2] + Size[b] - 1} = {}
    BY <1>1, <2>2
  <2> QED
    BY <2>1, <2>2
<1> QED
  BY <1>2, Invariance, PTL

(* In the first run the node can read every block of its index, so the     *)
(* assertion of ProcessGetData holds.                                      *)
THEOREM ServedInFirstRun == Spec => []ServesInFirstRun
<1>1. IInv => ServesInFirstRun
  BY StoredReadable DEF IInv, ServesInFirstRun, ServesWhatItKnows, PlacesInv
<1> QED
  BY <1>1, Invariance, PTL
===============================================================================
