---------------------------- MODULE SubBlockStore ----------------------------
(***************************************************************************)
(* How a top-chain node backs up the blocks of sub chains: numbered files  *)
(* subblkNNNNN.dat that are appended to, an index in memory, and the index *)
(* database psubblocktree it is saved to from time to time.                *)
(*                                                                         *)
(* A file is a row of cells.  A block takes one cell for the magic bytes   *)
(* and the size and Size[b] cells for itself; the index has the position   *)
(* of the first of these.  Everything here holds cs_main, so each          *)
(* operation is one step.  Reindexing and pruning are left out.            *)
(***************************************************************************)
EXTENDS Integers, Sequences, FiniteSets

CONSTANTS SubBlocks,          \* hashes of sub-chain blocks
          Size,               \* serialized size of each
          MaxFileSize,        \* MAX_BLOCKFILE_SIZE
          MaxFiles,           \* bound: sub-block files
          MaxBlockFile,       \* bound: the top chain's own block files
          MaxFailures,        \* bound: stores and flushes that fail
          MaxRestarts,        \* bound: clean restarts
          MaxPowerLosses      \* bound: power failures

ASSUME StoreAssumption ==
  /\ IsFiniteSet(SubBlocks) /\ Size \in [SubBlocks -> Nat \ {0}]
  /\ MaxFileSize \in Nat /\ \A b \in SubBlocks : Size[b] + 1 < MaxFileSize
  /\ MaxFiles \in Nat \ {0} /\ MaxBlockFile \in Nat
  /\ MaxFailures \in Nat /\ MaxRestarts \in Nat /\ MaxPowerLosses \in Nat

Files == 0..MaxFiles - 1
Cells == 0..MaxFileSize - 1
Empty == [block |-> "", part |-> 0]

VARIABLES
  files,                  \* what a read sees: [Files -> [Cells -> cell]]
  stable,                 \* what is on the disk itself
  vinfoSubBlockFile,      \* nSize of each file; the first k files have an entry
  nLastSubBlockFile,
  nLastBlockFile,         \* file number of the top chain's own blocks
  mapSubBlockIndex,       \* position of each block that is known
  setDirtySubBlockIndex,
  psubblocktree,          \* the index database
  most_recent_subblock,
  aborted,                \* an assert() failed
  dropped,                \* history: entries of the index whose write to the database failed
  left                    \* failures, restarts and power losses still allowed

vars == <<files, stable, vinfoSubBlockFile, nLastSubBlockFile, nLastBlockFile,
          mapSubBlockIndex, setDirtySubBlockIndex, psubblocktree,
          most_recent_subblock, aborted, dropped, left>>

Known == DOMAIN mapSubBlockIndex
NoFiles == [f \in Files |-> [c \in Cells |-> Empty]]
NoIndex == [b \in {} |-> 0]

Init ==
  /\ files = NoFiles /\ stable = NoFiles
  /\ vinfoSubBlockFile = <<>> /\ nLastSubBlockFile = 0 /\ nLastBlockFile = 0
  /\ mapSubBlockIndex = NoIndex /\ setDirtySubBlockIndex = {} /\ psubblocktree = NoIndex
  /\ most_recent_subblock = "" /\ aborted = FALSE /\ dropped = {}
  /\ left = [failures |-> MaxFailures, restarts |-> MaxRestarts, losses |-> MaxPowerLosses]

-------------------------------------------------------------------------------
(* vinfoSubBlockFile[n].nSize; resize() makes entries of size 0. *)
nSize(n) == IF n < Len(vinfoSubBlockFile) THEN vinfoSubBlockFile[n + 1] ELSE 0

(* Mutant: the magic bytes and the size are not counted. *)
nAddSize_bare(b) == Size[b]

(* What a block adds to its file. *)
nAddSize(b) == Size[b] + 1

fits(b, f) == nSize(f) + nAddSize(b) < MaxFileSize

(* The first file from the last one on that b fits in; MaxFiles if none.   *)
NextFile(b) ==
  CHOOSE f \in nLastSubBlockFile..MaxFiles :
    /\ f = MaxFiles \/ fits(b, f)
    /\ \A g \in nLastSubBlockFile..f - 1 : ~fits(b, g)

Resized(v, n) == [i \in 1..(IF Len(v) > n THEN Len(v) ELSE n) |-> IF i <= Len(v) THEN v[i] ELSE 0]

(* Sizes that FlushSubBlockFile may truncate the last file to: it looks up *)
(* the entry of the top chain's block file, which there may not be.        *)
TruncateSizes(v) == IF nLastBlockFile < Len(v) THEN {v[nLastBlockFile + 1]} ELSE 0..MaxFileSize

Truncated(cells, n) == [c \in Cells |-> IF c < n THEN cells[c] ELSE Empty]

(* FlushSubBlockFile(true), when file f is gone on to: the contents of all *)
(* files, with the one that is left truncated.                             *)
FlushSubBlockFile(v, f) ==
  IF f = nLastSubBlockFile THEN {files}
  ELSE {[files EXCEPT ![nLastSubBlockFile] = Truncated(@, n)] : n \in TruncateSizes(v)}

(* A place for b is taken, whether or not b then gets there.  The file     *)
(* that is left is committed to the disk.                                  *)
FindSubBlockPos(b, f, flushed) ==
  LET v == Resized(vinfoSubBlockFile, f + 1) IN
  /\ f < MaxFiles
  /\ flushed \in FlushSubBlockFile(v, f)
  /\ stable' = IF f = nLastSubBlockFile THEN stable
               ELSE [stable EXCEPT ![nLastSubBlockFile] = flushed[nLastSubBlockFile]]
  /\ vinfoSubBlockFile' = [v EXCEPT ![f + 1] = @ + nAddSize(b)]
  /\ nLastSubBlockFile' = f

(* WriteSubBlockToDisk at position p of a file. *)
WriteSubBlockToDisk(cells, b, p) ==
  [c \in Cells |-> IF c \in p..p + Size[b] THEN [block |-> b, part |-> c - p] ELSE cells[c]]

(* Mutant: the new entry is not marked to be saved. *)
AddToSubBlockIndex_clean(b, f, p) ==
  /\ mapSubBlockIndex' = [c \in Known \cup {b} |-> IF c = b THEN <<f, p>> ELSE mapSubBlockIndex[c]]
  /\ UNCHANGED setDirtySubBlockIndex

(* Mutant: the position is that of the magic bytes. *)
AddToSubBlockIndex_at_magic(b, f, p) ==
  /\ mapSubBlockIndex' = [c \in Known \cup {b} |-> IF c = b THEN <<f, p - 1>> ELSE mapSubBlockIndex[c]]
  /\ setDirtySubBlockIndex' = setDirtySubBlockIndex \cup {b}

AddToSubBlockIndex(b, f, p) ==
  /\ mapSubBlockIndex' = [c \in Known \cup {b} |-> IF c = b THEN <<f, p>> ELSE mapSubBlockIndex[c]]
  /\ setDirtySubBlockIndex' = setDirtySubBlockIndex \cup {b}

(* A sub block arrives; nothing is done for one that is known. *)
ProcessNewSubBlock(b) ==
  LET f == NextFile(b) IN
  /\ ~aborted /\ b \notin Known
  /\ \E flushed \in FlushSubBlockFile(Resized(vinfoSubBlockFile, f + 1), f) :
       /\ FindSubBlockPos(b, f, flushed)
       /\ files' = [flushed EXCEPT ![f] = WriteSubBlockToDisk(@, b, nSize(f))]
  /\ AddToSubBlockIndex(b, f, nSize(f) + 1)
  /\ UNCHANGED <<nLastBlockFile, psubblocktree, most_recent_subblock, aborted, dropped, left>>

(* There is no disk space for it, or its file cannot be opened: the place  *)
(* stays taken.                                                            *)
ProcessNewSubBlock_no_space(b) ==
  LET f == NextFile(b) IN
  /\ ~aborted /\ b \notin Known /\ left.failures > 0
  /\ \E flushed \in FlushSubBlockFile(Resized(vinfoSubBlockFile, f + 1), f) :
       /\ FindSubBlockPos(b, f, flushed)
       /\ files' = flushed
  /\ left' = [left EXCEPT !.failures = @ - 1]
  /\ UNCHANGED <<nLastBlockFile, mapSubBlockIndex, setDirtySubBlockIndex, psubblocktree,
                 most_recent_subblock, aborted, dropped>>

(* ReadSubBlockFromDisk finds the block that the index says is there. *)
Readable(content, index, b) ==
  LET f == index[b][1] p == index[b][2] IN
  \A i \in 1..Size[b] : p + i - 1 \in Cells /\ content[f][p + i - 1] = [block |-> b, part |-> i]

(* A peer asks for a block: ProcessGetData for MSG_SUBBLOCK. *)
ProcessGetData(b) ==
  /\ ~aborted /\ b \in Known
  /\ aborted' = (most_recent_subblock # b /\ ~Readable(files, mapSubBlockIndex, b))
  /\ most_recent_subblock' = IF aborted' THEN most_recent_subblock ELSE b
  /\ UNCHANGED <<files, stable, vinfoSubBlockFile, nLastSubBlockFile, nLastBlockFile,
                 mapSubBlockIndex, setDirtySubBlockIndex, psubblocktree, dropped, left>>

Saved == [b \in DOMAIN psubblocktree \cup setDirtySubBlockIndex |->
            IF b \in setDirtySubBlockIndex THEN mapSubBlockIndex[b] ELSE psubblocktree[b]]

(* FlushStateToDisk, every so often: the dirty entries go to the database. *)
FlushStateToDisk ==
  /\ ~aborted /\ setDirtySubBlockIndex # {}
  /\ psubblocktree' = Saved
  /\ setDirtySubBlockIndex' = {}
  /\ UNCHANGED <<files, stable, vinfoSubBlockFile, nLastSubBlockFile, nLastBlockFile,
                 mapSubBlockIndex, most_recent_subblock, aborted, dropped, left>>

(* It fails: for lack of disk space, or because the top chain's own index  *)
(* cannot be written, before it comes to the sub blocks; or because their  *)
(* entries cannot be written, when they are no longer marked as dirty.     *)
(* The node is asked to shut down, which takes its time.                   *)
FlushStateToDisk_fails ==
  /\ ~aborted /\ setDirtySubBlockIndex # {} /\ left.failures > 0
  /\ \/ UNCHANGED <<setDirtySubBlockIndex, dropped>>
     \/ setDirtySubBlockIndex' = {} /\ dropped' = dropped \cup setDirtySubBlockIndex
  /\ left' = [left EXCEPT !.failures = @ - 1]
  /\ UNCHANGED <<files, stable, vinfoSubBlockFile, nLastSubBlockFile, nLastBlockFile,
                 mapSubBlockIndex, psubblocktree, most_recent_subblock, aborted>>

(* The top chain goes on to its next block file. *)
FindBlockPos ==
  /\ ~aborted /\ nLastBlockFile < MaxBlockFile
  /\ nLastBlockFile' = nLastBlockFile + 1
  /\ UNCHANGED <<files, stable, vinfoSubBlockFile, nLastSubBlockFile, mapSubBlockIndex,
                 setDirtySubBlockIndex, psubblocktree, most_recent_subblock, aborted, dropped,
                 left>>

(* LoadSubBlockIndex: the index comes from the database.  The sizes of the *)
(* files and the number of the last one are not read back.                 *)
LoadSubBlockIndex(tree) ==
  /\ mapSubBlockIndex' = tree
  /\ vinfoSubBlockFile' = <<>> /\ nLastSubBlockFile' = 0
  /\ setDirtySubBlockIndex' = {} /\ dropped' = {} /\ most_recent_subblock' = ""
  /\ UNCHANGED <<nLastBlockFile, aborted>>

(* Shutdown flushes twice.  Either flush may save the entries; if none     *)
(* does, they are gone.                                                    *)
Restart ==
  /\ ~aborted /\ left.restarts > 0
  /\ \/ /\ psubblocktree' = Saved
        /\ left' = [left EXCEPT !.restarts = @ - 1]
     \/ /\ setDirtySubBlockIndex # {} /\ left.failures > 0
        /\ psubblocktree' = psubblocktree
        /\ left' = [left EXCEPT !.restarts = @ - 1, !.failures = @ - 1]
  /\ LoadSubBlockIndex(psubblocktree')
  /\ UNCHANGED <<files, stable>>

(* The machine stops: of what was not committed, some files were written   *)
(* back and some were not.                                                 *)
PowerLoss ==
  /\ ~aborted /\ left.losses > 0
  /\ \E S \in SUBSET Files : files' = [f \in Files |-> IF f \in S THEN files[f] ELSE stable[f]]
  /\ stable' = files'
  /\ LoadSubBlockIndex(psubblocktree)
  /\ left' = [left EXCEPT !.losses = @ - 1]
  /\ UNCHANGED psubblocktree

Next ==
  \/ \E b \in SubBlocks : ProcessNewSubBlock(b) \/ ProcessNewSubBlock_no_space(b) \/ ProcessGetData(b)
  \/ FlushStateToDisk \/ FlushStateToDisk_fails \/ FindBlockPos
  \/ Restart \/ PowerLoss

Spec == Init /\ [][Next]_vars

-------------------------------------------------------------------------------
(* Type correctness. *)
TypeOK ==
  /\ files \in [Files -> [Cells -> [block : SubBlocks \cup {""}, part : Nat]]]
  /\ stable \in [Files -> [Cells -> [block : SubBlocks \cup {""}, part : Nat]]]
  /\ vinfoSubBlockFile \in Seq(0..MaxFileSize - 1)
  /\ nLastSubBlockFile \in Files /\ nLastBlockFile \in 0..MaxBlockFile
  /\ Known \subseteq SubBlocks /\ DOMAIN psubblocktree \subseteq Known
  /\ setDirtySubBlockIndex \subseteq Known /\ dropped \subseteq Known
  /\ most_recent_subblock \in SubBlocks \cup {""} /\ aborted \in BOOLEAN

(* The conditions under which the files are looked after: the process has  *)
(* run since the first sub block, and every file that was left had the     *)
(* number of the top chain's own block file.                               *)
FirstRun == /\ left.restarts = MaxRestarts /\ left.losses = MaxPowerLosses
            /\ nLastBlockFile = 0 /\ nLastSubBlockFile <= 1

(* Each block has room of its own: no two are stored over each other, and  *)
(* none reaches past the size that is recorded for its file, where the     *)
(* next one will go; also after stores that failed.                        *)
PlacesDisjoint ==
  LET room(b) == {<<mapSubBlockIndex[b][1], c>> :
                    c \in mapSubBlockIndex[b][2] - 1..mapSubBlockIndex[b][2] + Size[b] - 1}
  IN FirstRun =>
       /\ \A a, b \in Known : a # b => room(a) \cap room(b) = {}
       /\ \A b \in Known : mapSubBlockIndex[b][2] + Size[b] <= nSize(mapSubBlockIndex[b][1])

(* What the node has in its index it can serve, whatever has been stored,  *)
(* flushed and asked for since.  net_processing.cpp asserts it: "cannot    *)
(* load block from disk".                                                  *)
ServesWhatItKnows == ~aborted /\ \A b \in Known : Readable(files, mapSubBlockIndex, b)

(* It is so in the first run. *)
ServesInFirstRun == FirstRun => ServesWhatItKnows

(* A restart in order, whatever was flushed before it and when, finds in   *)
(* the index database every block the node knew, at the place it knew, and *)
(* no other.  Only the entries whose own write failed may be missing:      *)
(* those of a flush that failed after they were no longer dirty, and those *)
(* that were dirty when the flushes of Shutdown failed.                    *)
RestartKeepsIndex ==
  [][left'.restarts < left.restarts =>
       /\ Known' \subseteq Known /\ \A b \in Known' : mapSubBlockIndex'[b] = mapSubBlockIndex[b]
       /\ Known \ Known' \subseteq
            dropped \cup (IF left'.failures < left.failures THEN setDirtySubBlockIndex ELSE {})]_vars
===============================================================================
