------------------------------- MODULE BlockLog -------------------------------
(***************************************************************************)
(* The block log of a sub-chain node: the file of irreversible blocks and  *)
(* the index of their positions, through appending, a crash of the process *)
(* or a loss of power between any two writes, opening again, failed writes *)
(* and repair.                                                             *)
(*                                                                         *)
(* A file is a sequence of cells: for the log the version, the genesis     *)
(* state, and for each block the block and its position; for the index the *)
(* positions.  A position is the number of a cell.  A cell that was only   *)
(* written in part is Torn: what is read there is not what was meant to be *)
(* written.  A stream may pass on what it buffers at any time, and has     *)
(* passed on all of it after a flush; nothing is ever synced to the disk.  *)
(* A stream that could not write stays in an error state and keeps its     *)
(* buffer, to be written again when the stream is closed; one that could   *)
(* not be closed in order is never opened again.                           *)
(*                                                                         *)
(* Blocks are numbers: the controller appends block n + 1 after block n    *)
(* (on_irreversible), and irreversible blocks have one history.            *)
(***************************************************************************)
EXTENDS Naturals, Sequences, SequencesExt

CONSTANTS MaxBlocks,   \* bound: highest block number
          MaxCrashes,  \* bound: crashes of the process
          MaxOutages,  \* bound: losses of power
          MaxErrors    \* bound: writes that fail

ASSUME BlockLogAssumption ==
  MaxBlocks \in Nat /\ MaxCrashes \in Nat /\ MaxOutages \in Nat /\ MaxErrors \in Nat

VARIABLES
  log,     \* blocks.log, with what block_stream buffers
  index,   \* blocks.index, with what index_stream buffers
  lsync,   \* the cells of log that the stream has passed on
  isync,   \* the cells of index that the stream has passed on
  mode,    \* "down", "open", or "failed" if the log could not be opened
  head,    \* the number of head(), 0 if there is none
  pc,      \* where append or reset_to_genesis is
  stream,  \* "good", "bad" if a stream is in an error state, "closed" if closing one failed
  acked,   \* history: the blocks whose append has returned, and that no power loss,
           \* truncation or deletion, and no repair of a log torn inside, has taken
  excuse,  \* history: there is a reason why the log may not be opened
  left     \* what the bounds still allow

files == <<log, index, lsync, isync>>
vars == <<files, mode, head, pc, stream, acked, excuse, left>>

Version(v) == [t |-> "version", n |-> v]
GenesisState == [t |-> "genesis", n |-> 0]
Block(n) == [t |-> "block", n |-> n]
Pos(p) == [t |-> "pos", n |-> p]
Torn == [t |-> "torn", n |-> 0]

supported_version == 1
MinOf(m, n) == IF m < n THEN m ELSE n

-------------------------------------------------------------------------------
(* How far a walk from block to block gets: the number of blocks, each     *)
(* complete and followed by its position.                                  *)
Whole(f, n) ==
  LET i == 2 * n + 1
  IN i + 1 <= Len(f) /\ f[i].t = "block" /\ f[i + 1] = Pos(i)

Walked(f) ==
  CHOOSE n \in 0..Len(f) : ~Whole(f, n + 1) /\ \A m \in 1..n : Whole(f, m)

Header(f) == Len(f) >= 2 /\ f[1] = Version(supported_version) /\ f[2] = GenesisState

(* A block that was written in part is followed by others, or by its own   *)
(* position.                                                               *)
TornInside(f) == \E i \in DOMAIN f : i < Len(f) /\ f[i] = Torn

(* read_head: the block at the position at the end of the file, 0 if it    *)
(* cannot be read.  The end of a block, or of part of one, is not the      *)
(* position of a block.  A torn block may be taken for any block.          *)
read_head(f) ==
  IF Last(f).t # "pos" THEN {0}
  ELSE IF f[Last(f).n].t = "block" THEN {f[Last(f).n].n}
  ELSE 0..MaxBlocks

Positions(n) == [i \in 1..n |-> 2 * i + 1]

(* get_block_pos and read_block_by_num: the block that is read, 0 if none. *)
read_block_by_num(n) ==
  IF n \in 1..head /\ n <= Len(index) /\ index[n] \in DOMAIN log /\ log[index[n]] = Block(n)
  THEN n ELSE 0

-------------------------------------------------------------------------------
Init ==
  /\ log = <<>> /\ index = <<>> /\ lsync = 0 /\ isync = 0
  /\ mode = "down" /\ head = 0 /\ pc = "idle" /\ stream = "good"
  /\ acked = {} /\ excuse = FALSE
  /\ left = [crashes |-> MaxCrashes, outages |-> MaxOutages, errors |-> MaxErrors]

(* Mutant: the index is built only if it is empty. *)
index_fits_if_any(f, x) == x # <<>>

index_fits(f, x) == x # <<>> /\ Last(x) = Last(f).n

(* construct_index, after read_head has found the head.  The walk goes on  *)
(* to the block at the end; in a torn block it throws, or takes what it    *)
(* finds for a block and its position and ends there.                      *)
construct_index(found) ==
  IF ~TornInside(log)
  THEN /\ index' = Positions(Walked(log)) /\ isync' = 0
       /\ mode' = "open" /\ head' = found
  ELSE \/ /\ index' = Positions(Walked(log)) /\ isync' = Walked(log)
          /\ mode' = "failed" /\ head' = 0
       \/ /\ index' = Append(Positions(Walked(log)), 0) /\ isync' = 0
          /\ mode' = "open" /\ head' = found

open ==
  /\ mode = "down"
  /\ \/ \* the log is new
        /\ log = <<>>
        /\ mode' = "open" /\ head' = 0 /\ index' = <<>> /\ isync' = 0
     \/ \* it was not set up, or its head cannot be read
        /\ log # <<>>
        /\ log[1] # Version(supported_version) \/ 0 \in read_head(log)
        /\ mode' = "failed" /\ UNCHANGED <<head, index, isync>>
     \/ \* the index is shorter than one position
        /\ log # <<>> /\ log[1] = Version(supported_version) /\ index = <<0>>
        /\ mode' = "failed" /\ UNCHANGED <<head, index, isync>>
     \/ /\ log # <<>> /\ log[1] = Version(supported_version) /\ index # <<0>>
        /\ \E found \in read_head(log) \ {0} :
             \/ \* the heads of the two files agree
                /\ index_fits(log, index)
                /\ mode' = "open" /\ head' = found /\ UNCHANGED <<index, isync>>
             \/ /\ ~index_fits(log, index)
                /\ construct_index(found)
  /\ excuse' = (excuse /\ mode' # "open")
  /\ UNCHANGED <<log, lsync, pc, stream, acked, left>>

(* reset_to_genesis, called by the controller for a log without a head: a  *)
(* version that is not valid, the genesis state, and the first block,      *)
(* appended.                                                               *)
reset_to_genesis ==
  /\ mode = "open" /\ pc = "idle" /\ log = <<>>
  /\ log' = <<Version(0), GenesisState, Block(1), Pos(3)>> /\ lsync' = 0
  /\ index' = <<3>> /\ isync' = 0
  /\ head' = 1 /\ pc' = "flush"
  /\ UNCHANGED <<mode, stream, acked, excuse, left>>

(* ... and the version at last. *)
write_version ==
  /\ mode = "open" /\ pc = "version"
  /\ log' = [log EXCEPT ![1] = Version(supported_version)]
  /\ pc' = "idle" /\ acked' = acked \cup {head}
  /\ UNCHANGED <<index, lsync, isync, mode, head, stream, excuse, left>>

(* append's first assertion is about the position in the index. *)
MayAppend ==
  /\ mode = "open" /\ pc = "idle" /\ head \in 1..(MaxBlocks - 1)
  /\ stream = "good" /\ Len(index) = head

(* Mutant: append does not flush. *)
append_unflushed ==
  /\ MayAppend
  /\ log' = log \o <<Block(head + 1), Pos(Len(log) + 1)>>
  /\ index' = Append(index, Len(log) + 1)
  /\ head' = head + 1 /\ acked' = acked \cup {head + 1}
  /\ UNCHANGED <<lsync, isync, mode, pc, stream, excuse, left>>

append ==
  /\ MayAppend
  /\ log' = log \o <<Block(head + 1), Pos(Len(log) + 1)>>
  /\ index' = Append(index, Len(log) + 1)
  /\ head' = head + 1 /\ pc' = "flush"
  /\ UNCHANGED <<lsync, isync, mode, stream, acked, excuse, left>>

(* append writes part of the block, or nothing of it, and throws. *)
append_throws ==
  /\ MayAppend /\ left.errors > 0
  /\ \/ log' = Append(log, Torn) /\ lsync' = Len(log) + 1
     \/ UNCHANGED <<log, lsync>>
  /\ stream' = "bad" /\ left' = [left EXCEPT !.errors = @ - 1]
  /\ UNCHANGED <<index, isync, mode, head, pc, acked, excuse>>

(* flush: the block stream, and then the index stream. *)
flush_block ==
  /\ mode = "open" /\ pc = "flush"
  /\ lsync' = Len(log) /\ pc' = "flush_index"
  /\ UNCHANGED <<log, index, isync, mode, head, stream, acked, excuse, left>>

(* Mutant: reset_to_genesis leaves the invalid version. *)
flush_index_and_return ==
  /\ mode = "open" /\ pc = "flush_index"
  /\ isync' = Len(index)
  /\ pc' = "idle" /\ acked' = acked \cup {head}
  /\ UNCHANGED <<log, index, lsync, mode, head, stream, excuse, left>>

flush_index ==
  /\ mode = "open" /\ pc = "flush_index"
  /\ isync' = Len(index)
  /\ IF log[1] = Version(0) THEN pc' = "version" /\ UNCHANGED acked
     ELSE pc' = "idle" /\ acked' = acked \cup {head}
  /\ UNCHANGED <<log, index, lsync, mode, head, stream, excuse, left>>

(* A flush fails, and append throws after head and the index have the      *)
(* block.  If part of the block was passed on, the buffer that follows it  *)
(* later starts with the block once more.  (A flush that fails while the   *)
(* log is set up ends the process: see crash.)                             *)
flush_block_throws ==
  /\ mode = "open" /\ pc = "flush" /\ log[1] = Version(supported_version) /\ left.errors > 0
  /\ \/ UNCHANGED <<log, lsync>>
     \/ log' = [log EXCEPT ![Len(log) - 1] = Torn] /\ lsync' = Len(log) - 1
  /\ pc' = "idle" /\ stream' = "bad" /\ left' = [left EXCEPT !.errors = @ - 1]
  /\ UNCHANGED <<index, isync, mode, head, acked, excuse>>

flush_index_throws ==
  /\ mode = "open" /\ pc = "flush_index" /\ log[1] = Version(supported_version) /\ left.errors > 0
  /\ pc' = "idle" /\ stream' = "bad" /\ left' = [left EXCEPT !.errors = @ - 1]
  /\ UNCHANGED <<log, index, lsync, isync, mode, head, acked, excuse>>

(* What may be left of a file of which k cells are safe. *)
Remains(f, k) ==
  {SubSeq(f, 1, n) : n \in k..Len(f)} \cup {Append(SubSeq(f, 1, n), Torn) : n \in k..(Len(f) - 1)}

RemainsOfIndex(x, k) ==
  {SubSeq(x, 1, n) : n \in k..Len(x)} \cup {Append(SubSeq(x, 1, n), 0) : n \in k..(Len(x) - 1)}

(* A stream passes on its buffer in pieces of thousands of bytes: no piece *)
(* of the index ends inside its first position.                            *)
PassedOn(x, k) == RemainsOfIndex(x, k) \ {<<0>>}

(* Reading a block closes the streams that were written to, the index      *)
(* first, and opens them for reading; append opens them again.  The errors *)
(* are forgotten.                                                          *)
read_block ==
  /\ mode = "open" /\ pc = "idle" /\ head > 0 /\ stream # "closed"
  /\ lsync' = Len(log) /\ isync' = Len(index) /\ stream' = "good"
  /\ UNCHANGED <<log, index, mode, head, pc, acked, excuse, left>>

(* A stream is closed but its buffer cannot be written. *)
read_block_throws ==
  /\ mode = "open" /\ pc = "idle" /\ head > 0 /\ stream # "closed" /\ left.errors > 0
  /\ \/ /\ isync < Len(index)
        /\ index' \in PassedOn(index, isync) /\ isync' = Len(index')
        /\ UNCHANGED <<log, lsync>>
     \/ /\ lsync < Len(log)
        /\ isync' = Len(index)
        /\ log' \in Remains(log, lsync) /\ lsync' = Len(log')
        /\ UNCHANGED index
  /\ stream' = "closed" /\ left' = [left EXCEPT !.errors = @ - 1]
  /\ UNCHANGED <<mode, head, pc, acked, excuse>>

-------------------------------------------------------------------------------
Stopped == mode' = "down" /\ head' = 0 /\ pc' = "idle" /\ stream' = "good"

(* The process stops.  If it stops in order, ~block_log flushes: nothing   *)
(* is missing then, which is one of the outcomes.                          *)
crash ==
  /\ mode = "open" /\ left.crashes > 0
  /\ log' \in Remains(log, lsync) /\ index' \in PassedOn(index, isync)
  /\ lsync' = Len(log') /\ isync' = Len(index')
  /\ Stopped
  /\ excuse' = (excuse \/ pc # "idle" \/ stream # "good" \/ \E i \in DOMAIN log : log[i] = Torn)
  /\ left' = [left EXCEPT !.crashes = @ - 1]
  /\ UNCHANGED acked

(* The machine stops: what was not written back to the disk is lost. *)
power_loss ==
  /\ mode = "open" /\ left.outages > 0
  /\ log' \in Remains(log, 0) /\ index' \in RemainsOfIndex(index, 0)
  /\ lsync' = Len(log') /\ isync' = Len(index')
  /\ Stopped
  /\ acked' = acked \cap 1..Walked(log')
  /\ excuse' = TRUE
  /\ left' = [left EXCEPT !.outages = @ - 1]

Replaced(f) ==
  /\ log' = f /\ lsync' = Len(f) /\ index' = <<>> /\ isync' = 0
  /\ mode' = "down"
  /\ UNCHANGED <<head, pc, stream>>

(* The copy that repair_log makes of a log: up to the first block that     *)
(* cannot be read or that its position does not follow, or to the given    *)
(* block.                                                                  *)
recovered(f, truncate_at_block) ==
  LET n == IF truncate_at_block = 0 THEN Walked(f) ELSE MinOf(Walked(f), truncate_at_block)
  IN SubSeq(f, 1, 2 + 2 * n)

(* repair_log.  The old files are moved away first: if it throws, or the   *)
(* process stops, what has been written of the new log is there.           *)
repair_log(truncate_at_block) ==
  /\ mode \in {"down", "failed"} /\ log # <<>>
  /\ \/ \* the genesis state cannot be read
        /\ ~Header(log)
        /\ Replaced(<<>>) /\ acked' = {} /\ excuse' = FALSE
        /\ UNCHANGED left
     \/ /\ Header(log)
        /\ Replaced(recovered(log, truncate_at_block))
        /\ acked' = IF TornInside(log) THEN acked \cap 1..Walked(log')
                    ELSE IF truncate_at_block = 0 THEN acked ELSE acked \cap 1..truncate_at_block
        /\ excuse' = (Walked(log) = 0)
        /\ UNCHANGED left
     \/ /\ Header(log) /\ left.crashes > 0
        /\ \E f \in Remains(recovered(log, truncate_at_block), 0) :
             Replaced(f) /\ acked' = acked \cap 1..Walked(f)
        /\ excuse' = TRUE
        /\ left' = [left EXCEPT !.crashes = @ - 1]

(* --delete-all-blocks *)
delete_all_blocks ==
  /\ mode \in {"down", "failed"} /\ log # <<>>
  /\ Replaced(<<>>)
  /\ acked' = {} /\ excuse' = FALSE
  /\ UNCHANGED left

Next ==
  \/ open \/ reset_to_genesis \/ write_version
  \/ append \/ append_throws \/ flush_block \/ flush_index \/ flush_block_throws
  \/ flush_index_throws \/ read_block \/ read_block_throws
  \/ crash \/ power_loss
  \/ \E n \in 0..MaxBlocks : repair_log(n)
  \/ delete_all_blocks

Spec == Init /\ [][Next]_vars

-------------------------------------------------------------------------------
Cells == [t : {"version", "genesis", "block", "pos", "torn"}, n : Nat]

(* Type correctness. *)
TypeOK ==
  /\ log \in Seq(Cells) /\ index \in Seq(Nat)
  /\ lsync \in 0..Len(log) /\ isync \in 0..Len(index)
  /\ mode \in {"down", "open", "failed"}
  /\ pc \in {"idle", "flush", "flush_index", "version"}
  /\ head \in 0..MaxBlocks /\ excuse \in BOOLEAN
  /\ stream \in {"good", "bad", "closed"}
  /\ acked \subseteq 1..MaxBlocks

(* In a log that is open each block up to the head is found through the    *)
(* index, and the next block will be appended at its place, also when the  *)
(* flush of a block that head and index already have has failed.  Two      *)
(* cases are excepted: a log that is torn inside, because a block that was *)
(* written in part is followed by its own rest or by another block, and a  *)
(* stream that could not be closed, which is never read or written again.  *)
IndexExact ==
  mode = "open" /\ stream # "closed" /\ ~TornInside(log) =>
    Len(index) = head /\ \A n \in 1..head : read_block_by_num(n) = n

(* A block whose append has returned outlives every crash of the process,  *)
(* and every repair that does not truncate the log before it: it is in the *)
(* log, with its position after it.                                        *)
AcknowledgedKept ==
  \A n \in acked : \E i \in DOMAIN log :
    i < Len(log) /\ log[i] = Block(n) /\ log[i + 1] = Pos(i)

(* The log can be opened again, unless the process stopped while it was    *)
(* being set up or appended to, a write had failed, or power was lost; and *)
(* it can be opened after a repair that found a block.                     *)
OpensAfterStop == mode = "failed" => excuse
===============================================================================
