------------------------------- MODULE CoinsView -------------------------------
(***************************************************************************)
(* The coin database of the top chain: CCoinsViewDB, the cache pcoinsTip   *)
(* on top of it (CCoinsViewCache), and the short-lived cache that one      *)
(* block is connected or disconnected in.  Caches are write-back: entries  *)
(* are DIRTY when they differ from the view below, FRESH when that view    *)
(* has no unspent coin.  A flush to disk goes out in several batches; the  *)
(* process may die between any two, and ReplayBlocks repairs the database  *)
(* at the next start.                                                      *)
(*                                                                         *)
(* A coin is the height of the block that made it; its amount and script   *)
(* go with the outpoint.  What a cache does to an outpoint does not depend *)
(* on the other outpoints, so that a block is applied to all of them at    *)
(* once; an outpoint that a block both creates and spends sees two calls.  *)
(***************************************************************************)
EXTENDS Integers, Sequences

CONSTANTS Tree,        \* the block index: block |-> [parent, height, creates, spends]
          Genesis,
          Coinbase,    \* the outpoints of coinbase transactions
          NoBlock,     \* a null hash
          Spent,       \* Coin::IsSpent()
          NoEntry      \* not in the map

Blocks == DOMAIN Tree
Parent == [b \in Blocks |-> Tree[b].parent]
Height == [b \in Blocks |-> Tree[b].height]
Outpoints == UNION {Tree[b].creates : b \in Blocks}

Ancestors[b \in Blocks] == {b} \cup IF b = Genesis THEN {} ELSE Ancestors[Parent[b]]

ASSUME TreeAssumption ==
  /\ Genesis \in Blocks /\ NoBlock \notin Blocks /\ Height[Genesis] = 0
  /\ \A b \in Blocks \ {Genesis} : Parent[b] \in Blocks /\ Height[b] = Height[Parent[b]] + 1
  /\ \A b \in Blocks : Height[b] \in Nat /\ Tree[b].spends \subseteq Outpoints
  /\ Spent \notin Nat

Coins == {Height[b] : b \in Blocks} \cup {Spent}
Entry == [coin : Coins, dirty : BOOLEAN, fresh : BOOLEAN]
Empty == [o \in Outpoints |-> NoEntry]

ASSUME EntryAssumption == NoEntry \notin Entry

VARIABLES
  db,       \* DB_COIN
  best_db,  \* DB_BEST_BLOCK
  heads,    \* DB_HEAD_BLOCKS: the new and the old tip of a flush under way, or <<>>
  tip,      \* pcoinsTip->cacheCoins; in ReplayBlocks, its own cache
  best,     \* that cache's hashBlock
  job,      \* "idle"; "flush", "abort" after a failed write; in ReplayBlocks
            \* "rollback", "forward", "reflush"
  old,      \* ReplayBlocks: pindexOld, then the block rolled forward last
  lost,     \* a batch with changes was not written, and its entries have left the cache
  fault     \* the assertion that failed, or the exception

vars == <<db, best_db, heads, tip, best, job, old, lost, fault>>

Init ==
  /\ db = [o \in Outpoints |-> Spent] /\ best_db = NoBlock /\ heads = <<>>
  /\ tip = Empty /\ best = Genesis /\ job = "idle" /\ old = NoBlock
  /\ lost = FALSE /\ fault = "none"

-------------------------------------------------------------------------------
(* CCoinsViewCache, one outpoint: e is its entry, below the coin that the  *)
(* view below has.                                                         *)

(* FetchCoin.  base->GetCoin() is true of unspent coins only, so that the  *)
(* case of an empty entry in the parent is never met.                      *)
FetchCoin(e, below) ==
  IF e # NoEntry \/ below = Spent THEN e
  ELSE [coin |-> below, dirty |-> FALSE, fresh |-> FALSE]

GetCoin(e, below) == IF e # NoEntry THEN e.coin ELSE below

HaveCoin(e, below) == GetCoin(e, below) # Spent

Blank == [coin |-> Spent, dirty |-> FALSE, fresh |-> FALSE]

(* Mutant: an entry that is dirty may be called fresh. *)
AddCoin_fresh(e, coin, possible_overwrite) ==
  LET it == IF e = NoEntry THEN Blank ELSE e
  IN [coin |-> coin, dirty |-> TRUE, fresh |-> it.fresh \/ ~possible_overwrite]

(* Callers never let it throw: they have asked for the coin, or the rules  *)
(* for blocks say that there is none.                                      *)
AddCoin(e, coin, possible_overwrite) ==
  LET it == IF e = NoEntry THEN Blank ELSE e
  IN [coin |-> coin, dirty |-> TRUE,
      fresh |-> it.fresh \/ (~possible_overwrite /\ ~it.dirty)]

(* Mutant: a spent coin is forgotten, fresh or not. *)
SpendCoin_erases(e, below) == NoEntry

SpendCoin(e, below) ==
  LET it == FetchCoin(e, below)
  IN IF it = NoEntry \/ it.fresh THEN NoEntry
     ELSE [it EXCEPT !.dirty = TRUE, !.coin = Spent]

(* BatchWrite: entry it of the child is merged into entry us. *)
BatchWrite(us, it) ==
  IF it = NoEntry \/ ~it.dirty THEN us
  ELSE IF us = NoEntry
  THEN IF it.fresh /\ it.coin = Spent THEN NoEntry ELSE it
  ELSE IF us.fresh /\ it.coin = Spent THEN NoEntry
  ELSE [us EXCEPT !.coin = it.coin, !.dirty = TRUE]

(* BatchWrite throws: "FRESH flag misapplied". *)
Misapplied(us, it) ==
  it # NoEntry /\ us # NoEntry /\ it.dirty /\ it.fresh /\ us.coin # Spent

-------------------------------------------------------------------------------
(* A block on one outpoint, in a cache.                                    *)

Creates(b, o) == o \in Tree[b].creates
Spends(b, o) == o \in Tree[b].spends

(* The unspent coins at a block. *)
Utxo[b \in Blocks] ==
  [o \in Outpoints |->
     IF b = Genesis \/ Spends(b, o) THEN Spent
     ELSE IF Creates(b, o) THEN Height[b]
     ELSE Utxo[Parent[b]][o]]

(* Blocks are valid: CheckTxInputs and the rule against duplicate          *)
(* transactions (BIP30) have been met.                                     *)
ASSUME ValidAssumption ==
  \A b \in Blocks \ {Genesis} : \A o \in Outpoints :
    /\ Creates(b, o) => Utxo[Parent[b]][o] = Spent
    /\ Spends(b, o) => Creates(b, o) \/ Utxo[Parent[b]][o] # Spent

(* The coin that the undo data of b has for an outpoint it spends. *)
Undo(b, o) == IF Creates(b, o) THEN Height[b] ELSE Utxo[Parent[b]][o]

(* UpdateCoins in ConnectBlock: outputs are added, inputs spent. *)
Connected(b, o, e, below) ==
  LET made == IF Creates(b, o) THEN AddCoin(e, Height[b], o \in Coinbase) ELSE e
  IN IF Spends(b, o) THEN SpendCoin(made, below) ELSE made

(* RollforwardBlock: the same, where the block may have been applied. *)
RolledForward(b, o, e, below) ==
  LET it == FetchCoin(e, below)
      made == IF Creates(b, o) THEN AddCoin(it, Height[b], HaveCoin(it, below)) ELSE e
  IN IF Spends(b, o) THEN SpendCoin(made, below) ELSE made

(* DisconnectBlock: ApplyTxInUndo for inputs, then outputs are spent. *)
Disconnected(b, o, e, below) ==
  LET it == FetchCoin(e, below)
      restored == IF Spends(b, o) THEN AddCoin(it, Undo(b, o), HaveCoin(it, below)) ELSE e
  IN IF Creates(b, o) THEN SpendCoin(restored, below) ELSE restored

(* ... and what makes it unclean. *)
Clean(b, o, e, below) ==
  /\ Spends(b, o) => ~HaveCoin(e, below)
  /\ Creates(b, o) /\ ~Spends(b, o) => GetCoin(e, below) = Height[b]

-------------------------------------------------------------------------------
Ready == job = "idle" /\ fault = "none"

(* pcoinsTip->GetCoin(o), and the entry of the tip after a view asks.      *)
Fetched(o) == FetchCoin(tip[o], db[o])
CoinAt(o) == GetCoin(tip[o], db[o])

(* The memory pool looks at a coin, or drops one it looked at. *)
AccessCoin(o) ==
  /\ Ready
  /\ tip' = [tip EXCEPT ![o] = Fetched(o)]
  /\ UNCHANGED <<db, best_db, heads, best, job, old, lost, fault>>

Uncache(o) ==
  /\ Ready
  /\ tip[o] # NoEntry /\ ~tip[o].dirty /\ ~tip[o].fresh
  /\ tip' = [tip EXCEPT ![o] = NoEntry]
  /\ UNCHANGED <<db, best_db, heads, best, job, old, lost, fault>>

(* The tip once a view over it has looked at outpoints S and is flushed. *)
Merged(S, view) ==
  [o \in Outpoints |-> BatchWrite(IF o \in S THEN Fetched(o) ELSE tip[o], view[o])]

(* ConnectTip: ConnectBlock in a view over the tip, and view.Flush(). *)
ConnectTip(b) ==
  LET view == [o \in Outpoints |-> Connected(b, o, NoEntry, CoinAt(o))]
  IN /\ Ready
     /\ b # Genesis /\ Parent[b] = best
     /\ fault' = IF \E o \in Tree[b].spends \ Tree[b].creates : CoinAt(o) = Spent
                 THEN "spent"
                 ELSE IF \E o \in Outpoints : Misapplied(Fetched(o), view[o])
                 THEN "fresh" ELSE "none"
     /\ tip' = Merged(Tree[b].spends \cup Tree[b].creates, view)
     /\ best' = b
     /\ UNCHANGED <<db, best_db, heads, job, old, lost>>

(* DisconnectTip: only a clean DisconnectBlock is kept. *)
DisconnectTip ==
  LET view == [o \in Outpoints |-> Disconnected(best, o, NoEntry, CoinAt(o))]
  IN /\ Ready
     /\ best # Genesis
     /\ fault' = IF \E o \in Outpoints : ~Clean(best, o, NoEntry, CoinAt(o))
                 THEN "unclean"
                 ELSE IF \E o \in Outpoints : Misapplied(Fetched(o), view[o])
                 THEN "fresh" ELSE "none"
     /\ tip' = Merged(Tree[best].spends \cup Tree[best].creates, view)
     /\ best' = Parent[best]
     /\ UNCHANGED <<db, best_db, heads, job, old, lost>>

-------------------------------------------------------------------------------
(* CCoinsViewDB::BatchWrite.  old_tip of a flush. *)
old_tip == IF best_db # NoBlock THEN best_db
           ELSE IF heads # <<>> THEN heads[2] ELSE NoBlock

(* The entries of S, written. *)
Written(S) == [o \in Outpoints |-> IF o \in S /\ tip[o].dirty THEN tip[o].coin ELSE db[o]]

Held == {o \in Outpoints : tip[o] # NoEntry}

(* FlushStateToDisk, pcoinsTip->Flush() begins. *)
Flush ==
  /\ Ready
  /\ job' = "flush"
  /\ UNCHANGED <<db, best_db, heads, tip, best, old, lost, fault>>

(* Mutant: a partial batch leaves the best block as it is. *)
WritePartial_unmarked(S) ==
  /\ job \in {"flush", "reflush"} /\ S # {} /\ S \subseteq Held
  /\ db' = Written(S)
  /\ tip' = [o \in Outpoints |-> IF o \in S THEN NoEntry ELSE tip[o]]
  /\ UNCHANGED <<best_db, heads, best, job, old, lost, fault>>

(* A batch is full.  The first one marks the database as between two tips. *)
WritePartial(S) ==
  /\ job \in {"flush", "reflush"} /\ S # {} /\ S \subseteq Held
  /\ db' = Written(S)
  /\ tip' = [o \in Outpoints |-> IF o \in S THEN NoEntry ELSE tip[o]]
  /\ heads' = <<best, old_tip>> /\ best_db' = NoBlock
  /\ UNCHANGED <<best, job, old, lost, fault>>

(* WriteBatch throws.  The entries of the batch have been erased from the  *)
(* map.  FlushStateToDisk catches it and aborts the node, whose Shutdown() *)
(* calls FlushStateToDisk again.  ReplayBlocks does not catch it: that is  *)
(* a Crash.                                                                *)
WriteFails(S) ==
  /\ job = "flush" /\ S # {} /\ S \subseteq Held
  /\ tip' = [o \in Outpoints |-> IF o \in S THEN NoEntry ELSE tip[o]]
  /\ lost' = (lost \/ \E o \in S : tip[o].dirty)
  /\ job' = "abort"
  /\ UNCHANGED <<db, best_db, heads, best, old, fault>>

Shutdown ==
  /\ job = "abort"
  /\ job' = "flush"
  /\ UNCHANGED <<db, best_db, heads, tip, best, old, lost, fault>>

(* The last batch.  Nothing is modelled after it has declared a database   *)
(* consistent that misses a batch.                                         *)
WriteFinal ==
  /\ job \in {"flush", "reflush"}
  /\ db' = Written(Held)
  /\ tip' = Empty
  /\ heads' = <<>> /\ best_db' = best
  /\ job' = "idle" /\ lost' = FALSE
  /\ fault' = IF lost THEN "lost" ELSE "none"
  /\ UNCHANGED <<best, old>>

(* The process dies; the next one starts.  With DB_HEAD_BLOCKS set,        *)
(* ReplayBlocks begins at the old tip; otherwise the tip is the best block *)
(* of the database, or the genesis block, which has no coins.              *)
Crash ==
  /\ fault = "none"
  /\ tip' = Empty /\ lost' = FALSE
  /\ IF heads = <<>>
     THEN /\ best' = IF best_db = NoBlock THEN Genesis ELSE best_db
          /\ job' = "idle" /\ old' = NoBlock
     ELSE /\ best' = heads[1]
          /\ job' = "rollback"
          /\ old' = IF heads[2] = NoBlock THEN Genesis ELSE heads[2]
  /\ UNCHANGED <<db, best_db, heads, fault>>

(* The process ends, and the next one wipes the database: -reindex and     *)
(* -reindex-chainstate.  The blocks are then connected again.              *)
Wipe ==
  /\ fault = "none"
  /\ db' = [o \in Outpoints |-> Spent] /\ best_db' = NoBlock /\ heads' = <<>>
  /\ tip' = Empty /\ best' = Genesis /\ job' = "idle" /\ old' = NoBlock
  /\ lost' = FALSE
  /\ UNCHANGED fault

(* Mutant: blocks that may be half applied are not rolled back. *)
RollbackBlock_skips ==
  /\ job = "rollback" /\ old \notin Ancestors[best]
  /\ old' = Parent[old]
  /\ UNCHANGED <<db, best_db, heads, tip, best, job, lost, fault>>

(* ReplayBlocks, a round of its first loop. *)
RollbackBlock ==
  /\ job = "rollback" /\ old \notin Ancestors[best]
  /\ tip' = [o \in Outpoints |-> Disconnected(old, o, tip[o], db[o])]
  /\ old' = Parent[old]
  /\ UNCHANGED <<db, best_db, heads, best, job, lost, fault>>

(* ... and of its second, from the fork on. *)
RollforwardBlock(b) ==
  /\ job \in {"rollback", "forward"} /\ old \in Ancestors[best] \ {best}
  /\ b \in Ancestors[best] \ {Genesis} /\ Parent[b] = old
  /\ job' = "forward"
  /\ tip' = [o \in Outpoints |-> RolledForward(b, o, tip[o], db[o])]
  /\ old' = b
  /\ UNCHANGED <<db, best_db, heads, best, lost, fault>>

(* cache.Flush() at the end. *)
ReplayFlush ==
  /\ job \in {"rollback", "forward"} /\ old = best
  /\ job' = "reflush" /\ old' = NoBlock
  /\ UNCHANGED <<db, best_db, heads, tip, best, lost, fault>>

(* Flushes, repair and look-ups: the chain of blocks stays as it is. *)
InPlace ==
  \/ \E o \in Outpoints : AccessCoin(o) \/ Uncache(o)
  \/ Flush \/ (\E S \in SUBSET Outpoints : WritePartial(S) \/ WriteFails(S)) \/ WriteFinal
  \/ Shutdown
  \/ RollbackBlock \/ (\E b \in Blocks : RollforwardBlock(b)) \/ ReplayFlush

Next ==
  \/ InPlace
  \/ (\E b \in Blocks : ConnectTip(b)) \/ DisconnectTip
  \/ Crash \/ Wipe

Spec == Init /\ [][Next]_vars

-------------------------------------------------------------------------------
(* Type correctness. *)
TypeOK ==
  /\ db \in [Outpoints -> Coins]
  /\ best_db \in Blocks \cup {NoBlock} /\ best \in Blocks /\ old \in Blocks \cup {NoBlock}
  /\ heads = <<>> \/ heads \in (Blocks \X (Blocks \cup {NoBlock}))
  /\ tip \in [Outpoints -> Entry \cup {NoEntry}]
  /\ job \in {"idle", "flush", "abort", "rollback", "forward", "reflush"}
  /\ lost \in BOOLEAN /\ fault \in {"none", "spent", "fresh", "unclean", "lost"}

(* Flags mean what they say, however often the outpoint was spent,         *)
(* restored by a reorganisation and spent again since the last flush:      *)
(* where an entry is FRESH the database has no unspent coin (otherwise a   *)
(* coin that is spent, and forgotten, would come back), and where it is    *)
(* not DIRTY the database has the same coin.                               *)
EntriesSound ==
  \A o \in Held : /\ tip[o].fresh => db[o] = Spent
                  /\ ~tip[o].dirty => tip[o].coin = db[o]

(* No assertion fails and nothing throws: every input is there when its    *)
(* block is connected, a block disconnects cleanly, FRESH is not           *)
(* misapplied.  Only a write that failed can spoil the database.           *)
NoFault == fault \in {"none", "lost"}

(* A database that names a best block has exactly its unspent coins, even  *)
(* if the process died in the middle of a flush, or of the flush that      *)
(* ended the repair of another, unless a failed write was followed by the  *)
(* flush of Shutdown().                                                    *)
DatabaseConsistent == best_db # NoBlock /\ fault # "lost" => db = Utxo[best_db]

(* Refinement: caches, batches and repair together are a ledger that       *)
(* changes by whole blocks.  While the database is flushed or repaired the *)
(* ledger is at the block it is brought to; a flush counts from the first batch, *)
(* because the repair completes it.                                        *)
durable_best ==
  IF heads # <<>> THEN heads[1] ELSE IF best_db = NoBlock THEN Genesis ELSE best_db

Busy == job # "idle" \/ fault = "lost"

Ledger == INSTANCE UtxoLedger WITH
  coins <- IF Busy THEN Utxo[best] ELSE [o \in Outpoints |-> CoinAt(o)],
  durable <- [best |-> durable_best, coins |-> Utxo[durable_best]],
  NoCoins <- [o \in Outpoints |-> Spent],
  Applied <- LAMBDA b, c : [o \in Outpoints |-> IF Spends(b, o) THEN Spent
                                               ELSE IF Creates(b, o) THEN Height[b] ELSE c[o]],
  Removed <- LAMBDA b, c : [o \in Outpoints |-> IF Creates(b, o) THEN Spent
                                               ELSE IF Spends(b, o) THEN Undo(b, o) ELSE c[o]]

(* The coin database implements the ledger. *)
ImplementsLedger == Ledger!Spec
===============================================================================
