----------------------------- MODULE SubChainMeta -----------------------------
(***************************************************************************)
(* The registry of sub chains on a top-chain node, over the coin database. *)
(* A transaction registers a sub chain by its id.  Its place in the block  *)
(* files is written to psubchainmeta when its block is connected, before   *)
(* the coins of the block have reached their own database; the registry    *)
(* that getsubchainmetainfo answers from, CSubChainMetaMemPool, is in      *)
(* memory, and is fed by the memory pool.  Nothing is ever taken out of    *)
(* either while the process runs.  Both are modelled as sets of            *)
(* registrations.  Writes to psubchainmeta are not synced, but outlive the *)
(* process; a power loss is not modelled.                                  *)
(*                                                                         *)
(* GetPreTxId always returns null, so that only the first registration of  *)
(* an id is ever entered, and mapLastOperation has exactly the ids of the  *)
(* entries.                                                                *)
(***************************************************************************)
EXTENDS CoinsView, FiniteSets, SequencesExt

CONSTANTS Registrations,  \* block |-> the registrations in it, in order
          SubChainId,     \* registration |-> the id of its sub chain
          NullId,         \* that of a registration without an id
          HashOrder       \* all registrations, in the order of their hashes

VARIABLES
  psubchainmeta,    \* the registrations whose place has been written
  mapSubChainMeta,  \* CSubChainMetaMemPool
  mempool,          \* the registrations in the memory pool
  disconnectpool,   \* the registrations of blocks disconnected, the earliest first
  fReindex          \* DB_REINDEX_FLAG: the block files are being read again

metaVars == <<psubchainmeta, mapSubChainMeta, mempool, disconnectpool, fReindex>>

Txs == DOMAIN SubChainId
Of(b) == ToSet(Registrations[b])
ChainTxs == UNION {Of(b) : b \in Ancestors[best]}

ASSUME RegistrationsAssumption ==
  /\ DOMAIN Registrations = Blocks /\ \A b \in Blocks : Registrations[b] \in Seq(Txs)
  /\ Registrations[Genesis] = <<>>
  /\ HashOrder \in Seq(Txs) /\ ToSet(HashOrder) = Txs

MetaInit ==
  /\ Init
  /\ psubchainmeta = {} /\ mapSubChainMeta = {} /\ mempool = {}
  /\ disconnectpool = <<>> /\ fReindex = FALSE

-------------------------------------------------------------------------------
(* addToMemPool: the first registration of an id stays, one without an id  *)
(* is not entered.                                                         *)
addToMemPool(map, t) ==
  IF SubChainId[t] = NullId \/ \E e \in map : SubChainId[e] = SubChainId[t]
  THEN map ELSE map \cup {t}

(* addToMemPool of each registration in S, in the order they have in s:    *)
(* the first one of every id that is new.                                  *)
addEach(map, s, S) ==
  LET isNew(t) == SubChainId[t] # NullId /\ \A e \in map : SubChainId[e] # SubChainId[t]
      First(i) == ~\E j \in 1..(i - 1) : s[j] \in S /\ SubChainId[s[j]] = SubChainId[s[i]]
  IN map \cup {s[i] : i \in {i \in 1..Len(s) : s[i] \in S /\ isNew(s[i]) /\ First(i)}}

(* AcceptToMemoryPool, of a transaction from a peer, the wallet or         *)
(* mempool.dat.  The registration is entered before LimitMempoolSize,      *)
(* which may take any transaction out of the pool again.  In a reindex     *)
(* there are no coins yet that a transaction could spend.                  *)
AcceptToMemoryPool(t) ==
  /\ Ready /\ ~fReindex /\ disconnectpool = <<>>
  /\ t \notin mempool /\ t \notin ChainTxs
  /\ mapSubChainMeta' = addToMemPool(mapSubChainMeta, t)
  /\ mempool' \in SUBSET (mempool \cup {t})
  /\ UNCHANGED <<vars, psubchainmeta, disconnectpool, fReindex>>

(* ConnectTip: ConnectBlock has written the places of the registrations;   *)
(* the pool loses them, and whatever conflicts with the block.             *)
Connect(b) ==
  /\ ~fReindex /\ ConnectTip(b)
  /\ psubchainmeta' = psubchainmeta \cup Of(b)
  /\ mempool' \in SUBSET (mempool \ Of(b))
  /\ disconnectpool' = SelectSeq(disconnectpool, LAMBDA t : t \notin Of(b))
  /\ UNCHANGED <<mapSubChainMeta, fReindex>>

(* Mutant: a registration that is no longer in the chain is erased. *)
Disconnect_erases ==
  /\ DisconnectTip
  /\ psubchainmeta' = psubchainmeta \ Of(best)
  /\ disconnectpool' = Registrations[best] \o disconnectpool
  /\ UNCHANGED <<mapSubChainMeta, mempool, fReindex>>

(* DisconnectTip: psubchainmeta stays as it is. *)
Disconnect ==
  /\ DisconnectTip
  /\ disconnectpool' = Registrations[best] \o disconnectpool
  /\ UNCHANGED <<psubchainmeta, mapSubChainMeta, mempool, fReindex>>

(* The end of a reorganisation: those that AcceptToMemoryPool accepts go   *)
(* back to the pool, in the order they had in the chain.                   *)
UpdateMempoolForReorg ==
  /\ Ready /\ disconnectpool # <<>>
  /\ \E accepted \in SUBSET {disconnectpool[i] : i \in 1..Len(disconnectpool)} :
       /\ mapSubChainMeta' = addEach(mapSubChainMeta, disconnectpool, accepted)
       /\ mempool' \in SUBSET (mempool \cup accepted)
  /\ disconnectpool' = <<>>
  /\ UNCHANGED <<vars, psubchainmeta, fReindex>>

(* What a process has in memory when it starts.  Reading mempool.dat is a  *)
(* series of calls of AcceptToMemoryPool.                                  *)
StartsEmpty == mapSubChainMeta' = {} /\ mempool' = {} /\ disconnectpool' = <<>>

(* The process ends, and the next one starts: LoadSubChainMetaData is not  *)
(* called.                                                                 *)
Restart == Crash /\ StartsEmpty /\ UNCHANGED <<psubchainmeta, fReindex>>

(* A start with -reindex wipes psubchainmeta as well, one with             *)
(* -reindex-chainstate does not.                                           *)
Reindex == Wipe /\ StartsEmpty /\ psubchainmeta' = {} /\ fReindex' = TRUE

ReindexChainstate == Wipe /\ StartsEmpty /\ UNCHANGED <<psubchainmeta, fReindex>>

(* LoadSubChainMetaData: the transactions psubchainmeta knows, by hash. *)
LoadSubChainMetaData(map) == addEach(map, HashOrder, psubchainmeta)

(* The end of a reindex in ThreadImport.  The block files have been read,  *)
(* but no block after the genesis block is connected: that is left to      *)
(* ActivateBestChain, further down.                                        *)
ThreadImport ==
  /\ Ready /\ fReindex
  /\ mapSubChainMeta' = LoadSubChainMetaData(mapSubChainMeta)
  /\ fReindex' = FALSE
  /\ UNCHANGED <<vars, psubchainmeta, mempool, disconnectpool>>

MetaNext ==
  \/ InPlace /\ UNCHANGED metaVars
  \/ \E t \in Txs : AcceptToMemoryPool(t)
  \/ \E b \in Blocks : Connect(b)
  \/ Disconnect \/ UpdateMempoolForReorg
  \/ Restart \/ Reindex \/ ReindexChainstate \/ ThreadImport

MetaSpec == MetaInit /\ [][MetaNext]_<<vars, metaVars>>

-------------------------------------------------------------------------------
(* Nothing that the node relies on is missing from the registry, whichever *)
(* block a crash, a reorganisation or a repair has taken the chain back    *)
(* to.  The place of every registration of the chain is on disk: it is     *)
(* written before its block can be the best block of the coin database,    *)
(* and stays when the block is disconnected in memory only.  The sub chain *)
(* of every registration with an id in the memory pool is known, by this   *)
(* registration or an earlier one, but by one only.                        *)
RegistryComplete ==
  /\ ChainTxs \subseteq psubchainmeta
  /\ \A t \in mempool : SubChainId[t] # NullId =>
       Cardinality({e \in mapSubChainMeta : SubChainId[e] = SubChainId[t]}) = 1
===============================================================================
