# A TLA+ model of lightchain

lightchain runs two kinds of block chains side by side. The *top chain*
(`topchain/`) is a Bitcoin Core node that was extended with a registry of sub
chains and with a backup store for their blocks. A *sub chain* (`subchain/`) is
an EOSIO node: delegated proof of stake, a controller, a fork database and a
state database with undo. This project models the parts that carry the chains'
own logic: on the sub chain the undo database, irreversibility, fork switches, the
block log and the production loop, on the top chain the coin database, the
registry of sub chains, the script check queue and the store and relay of sub blocks. It
checks them with TLC on small instances and proves, with TLAPS and for every value of the
constants, what the checks say about all of them but liveness and `NoFault` in the presence of
crashes.

## 1. Inventory

Paths are relative to the repository. "State" is what the component keeps
between calls.

| Component | State | Operations | Talks to |
|---|---|---|---|
| chainbase `generic_index` (`subchain/libraries/chainbase`) | one table, `_next_id`, `_revision`, a deque of undo layers | emplace, modify, remove, start_undo_session, undo, squash, commit, set_revision | written by transaction execution; sessions opened by controller and transaction context |
| chainbase `database` | one `generic_index` per object type, memory-mapped file, dirty flag | the same, on every index in step; add_index; flush | controller |
| `block_header_state` (`subchain/libraries/chain`) | per block: confirmations, proposed and irreversible numbers, active and pending schedule | generate_next, next, set_confirmed, set_new_producers, maybe_promote_pending | controller (own blocks), fork database (received headers) |
| `fork_database` | reversible block states in four orders, the head, `forkdb.dat` | add, remove, prune, set_validity, mark_in_current_chain, fetch_branch_from, close | controller; signals `irreversible` |
| `controller` | head, pending block, chain state, reversible-block database, block log, unapplied transactions | start_block, push_transaction, finalize/sign/commit_block, push_block, maybe_switch_forks, pop_block, on_irreversible, init, replay | all of the above; signals to plugins |
| `block_log` | `blocks.log`, `blocks.index` | append, open, construct_index, repair_log, reset | controller |
| `resource_limits` | usage accumulators, limits, totals | add_transaction_usage, add_pending_ram_usage, process_account_limit_updates, process_block_usage | transaction execution |
| authorization | permission tree | check_authorization, authority_checker::satisfied | transaction execution |
| transaction execution | `transaction_context`, `apply_context`, deferred transactions | exec, schedule_deferred_transaction, undo, squash | controller, chainbase |
| `producer_plugin` | production timer and its correlation id, watermarks, blacklists, pending incoming transactions | schedule_production_loop, start_block, produce_block, on_incoming_block, on_incoming_transaction_async | controller, bnet_plugin |
| `chain_plugin` | -- | recover_reversible_blocks, import/export, replay and hard replay options | controller at start |
| `bnet_plugin` | per session: what the peer is known to have, its last irreversible block | send_next_block, on_packed_block, purge | controller signals, peers |
| sub-block backup (`topchain/src/validation.cpp`, `txdb.cpp`) | `subblkNNNNN.dat` files, `vinfoSubBlockFile`, `mapSubBlockIndex`, `psubblocktree` | ProcessNewSubBlock, FindSubBlockPos, FlushSubBlockFile, ReadSubBlockFromDisk, FlushStateToDisk, LoadSubBlockIndex | peer network; shares flush and `cs_main` with Bitcoin's block store |
| sub-chain registration (`topchain/src/txmempool.cpp`, `primitives/extdata.h`) | places of registering transactions (`psubchainmeta`), registered sub chains in memory (`CSubChainMetaMemPool`) | addToMemPool, LoadSubChainMetaData, RPC queries | memory pool, ConnectBlock, wallet RPC |
| sub-block relay (`topchain/src/net_processing.cpp`, `net.cpp`) | what each peer has been offered and asked for | inv, getdata, subblock messages | sub-block backup |
| coin database (`topchain/src/coins.cpp`, `txdb.cpp`) | `pcoinsTip` with DIRTY and FRESH entries, DB_COIN, DB_BEST_BLOCK, DB_HEAD_BLOCKS | ConnectTip, DisconnectTip, AccessCoin, Uncache, Flush, ReplayBlocks | block validation, memory pool, shutdown |
| script check queue (`topchain/src/checkqueue.h`) | queue, nTodo, nIdle, nTotal, fAllOk, two condition variables, ControlMutex | Add, Wait, Thread (Loop) | ConnectBlock and worker threads |
| the rest of `topchain/` | Bitcoin Core consensus, memory pool, network, wallet | as upstream | -- |
| plugins for wallet, history, http, faucet; cleos; ABI, WASM | -- | I/O, formatting, code generation | -- |
| `baselib/`, externals | general C++ libraries | -- | -- |

What is hard here, and which properties make each component correct:

* **Undo by deltas.** The state database never copies a table. Each layer of an
  undo stack records how to reverse the writes above it; layers are pushed,
  popped, merged and dropped at the bottom, by blocks, transactions and fork
  switches in any nesting. Correct means: each layer, not just the top one,
  always takes the table back to exactly the moment it was opened.
* **Irreversibility under schedule changes.** Confirmations are counters. That
  they count distinct producers, that irreversible numbers do not run ahead of
  proposed ones, and what happens when the set of producers changes while blocks
  are being confirmed depends on long sequences of headers.
* **Fork switches.** They pop and apply block by block, may fail in the middle
  and must then be reversed; five stores (chain state, fork database, reversible
  blocks, block log, unapplied transactions) must keep agreeing, at every point
  at which the process may die.
* **Restarts.** The fork database's file is written only on a clean shutdown;
  after a crash the node replays log and reversible blocks. A restart must come
  back to the head the node had.
* **Several files and an index.** The sub-block store appends to files, rolls over
  and flushes, and keeps its index in another database, saved at other times.
* **A loop kept alive by one timer.** The production loop runs again only if a timer or
  a handler runs it; handlers of expired timers cannot be cancelled and meet a chain
  that has moved on. Each block must be shipped for the slot and on the head it was
  begun for, no slot may be slept through, and no number confirmed twice.
* **Two files written in turn.** The block log and its index are written, flushed,
  rebuilt and repaired separately, and the process may stop after any write.
* **Write-back caches over a database without transactions as large as a flush.** A
  flush goes out in batches, and blocks must be rolled back and forward over whatever
  mixture a crash leaves, which may be that of an earlier repair.
* **Threads and condition variables.** Checks of one block are run by many threads; no
  notification may be lost, and nothing of one block may leak into the next.
* **Announcements over connections that fail.** A sub block is announced once, requested
  from one peer at a time, two minutes apart, and answered or not.

`PROJECT.json` lists every component and, under `hazards`, each such place with
its line.

## 2. Modules

```
UndoLog  <-refines-  GenericIndex  <-  MCGenericIndex

BlockHeaderState  <-  HeaderChain  <-  MCHeaderChain
        ^ (checks the trees of)
ForkDatabase  <-  Controller  <-  MCController

ProducerLoop  <-  MCProducerLoop          BlockLog  <-  MCBlockLog

UtxoLedger  <-refines-  CoinsView  <-  SubChainMeta  <-  MCCoinsView

CheckQueue  <-  MCCheckQueue
SubBlockStore  <-  MCSubBlockStore        SubBlockRelay  <-  MCSubBlockRelay
```

The proofs about a module `M` are in `MProofs`, which extends it: `GenericIndexProofs`,
`HeaderChainProofs`, `ControllerProofs`, `ProducerLoopProofs`, `BlockLogProofs`,
`SubBlockStoreProofs`, `SubBlockRelayProofs`. `TopChainProofs` extends `SubChainMeta` and
`CheckQueue`, and so covers the coin database, the registry and the check queue.

### chainbase: `UndoLog`, `GenericIndex`

`UndoLog` is what a table with undo sessions promises: the table and a stack of
full snapshots; opening pushes the table, undo goes back to the top snapshot,
squash forgets the top one, commit forgets from the bottom.

`GenericIndex` is the code. A row is a record of a unique key and data; a
`std::map` of rows is a function that is `Absent` where there is no entry.

| TLA+ | code |
|---|---|
| `indices`, `next_id`, `revision`, `stack` | `_indices`, `_next_id`, `_revision`, `_stack` |
| `emplace`, `modify`, `remove` with `on_create`, `on_modify`, `on_remove` | the methods of the same names |
| `modify_throws`, `undo_throws` | the exits through `BOOST_THROW_EXCEPTION`, with what was done before them |
| `Reverse`, `Unrestorable`, `undo` | the three loops of `undo()` |
| `Merged`, `squash` | the case matrix of `squash()` |
| `commit`, `set_revision`, `start_undo_session` | the methods of the same names |

`saved` is a history variable: the table and cursor when each session was
opened. `fault` records that a call threw in the middle of a write; properties
speak about `sound` states, those where that has not happened.
`Rekey` says whether a lambda given to `modify()` may change a unique key. No
caller in `libraries/chain` does; the code does not forbid it, and the run lets it
happen.

### Headers: `BlockHeaderState`, `HeaderChain`

`BlockHeaderState` has the methods of `block_header_state` as functions from a
header state to that of the next block (`generate_next`, `set_confirmed`,
`maybe_promote_pending`, `calc_dpos_last_irreversible`, and what
`controller::start_block` does with a proposed schedule). `HeaderChain` follows
one chain: a step is a block by any active producer with any number of
confirmations that `next()` accepts, or a schedule proposal in the current
block. Block numbers are `uint32_t`: the subtraction in the test of `next()` is modulo
`Modulus`, so that a header which carries more than its block number (`Wraps`; a header
may carry any `uint16_t`, `MaxConfirmed`) passes it, whatever its producer has confirmed
before. With `Confirms = "all"` headers carry what a producer's own `start_block` asks for:
nothing for one without a watermark (`watermarks`), else all blocks since it.
`confirmers`, `repeated` and `needed` are history variables: who has confirmed a block,
how often a wrapping header made such a confirmation again, and how many the block needs.

### Fork database and controller: `ForkDatabase`, `Controller`

The blocks there can ever be are a constant, `Tree`: parent, irreversible number,
producer, confirmations, transactions, and whether this node makes the block or
receives it. `MCController` has two trees; `ASSUME TreeFollowsHeaderRules` makes
TLC recompute each block's number and irreversible number with
`BlockHeaderState`, so that no tree has headers the code would not produce.

`ForkDatabase` has the methods of `fork_database` as operators on its contents.
`f.blocks` is the index, and `f.before` the order in which blocks of one number were
inserted: `oldest` and `best` are the first elements of the indexes `by_block_num` and
`by_lib_block_num`, with ties in insertion order as in `boost::multi_index`.

| action | code |
|---|---|
| `start_block`, `push_transaction`, `drop_unapplied_transaction`, `abort_block` | the methods of the same names |
| `commit_block` | `finalize_block`, `sign_block`, `commit_block` of a block of one's own, including what its `add` makes irreversible |
| `push_block` | `push_block` up to the start of `maybe_switch_forks` |
| `extend`, `switch_pop`, `switch_apply`, `switch_unpop`, `switch_reapply` | one step of a loop of `maybe_switch_forks` each: extending the head, popping the old branch, applying the new one, and after a bad block popping it again and applying the old one |
| `shutdown`, `startup` | destructors and `fork_database::close`; `init` on a clean database |
| `crash`, `replay_block`, `replay_done` | the process dies anywhere; `--replay-blockchain --fix-reversible-blocks`, `recover_reversible_blocks` |

Each `FC_ASSERT` or `EOS_ASSERT` that the authors expect to hold is a value of
`fault`; nothing is modelled after one has failed. Two values stand for what goes wrong
without an assertion: `"stray"`, a start whose head is not the block that state and
reversible blocks belong to, and `"below"`, a switch to a branch that parts from the log. The controller runs in one
thread, so a call is split only where the process may die half way.

### Top chain: `SubBlockStore`

A file is a row of cells, in two versions: what a read sees (`files`) and what is
on the disk (`stable`). Actions are `ProcessNewSubBlock`, the same without disk
space, `ProcessGetData`, `FlushStateToDisk`, `FlushStateToDisk_fails`, `FindBlockPos` (the
top chain moves on to its next block file, which matters because `FlushSubBlockFile` reads
`nLastBlockFile`), `Restart` and `PowerLoss`. A flush fails in one of two ways: before it
comes to the sub blocks (no disk space, or the top chain's index cannot be written), and
their entries stay dirty; or when it writes them, and they are no longer dirty.
`dropped` is a history variable with the latter. The flushes of `Shutdown` in `Restart`
may fail too. A read past the end of
`vinfoSubBlockFile` in `FlushSubBlockFile` is undefined and yields any size.

The relay's view of a node's store is one set (`mapSubBlockIndex` of `SubBlockRelay`), of
which a crash may lose any part; `SubBlockStore` is what that set stands for.

### The production loop: `ProducerLoop`

Handlers run one at a time on the application's event loop, so that each is one
action. Time has two units a slot: an even time is the beginning of a slot, an odd one
its last tenth, in which `start_block` skips to the slot after next.

| TLA+ | code |
|---|---|
| `head`, `pending`, `mode`, `watermark`, `enabled`, `paused` | head and pending block of the controller, `_pending_block_mode`, `_producer_watermarks`, `_production_enabled`, `_pause_production` |
| `timer`, `queued` | `_timer`, and the handlers of expired timers; `current` says whether a handler's correlation id is still `_timer_corelation_id` |
| `lib_old` | `_max_irreversible_block_age_us` is exceeded |
| `block_slot`, `may_produce`, `blocks_to_confirm` | the three decisions of `start_block` |
| `next_block_slot`, `wake_up_slot` | `calculate_next_block_time` and the minimum over local producers |
| `schedule_production_loop` | the method, with its four ways of setting, or not setting, the timer |
| `Expire`, `Outdated`, `Wake`, `Ship` | a timer expires (from then on it cannot be cancelled); its handler finds itself outdated, runs the loop, or calls `maybe_produce_block` |
| `on_incoming_block` | the method; the new head is any that `push_block` may lead to, also after a fork switch |
| `pause`, `resume`, `update_runtime_options`, `LibAges` | the methods, and the irreversible block growing old |

`confirmed`, `made` and `excused` are history variables; `excused` collects the slots
for which there was a reason not to make a block, so that `NoSlotMissed` can say that
there is none without one. The schedule does not change; with two schedules
`produce_block` (1065-1081) gives new local producers a watermark, which only makes them
more careful.

### The block log: `BlockLog`

A file is a sequence of cells (version, genesis state, block, position); a position is
the number of a cell. `lsync` and `isync` say how much of each file has left the
stream's buffer. `crash` keeps that much and any part of the rest, the last cell of it
possibly torn; `power_loss` keeps any part of all of it, because nothing is ever synced
to the disk. `stream` is `"good"`, `"bad"` after a write or a flush has thrown (`append` then
throws, until a read closes and opens the streams again), or `"closed"` when that closing
could not write the buffer: `check_block_read` and `check_index_read` then throw before they
open the stream, and every later call does. A torn block that its own position follows
may be taken for any block by `read_head`, or for none.

| action | code |
|---|---|
| `open` with `read_head`, `index_fits`, `construct_index` | the methods; `index_fits` is the comparison of the last positions |
| `reset_to_genesis`, `write_version` | the log is set up with an invalid version, which is replaced last |
| `append`, `append_throws`, `flush_block`, `flush_index` | `append` up to its `flush`, a write of the block that fails, and the two flushes |
| `flush_block_throws`, `flush_index_throws` | a flush fails after `head` and the index entry were set; the block, or what follows the part of it that was passed on, stays in the buffer |
| `read_block`, `read_block_throws` | the streams are closed and opened again for reading (`check_block_read`, `check_index_read`), which writes the buffers and forgets errors, or fails to |
| `repair_log`, `delete_all_blocks` | `--hard-replay-blockchain` with or without `--truncate-at-block`, `--delete-all-blocks` |

`acked` is a history variable: the blocks whose `append` has returned. It is a set, not a
number, because a block whose flush has thrown may be below one whose flush has not.

### The coin database: `UtxoLedger`, `CoinsView`

`UtxoLedger` is the promise: the coins of the best block, changed by whole blocks, and a
durable copy that a flush replaces as a whole, a crash goes back to, and a rebuild
empties. `CoinsView` is
the code: `FetchCoin`, `AddCoin`, `SpendCoin` and `BatchWrite` are the methods of
`CCoinsViewCache` for one outpoint, given the entry and the coin of the view below; what
they do does not depend on other outpoints, so that a block is applied to all of them at
once. The actions are `ConnectTip` and `DisconnectTip` (a view over the tip, and its
flush into the tip), `AccessCoin` and `Uncache` of the memory pool, `Flush`,
`WritePartial`, `WriteFails`, `WriteFinal` for the batches of `CCoinsViewDB::BatchWrite`,
`Shutdown`, `Crash`, `Wipe` (a start with `-reindex` or `-reindex-chainstate`), and
`RollbackBlock`, `RollforwardBlock`, `ReplayFlush` for
`ReplayBlocks`. The refinement maps a flush to its first batch: from then on the repair
completes it.

### The registry of sub chains: `SubChainMeta`

A composition: each action that moves the chain of `CoinsView` is joined with what
happens to the registry in the same call, and its other steps leave the registry alone.

| TLA+ | code |
|---|---|
| `psubchainmeta`, `mapSubChainMeta`, `mempool` | the database of places, `CSubChainMetaMemPool`, the registrations in the memory pool |
| `AcceptToMemoryPool`, `addToMemPool` | a registration enters the pool and the registry; `LimitMempoolSize` may drop any from the pool |
| `addEach` | what a loop of `addToMemPool` leaves behind: the first registration of every id that is new |
| `Connect`, `Disconnect`, `UpdateMempoolForReorg` | `ConnectTip`, `DisconnectTip` with `disconnectpool`, and the end of a reorganisation |
| `Restart`, `Reindex`, `ReindexChainstate`, `ThreadImport` | the three ways of starting, and the end of a reindex with `LoadSubChainMetaData` |

### The check queue: `CheckQueue`

A critical section of `CCheckQueue` is one action: `Loop` takes the mutex, `Resume` comes
back from `cond.wait`, and both go on with `Proceed`, which takes a batch, returns, or
waits. `Execute` runs a batch. `Control`, `Add`, `Wait`, `Return` are the master in
`ConnectBlock`. A waiting thread is woken by a notification, spuriously, or by an
interruption, which in a master leads through `~CCheckQueueControl` into a second
`Wait()`.

### The relay of sub blocks: `SubBlockRelay`

| TLA+ | code |
|---|---|
| `commitsubchaininfo` | the RPC with a backup transaction: store, commit the transaction (may fail), `RelaySubBlock` |
| `SendMessages` | the parts of `SendMessages` about sub blocks: the inventory, and requests that are due |
| `Room`, `Taken`, `New`, `request_time` | `CNode::AskFor`: its early returns, when `setAskFor` or `mapAskFor` is full and when the hash is already in `setAskFor`, and the time of the request |
| `handle_inv`, `ProcessGetData`, `handle_subblock` | the message handlers; the last ignores that a block could not be stored |
| `Forsaken` | announced again, but in `setAskFor` since an answer that could not be stored |
| `Tick`, `Synced`, `Disconnect`, `Connect`, `Crash` | two minutes pass, the initial download ends, connections and nodes fail |

Times are relative to the clock and in units of the two minutes that `AskFor` waits; a
time long past is -1. `promised` is a history variable: announcements that neither a
dropped connection nor the peer itself, by passing them over or failing to store the
answer, has done away with.

## 3. Runs

All runs but `check_queue` say `CHECK_DEADLOCK FALSE`: blocks, restarts, files and time
run out (they are bounds), or a node has stopped on a failed assertion. The check queue
must never get stuck: there, a state without a step is an error, and only a terminated
process stutters.

Fairness is assumed in two modules; all other properties are invariants, action
properties or refinements without liveness and hold of every finite prefix of a
behaviour.

* `CheckQueue`: weak fairness of each thread's `Loop`, `Resume` and `Execute`, and of the
  master's way to the end of `ConnectBlock`. A thread that is not blocked in `cond.wait`
  only needs the processor and a mutex that is held for bounded sections, and a check ends.
  No fairness for `Spurious`, `Interrupt` or `Control`.
* `SubBlockRelay`: weak fairness of `SendMessages` or a message handler for each peer, and
  of time. `ThreadMessageHandler` goes round all peers without end. No fairness for
  sending blocks, connecting, or finishing the download.

### Passing

| run | what is checked | bounds |
|---|---|---|
| `index_undo` | with key changes: `LayersReverse`, `SquashMatrix`, `RevisionsConsecutive`, `KeysStayUnique`, `UndoBlockedOnlyByRekey` (nothing but a key that was moved can stop `undo()` half way), and `ImplementsUndoLog`: deltas refine snapshots | 3 rows, 2 keys, 2 data values, 3 sessions deep. Two layers are enough to merge; the third shows that layers away from the top are left alone. Every cell of the squash matrix occurs; a key can move to another row and back |
| `header_chain` | `ConfirmationsDistinct`, `LibBehindProposed`, `ScheduleVersions`, `LibAdvances` | 9 blocks, 3 producers, schedules of 0 to 3 producers, confirmation counts from 0 to 10, which is above the highest block number, so that the subtraction of `next()` wraps at every block; `Modulus` is 64, far above both; at most 3 tracked confirmations, so that the array's limit is met. Nine blocks hold two complete schedule changes |
| `controller_forks` | `NoFault`, `StateFollowsHead`, `HeadIsBest`, `UnappliedNotApplied`, `NoForkBelowLog`, `SwitchOrRestore`, `RestartKeepsHead` | 18 blocks in three branches, two blocks that may be invalid (the end of one branch, the middle of another), two transactions that occur in different blocks of two branches, one shutdown, one crash. The irreversible number jumps from 4 to 6, over the first blocks of the branches, while pruning takes one block for each block added |
| `subblock_store` | `PlacesDisjoint`, `ServesInFirstRun`, `RestartKeepsIndex` | 3 blocks of sizes 1, 2 and 3 and files of 6 cells, so that all ways of filling and rolling over a file occur; two stores or flushes that fail, in either way, one restart, one power loss. With two failures a flush can fail before the flushes of `Shutdown` do |
| `producer_loop` | `LoopArmed`, `NoSlotMissed`, `ShipsWhenDue`, `ConfirmsOnce` | a schedule of four with two local producers apart and two slots each, 7 slots (a local turn, a gap, the beginning of the other's), two received blocks, one failure, one switch of policy. Two received blocks allow a fork switch and a block after it |
| `block_log` | `IndexExact`, `AcknowledgedKept`, `OpensAfterStop` | 5 blocks, two crashes, one power loss, two failed writes, flushes or closings: a crash during recovery from a crash, a torn block before and inside the log, and a stream that cannot be closed after its flush has failed |
| `subblock_relay` | `OneRequestPerPeer`, `AsksHolders`, `AnnouncedArrives` | two nodes that sub blocks are handed to, one peer of both, two sub blocks of which one is handed to either, three calls, one dropped connection, one crash, one received block that cannot be stored; the limits of `setAskFor` and `mapAskFor` are 0, so that both are met |
| `coins_view` | `EntriesSound`, `NoFault`, `DatabaseConsistent`, `ImplementsLedger`; of `SubChainMeta`, `RegistryComplete` | 8 blocks in two branches, 6 outpoints, among them one spent at different heights in both branches, one created and spent in one block, one created in both; any number of flushes, failed writes, crashes and rebuilds, and every way of splitting a flush into batches. Two registrations of one id, one of them in both branches |
| `check_queue` | `TodoCounts`, `ResultExact`, `ChecksBelongToControl`, `WaitReturns` | two workers, two masters, batches of at most 2, 4 checks per block in transactions of 1 or 2, one interruption: one batch and several, one worker asleep and both |

Each module has a type invariant, `TypeOK` (`QueueTypeOK` in `CheckQueue`), for use in proofs. It is proved, as a part of
the inductive invariant, wherever there is a proof module. The configurations list what
says more.

The limits of what these say: `ServesInFirstRun` and `PlacesDisjoint` speak of the
first run of a node whose sub blocks have filled at most one file while the top
chain is in its first block file. `FlushSubBlockFile` (`validation.cpp:1612`)
truncates the file it leaves with `vinfoSubBlockFile[nLastBlockFile]`, the entry of
another file as soon as the two numbers differ; outside these conditions the
properties do not hold. `NoFault` excepts a failed start when the log has only the
genesis block; it holds for trees without a leap (`NoLeap`, which TLC evaluates on the
tree of `controller_forks`) and one clean restart. `controller_leap` and the remark on
`forkdb.dat` below show that both are needed.
`LibAdvances` excepts the block right after a promotion (see `header_commit`).
`ConfirmsOnce` speaks of one run of the process: watermarks are not durable.
`NoSlotMissed` counts a slot as excused if a received block, `resume` or a change of
policy aborts the pending block at its time or in the last tenth before it; `Tick`
assumes that the event loop is not overloaded. `ConfirmationsDistinct` does not say that
no producer is counted twice: a header whose count wraps around repeats confirmations, and
they are counted apart (`repeated`); in a chain without such headers `repeated` is 0 and all
confirmations of a block are of different producers. `IndexExact` excepts a
log with a torn block inside, and one whose stream could not be closed. `RestartKeepsIndex`
excepts the entries whose own write to the database failed: those that a failed flush had
taken from the dirty ones, and those still dirty when `Shutdown` could not flush either. `DatabaseConsistent` and the refinement
except a database to which a failed write was followed by the flush of `Shutdown()`;
after a failed write `CoinsView` connects no further block. `RegistryComplete` says nothing of a power loss, nor
of the registry in memory after a restart (see below). `AnnouncedArrives` excepts peers whose connection drops, who
are still downloading, whose `setAskFor` or `mapAskFor` is full, or who could not store what
this announcer sent them.

### Violations

Each states what a comment or an assertion of the repository says. They are
behaviours of the model; they have not been reproduced on a running node.

| run | property and its source | what TLC finds |
|---|---|---|
| `header_commit` | `CommittedBecomesHead`; assertion in `commit_block`, `controller.cpp:412` | a schedule of four becomes one of three; the position (n-1)/3 in the shorter list picks a smaller number, and the next block sorts behind its parent |
| `controller_leap` | `PopFindsPrevious`; assertion in `pop_block`, `controller.cpp:74`, "attempt to pop beyond last irreversible block" | of four producers two move from one branch to the other, whose last block takes the irreversible number from the fork point to three above it. A node that is still on the first branch adds that block; `add` (`fork_database.cpp:134`) prunes the fork point, and the switch that follows pops down to a block whose parent is gone |
| `subblock_restart` | `ServesWhatItKnows`; assertion at `net_processing.cpp:1229` | a restart forgets file sizes, and the next block overwrites the first |

Other disagreements met while modelling, without a run of their own (the first three
were found with TLC in instances of these modules):

* `undo()` throws half way when a unique key was modified and its old value given to a
  new row of the same session, although its comment (`chainbase.hpp:309`) says that it
  restores the state. Latent: no caller rekeys a row. `UndoBlockedOnlyByRekey` says that
  this is the only way.
* With only the genesis block in the log, a replay never reads the reversible blocks
  (`controller.cpp:198`) and fails every time with "reversible block database is
  inconsistent with fork database, replay blockchain" (233).
* `forkdb.dat` is reloaded in hash order (`fork_database.cpp:66`). A failed switch after such
  a start picks another block of equal rank as the head of the fork database, the next
  shutdown saves that one, and the start after it takes it for the head of a state and of
  reversible blocks of another branch (`fault = "stray"` in `Controller`; `controller_forks`
  with two restarts shows it). The assertion at `controller.cpp:232` compares numbers only.
* `CCoinsViewDB::BatchWrite` erases entries from the cache before their batch is written
  (`txdb.cpp:108`). If the write fails, `FlushStateToDisk` aborts the node, and
  `Shutdown()` (`init.cpp:225`, 241) flushes again: if writes work by then, the database
  is declared consistent without the lost entries (`fault = "lost"` in `CoinsView`).
* `block_header_state::next` compares with `result.block_num - h.confirmed` in `uint32_t`
  (`block_header_state.cpp:158`, "producer ${prod} double-confirming known range"): a header
  that carries more than its block number passes, and the confirmations its producer has
  already given to tracked blocks are counted again. It takes a block number below 2^16.
* `FlushStateToDisk` takes the entries of sub blocks out of `setDirtySubBlockIndex` before
  it writes them (`validation.cpp:2087-2093`): if the write fails, the flushes of `Shutdown()`
  do not try them again, and they are missing after the restart.
* The SUBBLOCK handler ignores the result of `ProcessNewSubBlock`
  (`net_processing.cpp:2691`): a block that could not be stored stays in `setAskFor`, and is
  not asked for again over that connection.
* `append` gives `head` and the index a block before its flush (`block_log.cpp:185-189`). If
  the flush throws, the controller is told that the append failed, while `head()` names the
  block; it reaches the file when a read closes the stream, and if that fails too, every
  later call of the log throws.
* A write to the block log that fails half way is not truncated; if the node goes on and
  a later append succeeds, `construct_index` and `repair_log` stop at the torn block
  (`block_log.cpp:316`, 386).
* `repair_log` moves the blocks directory away before it checks the version
  (`block_log.cpp:342`, 362): if the check fails the node has an empty log at its next
  start.
* The SUBBLOCK handler does not erase the hash from `setAskFor` as the TX handler does
  (`net_processing.cpp:2671` and 2159), so that the set of a peer grows to its limit and
  its announcements are then ignored.
* The correlation id of the production timer is not incremented when
  `schedule_production_loop` sets no timer (`producer_plugin.cpp:1003`), although the comment
  at 157 says that it tells handlers that "this method has been called". A queued handler
  then still runs; `ShipsWhenDue` shows that it ships nothing wrong.
* `LoadSubChainMetaData` ("Load subchain  metadata to subchainmempool", `txmempool.cpp:1165`)
  is called only in a reindex (`init.cpp:685`), when `psubchainmeta` has been wiped and
  `ActivateBestChain` has not yet connected a block: it finds nothing. At a normal start it
  is not called. A node therefore knows only the sub chains whose registration it has seen
  in its memory pool since it started, and may enter a second registration of an id that
  the chain has. It would also enter registrations by their hashes, not in chain order.
* `GetEntryBySubChainId` (`txmempool.cpp:1145`) goes on to the end of the index and returns
  the entries of other sub chains as well.
* `squash()` of the only layer pops it without decrementing the revision
  (`chainbase.hpp:345-351`); the comments at 340 and 530 say that it decrements it.
* Transactions of received blocks are not put back when the block is popped
  (`controller.cpp:81`: only blocks this process made carry `trxs`), although the
  comment at `controller.cpp:66` and `block_state.hpp:24` read as if they were.
* `FlushStateToDisk` syncs `psubblocktree` (`validation.cpp:2091`) without having
  committed the sub-block files (2057 commits the top chain's only): after a power
  loss the index may point at blocks that never reached the disk. That is why no
  property about served blocks covers `PowerLoss`.

Every property of a passing run has a mutant in `PROJECT.json`: a variant of one
mapped definition, written just above it, under which TLC finds the property
violated in the same configuration.

## 4. Proofs

The proof modules hold, for every value of the constants that satisfies the named
assumptions:

| module | theorem | establishes |
|---|---|---|
| `GenericIndexProofs` | `TypeCorrect`, `UndoStackReverses`, `UniqueKeysKept`, `SquashCellsExcluded`, `UndoThrowsOnlyAfterRekey` | `TypeOK /\ RevisionsConsecutive`, `LayersReverse`, `KeysStayUnique`, `SquashMatrix`, `UndoBlockedOnlyByRekey` |
| | `DeltasImplementSnapshots` | the refinement `ImplementsUndoLog` |
| `HeaderChainProofs` | `ConfirmedByDistinct`, `LibNotAhead`, `VersionsConsecutive` | `ConfirmationsDistinct`, `LibBehindProposed`, `ScheduleVersions` |
| | `LibMoves` | the action property `LibAdvances` |
| | `NewProducersAccepted` | the assertions of `set_new_producers` never fail |
| `ProducerLoopProofs` | `TypeCorrect`, `AlwaysArmed`, `SlotsKept` | `TypeOK`, `LoopArmed`, `NoSlotMissed` |
| | `ShippedWhenDue`, `ConfirmedOnce` | the action properties `ShipsWhenDue`, `ConfirmsOnce` |
| `ControllerProofs` | `TypeCorrect`, `StateOfHead`, `BestHeadKept`, `UnappliedClear`, `ForksEndAtLog` | `TypeOK`, `StateFollowsHead`, `HeadIsBest`, `UnappliedNotApplied`, `NoForkBelowLog` |
| | `SwitchesEnd`, `HeadSurvives` | the action properties `SwitchOrRestore`, `RestartKeepsHead` |
| | `FaultsKnown` | `OnlyKnownFaults`: for any tree, restarts and crashes, of all the assertions only those of `pop_block`, of an empty fork database, and of a replay from the genesis block can fail, and only `"stray"` (from the second restart on) and `"below"` can go unnoticed |
| | `NoFaultWithoutLeap` | `NoFault`, if `NoLeap`, without crashes and with at most one clean restart |
| `BlockLogProofs` | `IndexFindsBlocks`, `BlocksKept`, `OpensAgain` | `IndexExact`, `AcknowledgedKept`, `OpensAfterStop` |
| `TopChainProofs` | `FlagsSound`, `NothingThrows`, `DatabaseExact` | `EntriesSound`, `NoFault`, `DatabaseConsistent` |
| | `CoinsImplementLedger` | the refinement `ImplementsLedger` |
| | `RegistryNeverMisses` | `RegistryComplete` |
| | `TodoCounted`, `WaitExact`, `QueueUnusedBetweenBlocks` | `TodoCounts`, `ResultExact`, `ChecksBelongToControl` |
| `SubBlockStoreProofs` | `TypeCorrect`, `DisjointPlaces`, `ServedInFirstRun` | `TypeOK`, `PlacesDisjoint`, `ServesInFirstRun` |
| | `IndexSurvivesRestart` | the action property `RestartKeepsIndex` |
| `SubBlockRelayProofs` | `TypeCorrect`, `HoldersAsked`, `RequestedOnce` | `TypeOK`, `AsksHolders`, `OneRequestPerPeer` |

### Assumptions

All are in the modules that declare the constants, and TLC evaluates them in each run.
Most say only that bounds are natural numbers and that null values are not values. The
others:

* The bounds on time, blocks, crashes, restarts and so on are any natural numbers
  (`MaxSlot` at least 1: the loop begins in slot 1), so that a theorem covers behaviours of
  any length.
* `HeaderChain`: block numbers stay below `Modulus`, that is 2^32; `MaxConfirmed`, the
  largest count of a header, is any number.
* `ForkDatabase`: `TreeAssumption` (a finite tree; numbers are one more than the parent's)
  and `LibAssumption`: a block's irreversible number is below its own, and does not fall
  along a chain. The first is proved for header chains (`LibNotAhead`), the second
  (`LibMoves`) with one exception, the block after a promotion that shrinks the producers.
  What happens then is the subject of `header_commit`; trees with such a block are left out.
* `Controller`: `ControllerAssumption`, no transaction is twice in a chain
  (`record_transaction` refuses the second), and blocks of the node's own are valid.
  `NoFaultWithoutLeap` has the further hypothesis `NoLeap`, a property of the tree: when a
  block makes an ancestor irreversible, the block before it already outranks every block
  that does not build on that ancestor. `ForkTree` of `MCController` has
  it (`TreesDoNotLeap`), `LeapTree` has not.
* `ProducerLoop`: the schedule is not empty and names no producer twice
  (`set_proposed_producers` refuses it, `wasm_interface.cpp:162`), and local producers are in it.
* `SubBlockStore`: the set of sub blocks is finite, and a block fits into a file
  (`ProcessNewSubBlock` is reached with no other). `SubBlockRelay`: the set is finite as
  well; a sub block is known by its hash, and hashes have a fixed width.
* `CheckQueue`: finitely many threads, a batch has at least one check.
* `CoinsView`: `TreeAssumption` (heights are one more than the parent's, which
  `AddToBlockIndex` sees to; inputs are outputs of some block) and `ValidAssumption`: at
  each block an output that is created is not in the coins before, and an input is, or is
  created in the block itself. That is what `CheckTxInputs` and the BIP30 check in
  `ConnectBlock` establish before the caches are touched; invalid blocks are not modelled.
  `RegistrationsAssumption`: the genesis block registers no sub chain.

### Arguments

**`GenericIndex`.** `TypeOK /\ RevisionsConsecutive` is inductive: the type of the top
layer's revision is needed so that `undo` and `squash` leave a revision that is in range.

`LayersReverse` is not inductive. That a layer takes the table back says nothing
about which of its containers has which row, and `on_modify` and `on_remove`
decide by that; after a write to a row that is in two containers, or in
`new_ids` though it already existed below, the layer would no longer be right.
`IndInv` therefore says, for each layer, between the snapshot above it and
its own (`LayerInv`): the containers are disjoint; rows in `new_ids` and
`old_values` exist above, rows in `removed_values` do not; new rows have ids not
below the cursor at opening, and below that session no row had such an id. The
last part is what makes `emplace` safe (an id is never used twice) and what
excludes the cells of the squash matrix marked N/A. The proof has one lemma per
kind of write (`EmplaceLayer`, `ModifyLayer`, `RemoveLayer`), one for
squash (`MergeLayers`: the merged delta of two adjacent layers is a delta between
the outer snapshots), one saying that a write reaches only the top layer
(`WriteStep`), and one step per action. Keys stay unique because every table of
the stack is one that the table itself has been. `SquashMatrix` follows from `LayerInv`
of two adjacent layers (`AdjacentLayers`): a row that the lower one has removed is absent
from the snapshot between them and below its cursor, so that the upper one can neither
have found it nor created it. The refinement follows from `LayersReverse`: the snapshots
that the mapping computes from the deltas are the saved ones.

**`HeaderChain`.** Counting needs `ConfirmersInv`: a producer that is in
`producer_to_last_produced` has confirmed nothing above its last block, and one that has left
it nothing above the block that announced the pending schedule; so no confirmation of a
header that does not wrap around is of a block the producer has already confirmed, also
after it left the schedule and came back. One that wraps confirms every tracked block, new ones
and, in `repeated`, others once more. `CountInv` then says that each entry of
`confirm_count` is what is missing. `ImpliedInv` (the irreversible number is what the map gives, unless the map was
just made anew) is what restricts a step back of the irreversible number to the block after
a promotion. `calc_dpos_last_irreversible` sorts, and is monotonic in the map: that is a lemma
about positions in sorted sequences.

**`Controller`.** The properties speak of the node between calls, or of one store and the
head; none is inductive. `IInv` says, while no fault is recorded: the fork database's head is
a best block, and an ancestor of a known block is known or an ancestor of all of them
(`Known`); the head and all blocks above the log are known, valid and marked, and the state can
be undone down to the log (`Placed`); the reversible blocks are exactly those between log and
head (`Stored`). For a switch under way, `BusyInv` and `SwitchInv` say where the head may be
on the two branches in each phase, that the log is an ancestor of both ends, that no known
block but the new head outranks the old one (so that a failed switch ends with a best block),
and that the old branch stays known and valid. `ReplayInv`: after a crash anywhere, the
reversible blocks up to the first gap are those of the chain of the head at that
moment. `OrderInv` says, until a start has shuffled the index, that the head is the first of
those of equal rank, which gives the fork database and the controller the same head;
it is why `"stray"` needs a second restart. `ClearInv` is `UnappliedNotApplied` at every
step. The tree lemmas (`ChainLinear`, `ForkPoint`, `ChildAbove`) and one lemma for each
operator of the fork database (`insert`, `remove`, `prune`, `first_of`) carry the rest.

For `NoFault`, `Settled` remembers why the log is where it is: a block made its newest entry
irreversible whose parent is not better than the head. With `NoLeap` every better block then
builds on that entry, so that no switch goes below the log or past a pruned fork point.

**`ProducerLoop`.** Every handler that changes head, pending block or watermarks ends in
`schedule_production_loop`; one lemma (`Scheduled`) says what it leaves behind: at most one
timer or handler that is not outdated (`OneCurrent`), a pending block that is on the head and
confirms from the watermark on (`PendingInv`), and a timer set for the slot of that block
(`DueInv`). `ConfirmsOnce` needs that a watermark is the highest number confirmed.
`NoSlotMissed` needs to know what each timer is for (`InTime`): every slot before the block
that is being produced, before the one that a wake-up precedes, or that a retry comes too late
for, has been handled, or a watermark stands against it. A wake-up is set in time because
`next_block_slot` passes over no slot of its producer (`NoneBefore`): slot and result are
written as round, place in the schedule and repetition, and a slot of the same producer
between them would be in an earlier round or in an earlier place.

**`BlockLog`.** The invariant describes files nobody would write on purpose: `Shape` is any
log that appends, torn writes, failed flushes, losses at the end and repairs can leave: a
torn cell may be followed by its own position. `IndexShape` is what an
index may say about a log whose end is lost, so that `index_fits` comparing only the last
positions is enough. `OpenInv`, until a stream could not be closed: the head is the last
block of the file, or a torn one in its place, and only torn cells follow. `SyncInv`: what
the block stream has not passed on is at most the last block with its position, so that a failed flush,
or a crash after it, can tear only that one. `Openable` unless the stop is excused, and every
acknowledged block within the part that has left the buffer.

**`CheckQueue`.** `nTodo` is the size of the queue plus the batches that threads hold; results
that are not yet merged are in `fAllOk` or in the local `fOk` of exactly one thread; outside
a control all of it is empty.

**`CoinsView` and `SubChainMeta`.** `DiskInv`: the database has the coins of its best block, or
while a flush or a repair is under way in each place those of the old or of the new tip.
`CacheInv`: through the cache the coins of the best block are seen, or in `ReplayBlocks` in
each place those of the block it has got to or of the one it goes to. Neither is inductive
without the flags being sound, and these not without the coins: an entry may become FRESH
only because the coin below is spent. One lemma says what each method of the cache does to
one outpoint (`Fetching`, `Adding`, `Spending`, `Merging`), one what connecting,
disconnecting and rolling forward do, given the coins before *or after* the block, because a
repair meets both. The ledger follows: the coins that the mapping shows are always
`Utxo[best]` (`Seen`). For the registry, `MetaInv` says that the registrations up to the best
block *and* up to the block that the database names are on disk, since a crash goes back to
the latter; that no id has two entries; and that every id in the pool has one.

**`SubBlockStore`.** `IndexInv`: an entry of the index is dirty, or its write has failed
(`dropped`), or the same is in the database.
`PlacesInv`, in the first run: the cells of each known block hold that block and lie below the
recorded size of its file.

**`SubBlockRelay`.** `HoldInv` follows a block from its announcement to the request: as long as
either is queued or under way the announcer has the block. `RequestInv`: a request is in
`mapAskFor`, in a GETDATA or answered, in one of the three only.

Induction over numbers, finite sets, sequences and the tree of blocks is done by a least
counterexample (`Least`, `MinimalSubset`, `Lowest`), which first-order provers can use; so is
the existence of the recursive functions that are unfolded (`Solution` for `Utxo` and
`Ancestors`, the sums over threads of the check queue). Each inductive invariant was checked
with TLC before it was proved.

### Only model-checked

* Liveness, `WaitReturns` and `AnnouncedArrives`: out of TLAPS's reach.
* `NoFault` of `Controller` with a crash. After a crash in the middle of a switch the fork
  database is rebuilt from one chain, one block pruned at a time, and may hold blocks further
  back than the log; a branch that starts there can be better than the head, and the switch
  to it is recorded as `"below"`. That no block made by the header rules leads there is
  checked for the tree of `controller_forks` (one crash); `FaultsKnown` covers crashes without it.
* The three violations.

## 5. Not modelled

* What transactions do: contract code, ABI, WASM, authorization, resource limits.
  In `Controller` a transaction is applied or not, and a block is valid or not.
* Signatures, merkle roots, block times. A header failing these is not added.
* BFT confirmations (`add(header_confirmation)`, `set_bft_irreversible`): only a
  test calls them.
* `prune()`'s read of an iterator into the next number that may have been erased;
  undefined, and noted in `ForkDatabase`.
* In the production loop: which transactions go into a block, schedule changes, the
  confirmations that `on_block` signs. In the block log: a write to the index stream that
  fails before the flush (its buffer is empty then, but for what `construct_index` has left in
  it), and writes of `construct_index` that fail. In the relay: `-blocksonly`, eviction from
  `mapAlreadyAskedFor`, the transaction that announces the backup.
* Invalid blocks and pre-BIP30 duplicates in the coin database.
* In the registry of sub chains: what `getsubchainmetainfo` prints, and a power loss.
* Most of the repository's lines: Bitcoin Core's wallet, network, Qt and RPC code as
  upstream has them, fc, the WebAssembly engines, word lists, generated contracts, and
  `baselib/`, general C++ libraries that neither chain links. They carry no logic of this
  system of their own; the modules concentrate on what does.
* Reindexing and pruning of sub blocks; all of Bitcoin Core that sub blocks do not
  share; wallets, plugins for RPC and history, vendored libraries.

## 6. Plan

Done so far: all modules above with their runs, and the proofs of section 4. Left, in this
order:

1. Proofs: that the trees of a chain of headers without a shrinking
   promotion satisfy `LibAssumption`, from `HeaderChainProofs`.
2. `Dpos`: several nodes over `BlockHeaderState` with the watermarks of `ProducerLoop`;
   two nodes' irreversible blocks agree while fewer than a third of the producers restart.
3. `Database`: several `GenericIndex` instances in step, `add_index` at revision 0.
4. An abstract ledger (a chain that only grows below its irreversible point) that
   `Controller` implements, with `BlockLog` in the place of its atomic log.
5. `resource_limits`, `authority_checker` as operators against a reference.
