------------------------------ MODULE Controller ------------------------------
(***************************************************************************)
(* The chain controller of a sub-chain node: it makes blocks and applies   *)
(* received ones, switches between forks, keeps the chain state with an    *)
(* undo stack, moves irreversible blocks to the block log, and gets all of *)
(* it back after a shutdown or a crash.                                    *)
(*                                                                         *)
(* The controller runs in one thread.  A call is split where the process   *)
(* may be killed with something half done: maybe_switch_forks takes one    *)
(* step for each block it pops or applies.  Calls that throw before they   *)
(* change anything are left out.  An assertion that the authors expect to  *)
(* hold sets fault when it fails; so does a call that leaves the head on a *)
(* chain that the log or the state is not of, which nothing asserts.       *)
(* Nothing is modelled after that.                                         *)
(*                                                                         *)
(* After a crash both chainbase files are dirty and the node is started    *)
(* with --replay-blockchain --fix-reversible-blocks.  The mapped file of   *)
(* the reversible blocks holds every operation that was completed (the     *)
(* process dies, not the machine), and appending to the log is atomic.     *)
(***************************************************************************)
EXTENDS ForkDatabase

CONSTANTS Suspects,     \* blocks that may turn out to be invalid
          MaxRestarts,  \* bound: clean shutdowns
          MaxCrashes    \* bound: crashes

TxsOf == [b \in Blocks |-> Tree[b].txs]    \* the input transactions of each block
Txs == UNION {TxsOf[b] : b \in Blocks}
Own == {b \in Blocks : Tree[b].own}        \* blocks this node makes; others are received

ASSUME ControllerAssumption ==
  /\ \A b \in Blocks : Tree[b].own \in BOOLEAN
  /\ \A b \in Blocks \ {Genesis} : TxsOf[b] \cap UNION {TxsOf[c] : c \in Chain[Parent[b]]} = {}
  /\ Genesis \notin Own /\ Suspects \subseteq Blocks \ (Own \cup {Genesis})
  /\ MaxRestarts \in Nat /\ MaxCrashes \in Nat

VARIABLES
  fdb,         \* fork_db
  head,        \* head
  db,          \* chain state: db.tip, the block it is the result of; db.floor, what
               \* its undo stack reaches back to
  reversible,  \* reversible_blocks
  log,         \* the newest block in the block log
  pending,     \* the pending block: open or not, its transactions
  unapplied,   \* unapplied_transactions
  job,         \* what maybe_switch_forks is at
  mode,        \* "up", "down" after a clean shutdown, "replay" after a crash
  fault,       \* the assertion that failed, or what went wrong unnoticed
  bad,         \* the invalid blocks
  made,        \* the blocks of Own made so far
  was,         \* history: the head when the process ended
  left         \* restarts and crashes still allowed

vars == <<fdb, head, db, reversible, log, pending, unapplied, job, mode, fault,
          bad, made, was, left>>
disk == <<reversible, log>>
world == <<bad, made, was, left>>

Max(m, n) == IF m > n THEN m ELSE n
Min(m, n) == IF m < n THEN m ELSE n
Closed == [open |-> FALSE, trxs |-> {}]
Idle == [phase |-> "idle", new |-> NoBlock, old |-> NoBlock, first |-> {}, second |-> {}]

(* initialize_fork_db: the genesis block is not marked as in the chain. *)
GenesisForkDb ==
  [blocks |-> {Genesis}, before |-> {}, head |-> Genesis,
   in_chain |-> {}, validated |-> {}, trxs |-> {}]

Init ==
  /\ fdb = GenesisForkDb /\ head = Genesis
  /\ db = [tip |-> Genesis, floor |-> 1]
  /\ reversible = {} /\ log = Genesis
  /\ pending = Closed /\ unapplied = {}
  /\ job = Idle /\ mode = "up" /\ fault = "none"
  /\ bad \in SUBSET Suspects /\ made = {} /\ was = Genesis
  /\ left = [restarts |-> MaxRestarts, crashes |-> MaxCrashes]

Ready == mode = "up" /\ fault = "none" /\ job.phase = "idle"

-------------------------------------------------------------------------------
(* The parts that several calls share.                                     *)

(* on_irreversible, called for the blocks of S, none or one: what is not   *)
(* in the log yet is appended to it and leaves the reversible blocks, and  *)
(* the state is committed up to it.                                        *)
fresh(S) == {s \in S : Num[s] > Num[log]}
log_after(S) == IF fresh(S) = {} THEN log ELSE CHOOSE s \in fresh(S) : TRUE

reversible_after(S) == {r \in reversible : \A s \in fresh(S) : Num[r] > Num[s]}

floor_after(S) == IF S = {} THEN db.floor
                  ELSE Max(db.floor, Min(Num[CHOOSE s \in S : TRUE], Num[db.tip]))

links_log(S) == \A s \in S : Num[s] > Num[log] => Parent[s] = log

(* The rest of add(n), once the block is inserted and the head chosen. *)
pruned(f) == IF irreversible(f) = {} THEN f ELSE prune(f, oldest(f))

(* What fails in it, if S becomes irreversible and f is left. *)
add_fault(S, f) ==
  IF ~links_log(S) THEN "log" ELSE IF f.head = NoBlock THEN "empty" ELSE "none"

(* Mutant: the block stays among the reversible ones. *)
pop_block_keeps ==
  /\ unapplied' = IF head \in fdb.trxs THEN unapplied \cup TxsOf[head] ELSE unapplied
  /\ head' = Parent[head]
  /\ db' = IF Num[db.tip] > db.floor THEN [db EXCEPT !.tip = Parent[db.tip]] ELSE db
  /\ reversible' = reversible

(* pop_block, when the previous block is still in the fork database. *)
pop_block ==
  /\ unapplied' = IF head \in fdb.trxs THEN unapplied \cup TxsOf[head] ELSE unapplied
  /\ head' = Parent[head]
  /\ db' = IF Num[db.tip] > db.floor THEN [db EXCEPT !.tip = Parent[db.tip]] ELSE db
  /\ reversible' = {r \in reversible : Num[r] # Num[head]}

may_pop == Parent[head] \in fdb.blocks

(* apply_block(b) succeeds if b is valid and the state is the head's. *)
applies(b) == b \notin bad /\ Num[db.tip] = Num[head]

(* apply_block, when it succeeds. *)
apply_block(b, created) ==
  /\ db' = [db EXCEPT !.tip = b]
  /\ unapplied' = unapplied \ TxsOf[b]
  /\ reversible' = reversible \cup created
  /\ head' = b

(* apply_block, when it fails: abort_block keeps the transactions that     *)
(* were applied; the one that failed is dropped.                           *)
apply_block_fails(b) ==
  /\ \E done \in SUBSET TxsOf[b] :
       \E failed \in {{}} \cup {{t} : t \in TxsOf[b] \ done} :
         unapplied' = (unapplied \ failed) \cup done
  /\ UNCHANGED <<db, reversible, head>>

unique_num(b) == \A r \in reversible : Num[r] # Num[b]

-------------------------------------------------------------------------------
(* The pending block.                                                      *)

start_block ==
  /\ Ready /\ ~pending.open
  /\ Num[db.tip] = Num[head]
  /\ pending' = [open |-> TRUE, trxs |-> {}]
  /\ UNCHANGED <<fdb, head, db, disk, unapplied, job, mode, fault, world>>

ChainTxs(b) == UNION {TxsOf[c] : c \in Chain[b]}

(* Mutant: a transaction that is applied stays in the list. *)
push_transaction_keeps(t) ==
  /\ Ready /\ pending.open
  /\ t \notin ChainTxs(head) \cup pending.trxs
  /\ pending' = [pending EXCEPT !.trxs = @ \cup {t}]
  /\ UNCHANGED <<fdb, head, db, disk, unapplied, job, mode, fault, world>>

push_transaction(t) ==
  /\ Ready /\ pending.open
  /\ t \notin ChainTxs(head) \cup pending.trxs
  /\ pending' = [pending EXCEPT !.trxs = @ \cup {t}]
  /\ unapplied' = unapplied \ {t}
  /\ UNCHANGED <<fdb, head, db, disk, job, mode, fault, world>>

(* A transaction that expired or failed for good. *)
drop_unapplied_transaction(t) ==
  /\ Ready /\ pending.open /\ t \in unapplied
  /\ unapplied' = unapplied \ {t}
  /\ UNCHANGED <<fdb, head, db, disk, pending, job, mode, fault, world>>

abort_block ==
  /\ Ready /\ pending.open
  /\ unapplied' = unapplied \cup pending.trxs
  /\ pending' = Closed
  /\ UNCHANGED <<fdb, head, db, disk, job, mode, fault, world>>

(* finalize_block, sign_block and commit_block(true).  The pending block   *)
(* is b if it has b's transactions.                                        *)
commit_block(b) ==
  LET f == insert([fdb EXCEPT !.in_chain = @ \cup {b}, !.validated = @ \cup {b},
                              !.trxs = @ \cup {b}], b)
      g == pruned(f)
      S == irreversible(f)
  IN /\ Ready /\ pending.open /\ pending.trxs = TxsOf[b]
     /\ b \notin made /\ Parent[b] = head
     /\ fault' = IF add_fault(S, g) # "none" THEN add_fault(S, g)
                 ELSE IF g.head # b THEN "commit"
                 ELSE IF ~unique_num(b) THEN "reversible" ELSE "none"
     /\ fdb' = g
     /\ head' = g.head
     /\ log' = log_after(S)
     /\ reversible' = reversible_after(S) \cup {b}
     /\ db' = [tip |-> b, floor |-> floor_after(S)]
     /\ pending' = Closed
     /\ made' = made \cup {b}
     /\ UNCHANGED <<unapplied, job, mode, bad, was, left>>

-------------------------------------------------------------------------------
(* Received blocks.                                                        *)

(* What maybe_switch_forks has to do for the head of f. *)
switch_job(f) ==
  CASE Parent[f.head] = head ->
         [Idle EXCEPT !.phase = "extend", !.new = f.head, !.old = head]
    [] f.head = head -> Idle
    [] OTHER -> [phase |-> "pop", new |-> f.head, old |-> head,
                 first |-> branch_from(f.head, head), second |-> branch_from(head, f.head)]

(* fetch_branch_from asserts that it finds every block of the branches. *)
branches_known(f, todo) == todo.first \cup todo.second \subseteq f.blocks

(* push_block up to maybe_switch_forks.  A block that is known or does not *)
(* link is refused without a trace; so is any while a block is pending.    *)
push_block(b) ==
  LET g == insert(fdb, b)
      f == pruned(g)
      S == irreversible(g)
      todo == switch_job(f)
  IN /\ Ready /\ ~pending.open
     /\ b \notin Own \ made
     /\ b \notin fdb.blocks /\ Parent[b] \in fdb.blocks
     /\ fault' = IF add_fault(S, f) # "none" THEN add_fault(S, f)
                 ELSE IF ~branches_known(f, todo) THEN "branch"
                 ELSE IF log_after(S) \notin Chain[f.head] THEN "below" ELSE "none"
     /\ fdb' = f
     /\ log' = log_after(S)
     /\ reversible' = reversible_after(S)
     /\ db' = [db EXCEPT !.floor = floor_after(S)]
     /\ job' = IF fault' = "none" THEN todo ELSE Idle
     /\ UNCHANGED <<head, pending, unapplied, mode, world>>

Busy(phase) == mode = "up" /\ fault = "none" /\ job.phase = phase

(* set_validity(b, true) *)
accepted(f, b) == [mark_in_current_chain(f, b, TRUE) EXCEPT !.validated = @ \cup {b}]

(* The new head builds on the head. *)
extend ==
  /\ Busy("extend")
  /\ \/ /\ applies(job.new)
        /\ apply_block(job.new, {job.new})
        /\ fault' = IF unique_num(job.new) THEN "none" ELSE "reversible"
        /\ fdb' = accepted(fdb, job.new)
     \/ /\ ~applies(job.new)
        /\ apply_block_fails(job.new)
        /\ fdb' = remove(fdb, job.new)
        /\ fault' = IF fdb'.head = NoBlock THEN "empty" ELSE "none"
  /\ job' = Idle
  /\ UNCHANGED <<log, pending, mode, world>>

(* A fork switch pops the blocks of the old branch ... *)
switch_pop ==
  /\ Busy("pop") /\ head \in job.second
  /\ fdb' = mark_in_current_chain(fdb, head, FALSE)
  /\ \/ may_pop /\ pop_block /\ UNCHANGED <<fault, job>>
     \/ /\ ~may_pop
        /\ fault' = "pop" /\ job' = Idle
        /\ UNCHANGED <<head, db, reversible, unapplied>>
  /\ UNCHANGED <<log, pending, mode, world>>

NextIn(branch) == CHOOSE b \in branch : Parent[b] = head

(* Mutant: a block that fails ends the switch. *)
switch_apply_gives_up ==
  LET b == NextIn(job.first) IN
  /\ job.phase \in {"pop", "push"} /\ Busy(job.phase)
  /\ job.phase = "pop" => head \notin job.second
  /\ \/ /\ applies(b)
        /\ apply_block(b, {b})
        /\ fault' = IF unique_num(b) THEN "none" ELSE "reversible"
        /\ fdb' = accepted(fdb, b)
        /\ job' = IF b = job.new THEN Idle ELSE [job EXCEPT !.phase = "push"]
     \/ /\ ~applies(b)
        /\ apply_block_fails(b)
        /\ fdb' = remove(fdb, b)
        /\ fault' = IF fdb'.head = NoBlock THEN "empty" ELSE "none"
        /\ job' = Idle
  /\ UNCHANGED <<log, pending, mode, world>>

(* ... and applies those of the new one, oldest first.  The first that     *)
(* fails is removed from the fork database.                                *)
switch_apply ==
  LET b == NextIn(job.first) IN
  /\ job.phase \in {"pop", "push"} /\ Busy(job.phase)
  /\ job.phase = "pop" => head \notin job.second
  /\ \/ /\ applies(b)
        /\ apply_block(b, {b})
        /\ fault' = IF unique_num(b) THEN "none" ELSE "reversible"
        /\ fdb' = accepted(fdb, b)
        /\ job' = IF b = job.new THEN Idle ELSE [job EXCEPT !.phase = "push"]
     \/ /\ ~applies(b)
        /\ apply_block_fails(b)
        /\ fdb' = remove(fdb, b)
        /\ fault' = IF fdb'.head = NoBlock THEN "empty" ELSE "none"
        /\ job' = [job EXCEPT !.phase = "unpop"]
  /\ UNCHANGED <<log, pending, mode, world>>

(* Then what was applied of the new branch is popped again ... *)
switch_unpop ==
  /\ Busy("unpop") /\ head \in job.first
  /\ fdb' = mark_in_current_chain(fdb, head, FALSE)
  /\ \/ may_pop /\ pop_block /\ UNCHANGED <<fault, job>>
     \/ /\ ~may_pop
        /\ fault' = "pop" /\ job' = Idle
        /\ UNCHANGED <<head, db, reversible, unapplied>>
  /\ UNCHANGED <<log, pending, mode, world>>

(* Mutant: the blocks of the old branch are not marked again. *)
switch_reapply_unmarked ==
  LET b == NextIn(job.second) IN
  /\ Busy("unpop") /\ head \notin job.first
  /\ applies(b)
  /\ apply_block(b, {b})
  /\ fault' = IF unique_num(b) THEN "none" ELSE "reversible"
  /\ fdb' = fdb
  /\ job' = IF b = job.old THEN Idle ELSE job
  /\ UNCHANGED <<log, pending, mode, world>>

(* ... and the old branch applied again. *)
switch_reapply ==
  LET b == NextIn(job.second) IN
  /\ Busy("unpop") /\ head \notin job.first
  /\ applies(b)
  /\ apply_block(b, {b})
  /\ fault' = IF unique_num(b) THEN "none" ELSE "reversible"
  /\ fdb' = mark_in_current_chain(fdb, b, TRUE)
  /\ job' = IF b = job.old THEN Idle ELSE job
  /\ UNCHANGED <<log, pending, mode, world>>

-------------------------------------------------------------------------------
(* The end of the process, and its start.                                  *)

(* ~controller: the pending block is dropped, and close() writes the fork  *)
(* database to a file.  Then the oldest block may become irreversible; the *)
(* file has it still.                                                      *)
shutdown ==
  LET o == oldest(fdb)
      S == IF Num[o] <= Lib[fdb.head] THEN {o} ELSE {}
  IN /\ Ready /\ left.restarts > 0
     /\ fault' = IF links_log(S) THEN "none" ELSE "log"
     /\ log' = log_after(S)
     /\ reversible' = reversible_after(S)
     /\ db' = [db EXCEPT !.floor = floor_after(S)]
     /\ fdb' = [fdb EXCEPT !.trxs = {}]
     /\ pending' = Closed /\ unapplied' = {}
     /\ mode' = "down" /\ was' = head
     /\ left' = [left EXCEPT !.restarts = @ - 1]
     /\ UNCHANGED <<head, job, bad, made>>

(* init: the fork database's head is the newest reversible block or, if    *)
(* there is none, the newest in the log, and not newer than the state.     *)
consistent(h) ==
  /\ IF reversible = {} THEN Num[log] = Num[h]
     ELSE /\ \E r \in reversible : Num[r] = Num[h]
          /\ \A r \in reversible : Num[r] <= Num[h]
  /\ Num[db.tip] >= Num[h]

(* The orders in which the blocks of one number may stand. *)
Reordered(before) ==
  {o \in {(before \ F) \cup {<<p[2], p[1]>> : p \in F} : F \in SUBSET before} :
     \A p, q \in o : p[2] = q[1] => <<p[1], q[2]>> \in o}

(* Mutant: the head is what set() makes of the blocks, a highest one. *)
startup_by_num ==
  /\ mode = "down" /\ fault = "none"
  /\ \E order \in Reordered(fdb.before) : fdb' = [fdb EXCEPT !.before = order]
  /\ head' = first_of(fdb', {b \in fdb.blocks : \A c \in fdb.blocks : Num[c] <= Num[b]})
  /\ fault' = IF consistent(fdb.head) THEN "none" ELSE "startup"
  /\ db' = [db EXCEPT !.tip = CHOOSE b \in Chain[@] : Num[b] = Min(Num[fdb.head], Num[@])]
  /\ mode' = "up"
  /\ UNCHANGED <<disk, pending, unapplied, job, world>>

(* The file lists the blocks in the order of a hash table.  The state goes *)
(* back to the number of the head.  Only numbers are compared: nothing     *)
(* notices that the state and the reversible blocks belong to another      *)
(* block than the fork database's head.                                    *)
startup ==
  /\ mode = "down" /\ fault = "none"
  /\ \E order \in Reordered(fdb.before) : fdb' = [fdb EXCEPT !.before = order]
  /\ head' = fdb.head
  /\ fault' = IF ~consistent(fdb.head) THEN "startup"
              ELSE IF fdb.head # head THEN "stray" ELSE "none"
  /\ db' = [db EXCEPT !.tip = CHOOSE b \in Chain[@] : Num[b] = Min(Num[fdb.head], Num[@])]
  /\ mode' = "up"
  /\ UNCHANGED <<disk, pending, unapplied, job, world>>

(* The process dies, and starts with an empty state.  recover_reversible_  *)
(* blocks keeps the reversible blocks up to the first gap.                 *)
crash ==
  LET gapless == {r \in reversible : \A n \in Num[log]+1..Num[r] : \E q \in reversible : Num[q] = n}
  IN /\ mode \in {"up", "replay"} /\ fault = "none" /\ left.crashes > 0
     /\ reversible' = gapless
     /\ fdb' = GenesisForkDb /\ head' = Genesis
     /\ db' = [tip |-> Genesis, floor |-> 1]
     /\ pending' = Closed /\ unapplied' = {} /\ job' = Idle
     /\ mode' = "replay"
     /\ was' = IF mode = "up" THEN head ELSE was
     /\ left' = [left EXCEPT !.crashes = @ - 1]
     /\ UNCHANGED <<log, fault, bad, made>>

(* What init replays next: the block log and then, if the log has more     *)
(* than the genesis block, the reversible blocks.                          *)
to_replay ==
  IF Num[head] < Num[log] THEN {b \in Chain[log] : Num[b] = Num[head] + 1}
  ELSE IF Num[log] > 1 THEN {r \in reversible : Num[r] = Num[head] + 1}
  ELSE {}

(* push_block of such a block, which must extend the head. *)
replay_block(b) ==
  LET g == insert(fdb, b)
      f == pruned(g)
      S == irreversible(g)
  IN /\ mode = "replay" /\ fault = "none" /\ b \in to_replay
     /\ fault' = IF Parent[b] # head \/ ~applies(b) THEN "startup"
                 ELSE IF add_fault(S, f) # "none" THEN add_fault(S, f)
                 ELSE IF f.head # b THEN "startup" ELSE "none"
     /\ fdb' = accepted(f, b)
     /\ head' = b
     /\ db' = [tip |-> b, floor |-> floor_after(S)]
     /\ log' = log_after(S)
     /\ reversible' = reversible_after(S)
     /\ UNCHANGED <<pending, unapplied, job, mode, world>>

replay_done ==
  /\ mode = "replay" /\ fault = "none" /\ to_replay = {}
  /\ mode' = "up"
  /\ fault' = IF consistent(head) THEN "none" ELSE "startup"
  /\ UNCHANGED <<fdb, head, db, disk, pending, unapplied, job, world>>

Next ==
  \/ start_block \/ abort_block
  \/ \E t \in Txs : push_transaction(t) \/ drop_unapplied_transaction(t)
  \/ \E b \in Own : commit_block(b)
  \/ \E b \in Blocks : push_block(b)
  \/ extend \/ switch_pop \/ switch_apply \/ switch_unpop \/ switch_reapply
  \/ shutdown \/ startup
  \/ crash \/ (\E b \in Blocks : replay_block(b)) \/ replay_done

Spec == Init /\ [][Next]_vars

-------------------------------------------------------------------------------
(* Type correctness. *)
TypeOK ==
  /\ fdb \in [blocks : SUBSET Blocks, before : SUBSET (Blocks \X Blocks),
              head : Blocks \cup {NoBlock}, in_chain : SUBSET Blocks,
              validated : SUBSET Blocks, trxs : SUBSET Own]
  /\ fdb.in_chain \cup fdb.validated \cup fdb.trxs \subseteq fdb.blocks
  /\ head \in Blocks /\ log \in Blocks /\ was \in Blocks
  /\ db \in [tip : Blocks, floor : Nat]
  /\ reversible \subseteq Blocks
  /\ pending \in [open : BOOLEAN, trxs : SUBSET Txs] /\ unapplied \subseteq Txs
  /\ job \in [phase : {"idle", "extend", "pop", "push", "unpop"},
              new : Blocks \cup {NoBlock}, old : Blocks \cup {NoBlock},
              first : SUBSET Blocks, second : SUBSET Blocks]
  /\ mode \in {"up", "down", "replay"}
  /\ bad \subseteq Suspects /\ made \subseteq Own
  /\ left \in [restarts : 0..MaxRestarts, crashes : 0..MaxCrashes]

(* No assertion fails that the code relies on: a fork switch never pops    *)
(* past the last block of the fork database, finds both branches, never    *)
(* leaves two reversible blocks of one number; what becomes irreversible   *)
(* extends the log; a block of the node's own becomes the head; the fork   *)
(* database is never empty.  A start fails only if the log has nothing but *)
(* the genesis block.                                                      *)
NoFault == fault = "none" \/ (fault = "startup" /\ log = Genesis)

(* The irreversible number never leaps: when a block makes an ancestor     *)
(* irreversible, the block before it already outranks every block that     *)
(* does not build on that ancestor.  A property of the tree, under which   *)
(* pop_block always finds the previous block.                              *)
NoLeap ==
  \A y \in Blocks \ {Genesis}, c \in Blocks : \A l \in Chain[y] :
    l \notin Chain[c] /\ Num[l] <= Lib[y] => better(Parent[y], c)

(* What is left when the tree of blocks may be any and the node may be     *)
(* restarted any number of times: pop_block finds no previous block, add   *)
(* leaves nothing, a switch starts to a branch that parts below the log,   *)
(* and, from the second restart on, the node comes back with a head that   *)
(* the state is not the result of.  No block that contradicts the log is   *)
(* ever appended to it, no number is reversible twice, no branch is        *)
(* missing, no block of the node's own is passed over, and no replay stops.*)
OnlyKnownFaults ==
  \/ fault \in {"none", "pop", "empty", "below"}
  \/ fault = "startup" /\ log = Genesis
  \/ fault = "stray" /\ left.restarts + 2 <= MaxRestarts

(* The chain state, the reversible blocks and the log are always those of  *)
(* the head, also between two steps of a fork switch, of its reversal, and *)
(* of a replay.                                                            *)
StateFollowsHead ==
  fault = "none" =>
    /\ mode # "down" => db.tip = head
    /\ mode = "up" => log \in Chain[head] /\ reversible = Chain[head] \ Chain[log]
    /\ db.floor <= Num[head]

(* When no switch is under way the head is the best block that is known,   *)
(* and the blocks marked as in the current chain are its ancestors, all of *)
(* them valid.                                                             *)
HeadIsBest ==
  Ready => /\ head \in fdb.blocks
           /\ \A b \in fdb.blocks : ~better(b, head)
           /\ fdb.in_chain = (Chain[head] \cap fdb.blocks) \ {Genesis}
           /\ Chain[head] \cap bad = {}

(* A fork switch ends with the new head or with the old one. *)
SwitchOrRestore ==
  [][job.phase # "idle" /\ job'.phase = "idle" /\ mode' = "up" /\ fault' = "none" =>
       head' \in {job.new, job.old} /\ (head' = job.old => bad \cap Chain[job.new] # {})]_vars

(* A node that starts again has the head it had when it ended, and a state *)
(* for it.                                                                 *)
RestartKeepsHead ==
  [][mode # "up" /\ mode' = "up" /\ fault' = "none" => head' = was /\ db'.tip = was]_vars

(* unapplied_transactions has nothing that is applied already. *)
UnappliedNotApplied ==
  Ready => unapplied \cap (ChainTxs(head) \cup pending.trxs) = {}

(* Once an irreversible block has left the fork database, every block that *)
(* is left descends from it: no branch that contradicts the log survives,  *)
(* however far the irreversible number has run ahead of pruning.           *)
NoForkBelowLog ==
  Ready /\ log \notin fdb.blocks => \A b \in fdb.blocks : log \in Chain[b]

(* pop_block asserts "attempt to pop beyond last irreversible block": the  *)
(* block before one that a fork switch pops is in the fork database.  An   *)
(* irreversible number that leaps past the fork point takes it away.       *)
PopFindsPrevious == Busy("pop") /\ head \in job.second => may_pop
===============================================================================
