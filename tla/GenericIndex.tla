----------------------------- MODULE GenericIndex -----------------------------
(***************************************************************************)
(* chainbase::generic_index: one table of the sub chain's state database,  *)
(* with its undo stack.                                                    *)
(*                                                                         *)
(* The table maps row ids to values.  Ids are handed out in increasing     *)
(* order by _next_id.  Each open undo session owns a layer of the stack    *)
(* that records how to reverse the writes made since it was opened: the    *)
(* previous value of rows that were modified, the value of rows that were  *)
(* removed and the ids of rows that were created.  A std::map from ids is  *)
(* a function that is Absent outside the map's keys.                       *)
(*                                                                         *)
(* A value has one key that a unique secondary index of the table ranges   *)
(* over (by_name, by_trx_id, ...) and other data.  UniqueKey says whether  *)
(* the table has such an index.  Rekey says whether the lambdas given to   *)
(* modify() may change that key; no caller in libraries/chain does so.     *)
(*                                                                         *)
(* undo_all() is a run of Undo steps.  emplace() that breaks a uniqueness  *)
(* constraint throws before it changes anything and is a stuttering step.  *)
(***************************************************************************)
EXTENDS Integers, Sequences, FiniteSets

CONSTANTS MaxRows,      \* bound: rows a behaviour may create
          MaxRevision,  \* bound: largest revision number
          MaxDepth,     \* bound: open sessions
          Key, Data,    \* a row's unique key and its remaining contents
          Absent,       \* no row / no entry in a map
          UniqueKey,    \* the table has a unique secondary index
          Rekey         \* modify() may change the key of a row

Value == [key : Key, data : Data]

ASSUME BoundsAssumption ==
  /\ MaxRows \in Nat /\ MaxRevision \in Nat /\ MaxDepth \in Nat
  /\ UniqueKey \in BOOLEAN /\ Rekey \in BOOLEAN

ASSUME AbsentAssumption == Absent \notin Value

VARIABLES indices,     \* _indices: the rows
          next_id,     \* _next_id
          revision,    \* _revision
          stack,       \* _stack: undo layers, oldest first
          fault,       \* the call whose exception left the table between two states
          saved        \* history: the table and cursor when each layer was opened

vars == <<indices, next_id, revision, stack, fault, saved>>

Ids == 0..(MaxRows - 1)
Revisions == 0..MaxRevision
Map == [Ids -> Value \cup {Absent}]
EmptyMap == [id \in Ids |-> Absent]

Layers == [old_values : Map, removed_values : Map, new_ids : SUBSET Ids,
           old_next_id : 0..MaxRows, revision : 1..MaxRevision]

Depth == Len(stack)
head == stack[Depth]
enabled == stack # <<>>
sound == fault = "none"

(* Two rows that a unique secondary index does not let coexist. *)
Clash(v, w) == UniqueKey /\ v # Absent /\ w # Absent /\ v.key = w.key

(* Value v fits in table t at row id: no other row has its key. *)
Fits(t, id, v) == \A j \in Ids \ {id} : ~Clash(v, t[j])

OnHead(layer) == IF enabled THEN [stack EXCEPT ![Depth] = layer] ELSE stack

-------------------------------------------------------------------------------
Init == /\ indices = EmptyMap
        /\ next_id = 0
        /\ revision = 0
        /\ stack = <<>>
        /\ fault = "none"
        /\ saved = <<>>

(* on_create, on_modify, on_remove: what a write leaves in the top layer. *)
on_create(id) == [head EXCEPT !.new_ids = @ \cup {id}]

on_modify(id) ==
  IF id \in head.new_ids \/ head.old_values[id] # Absent
  THEN head
  ELSE [head EXCEPT !.old_values[id] = indices[id]]

(* Mutant: the old value is copied, not moved, to removed_values. *)
on_remove_copies(id) ==
  IF id \in head.new_ids
  THEN [head EXCEPT !.new_ids = @ \ {id}]
  ELSE IF head.removed_values[id] # Absent
  THEN head
  ELSE [head EXCEPT !.removed_values[id] =
          IF head.old_values[id] # Absent THEN head.old_values[id] ELSE indices[id]]

on_remove(id) ==
  IF id \in head.new_ids
  THEN [head EXCEPT !.new_ids = @ \ {id}]
  ELSE IF head.old_values[id] # Absent
  THEN [head EXCEPT !.removed_values[id] = head.old_values[id],
                    !.old_values[id] = Absent]
  ELSE IF head.removed_values[id] # Absent
  THEN head
  ELSE [head EXCEPT !.removed_values[id] = indices[id]]

(* Mutant: the result of the insertion is not looked at. *)
emplace_unchecked(v) ==
  /\ sound
  /\ next_id < MaxRows
  /\ indices' = [indices EXCEPT ![next_id] = v]
  /\ next_id' = next_id + 1
  /\ stack' = OnHead(on_create(next_id))
  /\ UNCHANGED <<revision, fault, saved>>

emplace(v) ==
  /\ sound
  /\ next_id < MaxRows
  /\ Fits(indices, next_id, v)
  /\ indices' = [indices EXCEPT ![next_id] = v]
  /\ next_id' = next_id + 1
  /\ stack' = OnHead(on_create(next_id))
  /\ UNCHANGED <<revision, fault, saved>>

Rewrites(id, v) == indices[id] # Absent /\ (Rekey \/ v.key = indices[id].key)

modify(id, v) ==
  /\ sound
  /\ Rewrites(id, v)
  /\ Fits(indices, id, v)
  /\ stack' = OnHead(on_modify(id))
  /\ indices' = [indices EXCEPT ![id] = v]
  /\ UNCHANGED <<next_id, revision, fault, saved>>

(* A modify() whose new value collides: Boost erases the row, then modify() *)
(* throws.  The layer already has the old value of a row that is gone, and  *)
(* the next undo passes end() to _indices.modify: nothing is modelled after *)
(* that undefined behaviour.                                                *)
modify_throws(id, v) ==
  /\ sound
  /\ Rewrites(id, v)
  /\ ~Fits(indices, id, v)
  /\ stack' = OnHead(on_modify(id))
  /\ indices' = [indices EXCEPT ![id] = Absent]
  /\ fault' = "modify"
  /\ UNCHANGED <<next_id, revision, saved>>

remove(id) ==
  /\ sound
  /\ indices[id] # Absent
  /\ stack' = OnHead(on_remove(id))
  /\ indices' = [indices EXCEPT ![id] = Absent]
  /\ UNCHANGED <<next_id, revision, fault, saved>>

start_undo_session ==
  /\ sound
  /\ Depth < MaxDepth /\ revision < MaxRevision
  /\ revision' = revision + 1
  /\ stack' = Append(stack, [old_values |-> EmptyMap, removed_values |-> EmptyMap,
                             new_ids |-> {}, old_next_id |-> next_id,
                             revision |-> revision + 1])
  /\ saved' = Append(saved, [table |-> indices, cursor |-> next_id])
  /\ UNCHANGED <<indices, next_id, fault>>

(* The table after a layer is reversed: modified rows get their old value, *)
(* created rows are erased, removed rows are put back.                     *)
Reverse(layer, t) ==
  [id \in Ids |-> IF layer.removed_values[id] # Absent THEN layer.removed_values[id]
                  ELSE IF id \in layer.new_ids THEN Absent
                  ELSE IF layer.old_values[id] # Absent THEN layer.old_values[id]
                  ELSE t[id]]

(* undo() restores old values in id order; the table it has reached when   *)
(* it comes to row id.                                                     *)
RestoredBelow(layer, t, id) ==
  [j \in Ids |-> IF j < id /\ layer.old_values[j] # Absent THEN layer.old_values[j]
                 ELSE t[j]]

(* Rows whose old value collides when undo() puts it back. *)
Unrestorable(layer, t) ==
  {id \in Ids : layer.old_values[id] # Absent
                /\ ~Fits(RestoredBelow(layer, t, id), id, layer.old_values[id])}

Pop(s) == SubSeq(s, 1, Len(s) - 1)

(* Mutant: _next_id is not reset. *)
undo_keeps_cursor ==
  /\ sound
  /\ enabled
  /\ Unrestorable(head, indices) = {}
  /\ indices' = Reverse(head, indices)
  /\ stack' = Pop(stack)
  /\ revision' = revision - 1
  /\ saved' = Pop(saved)
  /\ UNCHANGED <<next_id, fault>>

undo ==
  /\ sound
  /\ enabled
  /\ Unrestorable(head, indices) = {}
  /\ indices' = Reverse(head, indices)
  /\ next_id' = head.old_next_id
  /\ stack' = Pop(stack)
  /\ revision' = revision - 1
  /\ saved' = Pop(saved)
  /\ UNCHANGED fault

(* The first row that cannot be restored is erased by Boost and undo()     *)
(* throws: created rows stay, removed rows stay away, the layer stays.     *)
undo_throws ==
  /\ sound
  /\ enabled
  /\ \E id \in Unrestorable(head, indices) :
       /\ \A j \in Unrestorable(head, indices) : id <= j
       /\ indices' = [RestoredBelow(head, indices, id) EXCEPT ![id] = Absent]
  /\ fault' = "undo"
  /\ UNCHANGED <<next_id, revision, stack, saved>>

(* Mutant: the newer of two old values wins. *)
MergedNewest(A, B) ==
  LET new == A.new_ids \cup B.new_ids
      old == [id \in Ids |-> IF B.old_values[id] # Absent /\ id \notin A.new_ids
                             THEN B.old_values[id] ELSE A.old_values[id]]
      gone(id) == B.removed_values[id] # Absent
  IN [A EXCEPT
        !.new_ids = {id \in new : ~gone(id)},
        !.old_values = [id \in Ids |-> IF gone(id) /\ id \notin new THEN Absent ELSE old[id]],
        !.removed_values =
           [id \in Ids |-> IF ~gone(id) \/ id \in new THEN A.removed_values[id]
                           ELSE IF old[id] # Absent THEN old[id]
                           ELSE B.removed_values[id]]]

(* Merge the top layer B into the one below it, A. *)
Merged(A, B) ==
  LET new == A.new_ids \cup B.new_ids
      old == [id \in Ids |-> IF B.old_values[id] # Absent /\ id \notin A.new_ids
                                /\ A.old_values[id] = Absent
                             THEN B.old_values[id] ELSE A.old_values[id]]
      gone(id) == B.removed_values[id] # Absent
  IN [A EXCEPT
        !.new_ids = {id \in new : ~gone(id)},
        !.old_values = [id \in Ids |-> IF gone(id) /\ id \notin new THEN Absent ELSE old[id]],
        !.removed_values =
           [id \in Ids |-> IF ~gone(id) \/ id \in new THEN A.removed_values[id]
                           ELSE IF old[id] # Absent THEN old[id]
                           ELSE B.removed_values[id]]]

(* Mutant: the revision is not reduced by a merge either. *)
squash_keeps_revision ==
  /\ sound
  /\ enabled
  /\ stack' = IF Depth = 1 THEN <<>>
              ELSE [Pop(stack) EXCEPT ![Depth - 1] = Merged(stack[Depth - 1], head)]
  /\ saved' = Pop(saved)
  /\ UNCHANGED <<indices, next_id, revision, fault>>

squash ==
  /\ sound
  /\ enabled
  /\ IF Depth = 1
     THEN /\ stack' = <<>>
          /\ UNCHANGED revision
     ELSE /\ stack' = [Pop(stack) EXCEPT ![Depth - 1] = Merged(stack[Depth - 1], head)]
          /\ revision' = revision - 1
  /\ saved' = Pop(saved)
  /\ UNCHANGED <<indices, next_id, fault>>

(* commit() drops layers from the oldest on while their revision is at     *)
(* most r.                                                                 *)
commit(r) ==
  /\ sound
  /\ \E k \in 0..Depth :
       /\ \A i \in 1..k : stack[i].revision <= r
       /\ k < Depth => stack[k + 1].revision > r
       /\ stack' = SubSeq(stack, k + 1, Depth)
       /\ saved' = SubSeq(saved, k + 1, Depth)
  /\ UNCHANGED <<indices, next_id, revision, fault>>

set_revision(r) ==
  /\ sound
  /\ ~enabled
  /\ revision' = r
  /\ UNCHANGED <<indices, next_id, stack, fault, saved>>

Next ==
  \/ \E v \in Value : emplace(v)
  \/ \E id \in Ids, v \in Value : modify(id, v)
  \/ \E id \in Ids, v \in Value : modify_throws(id, v)
  \/ \E id \in Ids : remove(id)
  \/ start_undo_session
  \/ undo
  \/ undo_throws
  \/ squash
  \/ \E r \in Revisions : commit(r)
  \/ \E r \in Revisions : set_revision(r)

Spec == Init /\ [][Next]_vars

-------------------------------------------------------------------------------
(* Type correctness. *)
TypeOK ==
  /\ indices \in Map
  /\ next_id \in 0..MaxRows
  /\ revision \in Revisions
  /\ stack \in Seq(Layers)
  /\ fault \in {"none", "modify", "undo"}
  /\ saved \in Seq([table : Map, cursor : 0..MaxRows])
  /\ Len(saved) = Len(stack)

(* The table and cursor that layer i is a delta of. *)
Above(i) == IF i = Depth THEN [table |-> indices, cursor |-> next_id] ELSE saved[i + 1]

(* Every layer of the stack, not only the top one, still reverses the      *)
(* writes since it was opened: applied to the snapshot of the session      *)
(* above it, it gives the table and the cursor of the moment it was        *)
(* opened.  Writes, squashes and commits at the other end of the stack     *)
(* must all keep this, or a fork switch that pops several blocks lands in  *)
(* a state no block ever produced.                                         *)
LayersReverse ==
  sound => \A i \in 1..Depth :
    /\ Reverse(stack[i], Above(i).table) = saved[i].table
    /\ stack[i].old_next_id = saved[i].cursor

(* The rows a layer says anything about. *)
Touched(layer) ==
  layer.new_ids \cup {id \in Ids : layer.old_values[id] # Absent \/ layer.removed_values[id] # Absent}

(* The cells that the table in squash() marks N/A never occur, nor can its *)
(* two asserts fire: a layer's three containers are disjoint, a row one    *)
(* session created was unknown to the sessions below it, and a row one     *)
(* session removed is not touched by the sessions above it.                *)
SquashMatrix ==
  sound =>
    /\ \A i \in 1..Depth, id \in Ids :
         LET L == stack[i] IN
           /\ id \in L.new_ids => L.old_values[id] = Absent /\ L.removed_values[id] = Absent
           /\ L.old_values[id] # Absent => L.removed_values[id] = Absent
    /\ \A i \in 1..(Depth - 1) :
         /\ stack[i + 1].new_ids \cap Touched(stack[i]) = {}
         /\ \A id \in Touched(stack[i + 1]) : stack[i].removed_values[id] = Absent

(* Layers carry consecutive revisions that end at the index's own.  This   *)
(* is what lets commit(block_num) and the test db.revision() ==            *)
(* head->block_num identify undo layers with blocks.                       *)
RevisionsConsecutive ==
  \A i \in 1..Depth : stack[i].revision = revision - (Depth - i)

(* No two rows of t have one unique key. *)
UniqueIn(t) == \A id \in Ids : Fits(t, id, t[id])

(* No two rows of the table, or of any state undo can return to, share a   *)
(* unique key; so the final emplace of undo(), which puts removed rows     *)
(* back, never throws "Could not restore object".                          *)
KeysStayUnique ==
  sound => UniqueIn(indices) /\ \A i \in 1..Depth : UniqueIn(saved[i].table)

(* undo() throws half way only when some row's unique key differs from the *)
(* one it had when the session was opened: creating, removing and merging  *)
(* alone never block the way back.  With callers that do not rekey rows    *)
(* (~Rekey), undo() never throws.                                          *)
UndoBlockedOnlyByRekey ==
  (sound /\ enabled /\ Unrestorable(head, indices) # {})
    => \E id \in Ids :
         LET old == saved[Depth].table[id]
         IN old # Absent /\ indices[id] # Absent /\ old.key # indices[id].key

(* The inductive invariant behind these: layer L takes table and cursor    *)
(* `above` back to `below`, each of its containers says what it must about *)
(* the two tables, and the cursor bounds the rows in use.                  *)
LayerInv(L, above, below) ==
  /\ L.old_next_id = below.cursor
  /\ below.cursor <= above.cursor
  /\ below.table = Reverse(L, above.table)
  /\ \A id \in Ids :
       /\ id \in L.new_ids => /\ above.table[id] # Absent
                              /\ L.old_values[id] = Absent
                              /\ L.removed_values[id] = Absent
                              /\ below.cursor <= id
       /\ L.old_values[id] # Absent => /\ above.table[id] # Absent
                                       /\ L.removed_values[id] = Absent
       /\ L.removed_values[id] # Absent => above.table[id] = Absent
       /\ below.cursor <= id => below.table[id] = Absent
       /\ (~Rekey /\ below.table[id] # Absent /\ above.table[id] # Absent)
            => below.table[id].key = above.table[id].key

IndInv ==
  /\ TypeOK
  /\ sound => /\ \A id \in Ids : next_id <= id => indices[id] = Absent
              /\ KeysStayUnique
              /\ \A i \in 1..Depth : LayerInv(stack[i], Above(i), saved[i])

(* The implementation of snapshots by deltas. *)
Abs == INSTANCE UndoLog WITH table <- indices, cursor <- next_id, saved <- saved,
         Tables <- Map, Cursors <- 0..MaxRows, Empty <- EmptyMap, Start <- 0

(* A table with an undo stack of deltas behaves like a table with a stack  *)
(* of full snapshots: an undo that does not throw restores table and       *)
(* cursor, a squash keeps both.  A call that throws half way is a write.   *)
ImplementsUndoLog == Abs!Spec
===============================================================================
