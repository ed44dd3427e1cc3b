------------------------------- MODULE UndoLog -------------------------------
(***************************************************************************)
(* What one chainbase table promises its users, without deltas: a table,   *)
(* the cursor that numbers its next row, and a stack of full snapshots.    *)
(* A write may change the table in any way; opening a session saves a      *)
(* snapshot; rolling back returns to the newest snapshot; merging forgets  *)
(* the newest snapshot and keeps the table; forgetting drops the oldest    *)
(* snapshots, which can then never be returned to.                         *)
(*                                                                         *)
(* The delta-based implementation is GenericIndex, which is shown to       *)
(* implement this specification.                                           *)
(***************************************************************************)
EXTENDS Naturals, Sequences

CONSTANTS Tables,    \* all the contents a table can have
          Cursors,   \* all the values the row counter can have
          Empty,     \* the contents of a new table
          Start      \* the row counter of a new table

VARIABLES table, cursor, saved

vars == <<table, cursor, saved>>

Snapshot == [table |-> table, cursor |-> cursor]

Init == table = Empty /\ cursor = Start /\ saved = <<>>

Write == /\ table' \in Tables
         /\ cursor' \in Cursors
         /\ UNCHANGED saved

Open == /\ saved' = Append(saved, Snapshot)
        /\ UNCHANGED <<table, cursor>>

Rollback == /\ saved # <<>>
            /\ table' = saved[Len(saved)].table
            /\ cursor' = saved[Len(saved)].cursor
            /\ saved' = SubSeq(saved, 1, Len(saved) - 1)

Merge == /\ saved # <<>>
         /\ saved' = SubSeq(saved, 1, Len(saved) - 1)
         /\ UNCHANGED <<table, cursor>>

Forget == /\ \E k \in 0..Len(saved) : saved' = SubSeq(saved, k + 1, Len(saved))
          /\ UNCHANGED <<table, cursor>>

Next == Write \/ Open \/ Rollback \/ Merge \/ Forget

Spec == Init /\ [][Next]_vars
===============================================================================
