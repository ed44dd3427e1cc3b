--------------------------- MODULE GenericIndexProofs ---------------------------
(***************************************************************************)
(* Proofs about GenericIndex for every number of rows, sessions and        *)
(* revisions and every set of keys and data.                               *)
(***************************************************************************)
EXTENDS GenericIndex, SequenceTheorems, TLAPS

(* A layer is a record of the four maps and two numbers of undo_state. *)
LEMMA LayerFields ==
  ASSUME NEW L \in Layers
  PROVE  /\ L.old_values \in Map /\ L.removed_values \in Map
         /\ L.new_ids \in SUBSET Ids
         /\ L.old_next_id \in 0..MaxRows /\ L.revision \in 1..MaxRevision
  BY DEF Layers

(* on_create, on_modify and on_remove leave a well-typed layer. *)
LEMMA TopLayerType ==
  ASSUME TypeOK, enabled
  PROVE  /\ Depth \in Nat /\ Depth >= 1
         /\ head \in Layers
         /\ \A id \in Ids : /\ on_create(id) \in Layers
                            /\ on_modify(id) \in Layers
                            /\ on_remove(id) \in Layers
         /\ \A L \in Layers : /\ OnHead(L) \in Seq(Layers)
                              /\ Len(OnHead(L)) = Depth
<1>1. Depth \in Nat /\ Depth >= 1 /\ head \in Layers
  BY DEF TypeOK, enabled, Depth, head
<1>2. ASSUME NEW id \in Ids
      PROVE on_create(id) \in Layers /\ on_modify(id) \in Layers /\ on_remove(id) \in Layers
  <2>1. indices[id] \in Value \cup {Absent}
    BY DEF TypeOK, Map
  <2>2. on_create(id) \in Layers
    BY <1>1, <1>2 DEF on_create, Layers
  <2>3. on_modify(id) \in Layers
    BY <1>1, <1>2, <2>1 DEF on_modify, Layers, Map
  <2>4. on_remove(id) \in Layers
    BY <1>1, <1>2, <2>1 DEF on_remove, Layers, Map
  <2> QED BY <2>2, <2>3, <2>4
<1>3. ASSUME NEW L \in Layers
      PROVE OnHead(L) \in Seq(Layers) /\ Len(OnHead(L)) = Depth
  BY <1>1, <1>3 DEF OnHead, TypeOK, Depth, enabled
<1> QED BY <1>1, <1>2, <1>3

(* squash() merges two layers into a layer. *)
LEMMA MergedType ==
  ASSUME NEW A \in Layers, NEW B \in Layers
  PROVE  /\ Merged(A, B) \in Layers
         /\ Merged(A, B).revision = A.revision
         /\ Merged(A, B).old_next_id = A.old_next_id
  BY DEF Merged, Layers, Map

(* Reversing a layer gives a table. *)
LEMMA ReverseType ==
  ASSUME NEW L \in Layers, NEW t \in Map
  PROVE  Reverse(L, t) \in Map
  BY DEF Reverse, Layers, Map

-------------------------------------------------------------------------------
(* The revisions in the stack are consecutive, so the top layer has the    *)
(* revision of the index, which is therefore positive.                     *)
LEMMA TopRevision ==
  ASSUME TypeOK, RevisionsConsecutive, enabled
  PROVE  revision = head.revision /\ revision \in 1..MaxRevision
<1>1. Depth \in Nat /\ Depth >= 1 /\ head \in Layers
  BY TopLayerType
<1>2. head.revision = revision - (Depth - Depth)
  BY <1>1 DEF RevisionsConsecutive, head
<1>3. head.revision \in 1..MaxRevision /\ revision \in Int
  BY <1>1, LayerFields DEF TypeOK, Revisions
<1> QED BY <1>1, <1>2, <1>3

(* Popping a sequence keeps all but its last element. *)
LEMMA PopType ==
  ASSUME NEW S, NEW s \in Seq(S), s # <<>>
  PROVE  /\ Pop(s) \in Seq(S)
         /\ Len(s) \in Nat /\ Len(s) >= 1
         /\ Len(Pop(s)) = Len(s) - 1
         /\ \A i \in 1..(Len(s) - 1) : Pop(s)[i] = s[i]
<1>1. Len(s) \in Nat /\ Len(s) >= 1 /\ \A i \in 1..Len(s) : s[i] \in S
  BY EmptySeq, LenProperties, ElementOfSeq
<1>2. \A i \in 1..(Len(s) - 1) : s[i] \in S
  BY <1>1
<1>3. /\ SubSeq(s, 1, Len(s) - 1) \in Seq(S)
      /\ Len(SubSeq(s, 1, Len(s) - 1)) = IF 1 <= Len(s) - 1 THEN (Len(s) - 1) - 1 + 1 ELSE 0
      /\ \A i \in 1 .. (Len(s) - 1) - 1 + 1 : SubSeq(s, 1, Len(s) - 1)[i] = s[1 + i - 1]
  <2>1. 1 \in Int /\ Len(s) - 1 \in Int
    BY <1>1
  <2> QED BY <2>1, <1>2, SubSeqProperties
<1>4. ASSUME NEW i \in 1..(Len(s) - 1) PROVE Pop(s)[i] = s[i]
  <2>1. i \in 1 .. (Len(s) - 1) - 1 + 1 /\ 1 + i - 1 = i
    BY <1>1
  <2> QED BY <2>1, <1>3 DEF Pop
<1>5. Len(Pop(s)) = Len(s) - 1
  <2>1. ASSUME NEW n \in Nat, n >= 1
        PROVE (IF 1 <= n - 1 THEN (n - 1) - 1 + 1 ELSE 0) = n - 1
    BY <2>1
  <2> QED BY <1>1, <1>3, <2>1, Zenon DEF Pop
<1> QED BY <1>1, <1>3, <1>4, <1>5 DEF Pop

(* Dropping k elements from the front shifts the rest by k. *)
LEMMA DropType ==
  ASSUME NEW S, NEW s \in Seq(S), NEW k \in 0..Len(s)
  PROVE  /\ SubSeq(s, k + 1, Len(s)) \in Seq(S)
         /\ Len(SubSeq(s, k + 1, Len(s))) = Len(s) - k
         /\ \A i \in 1..(Len(s) - k) : SubSeq(s, k + 1, Len(s))[i] = s[i + k]
<1>1. Len(s) \in Nat /\ \A i \in 1..Len(s) : s[i] \in S
  BY LenProperties, ElementOfSeq
<1>2. k + 1 \in Int /\ Len(s) \in Int /\ \A i \in (k + 1)..Len(s) : s[i] \in S
  BY <1>1
<1>3. /\ SubSeq(s, k + 1, Len(s)) \in Seq(S)
      /\ Len(SubSeq(s, k + 1, Len(s))) = IF k + 1 <= Len(s) THEN Len(s) - (k + 1) + 1 ELSE 0
      /\ \A i \in 1 .. Len(s) - (k + 1) + 1 : SubSeq(s, k + 1, Len(s))[i] = s[(k + 1) + i - 1]
  BY <1>2, SubSeqProperties
<1> QED BY <1>1, <1>3

(* Every reachable state of the table and its undo stack is well typed: in *)
(* particular no call takes the revision below zero or past the bound, and *)
(* the stack and the history of snapshots have the same height.  This      *)
(* needs the revisions of the layers to be consecutive, because undo and   *)
(* squash count the revision down.                                         *)
LEMMA TypeStep ==
  ASSUME TypeOK, RevisionsConsecutive, [Next]_vars
  PROVE  TypeOK' /\ RevisionsConsecutive'
  <2> USE BoundsAssumption
  <2>1. CASE UNCHANGED vars
    BY <2>1 DEF vars, TypeOK, RevisionsConsecutive, Depth
  <2>a. ASSUME NEW L \in Layers, enabled => L.revision = head.revision, stack' = OnHead(L),
               revision' = revision
        PROVE  stack' \in Seq(Layers) /\ Len(stack') = Len(stack) /\ RevisionsConsecutive'
    <3>1. CASE ~enabled
      BY <2>a, <3>1 DEF TypeOK, RevisionsConsecutive, OnHead, Depth
    <3>2. CASE enabled
      <4>1. stack' \in Seq(Layers) /\ Len(stack') = Len(stack)
        BY <2>a, <3>2, TopLayerType DEF OnHead, TypeOK, Depth
      <4>2. \A i \in 1..Len(stack) : stack'[i].revision = stack[i].revision
        BY <2>a, <3>2, TopLayerType DEF OnHead, TypeOK, Depth, head
      <4> QED BY <2>a, <4>1, <4>2 DEF RevisionsConsecutive, Depth
    <3> QED BY <3>1, <3>2
  <2>b. ASSUME NEW id \in Ids, enabled
        PROVE /\ on_create(id) \in Layers /\ on_create(id).revision = head.revision
              /\ on_modify(id) \in Layers /\ on_modify(id).revision = head.revision
              /\ on_remove(id) \in Layers /\ on_remove(id).revision = head.revision
    <3>1. head \in Layers
      BY <2>b, TopLayerType
    <3> QED BY <2>b, <3>1, TopLayerType DEF on_create, on_modify, on_remove, Layers
  <2>c. ASSUME NEW id \in Ids, revision' = revision,
               \/ stack' = OnHead(on_create(id))
               \/ stack' = OnHead(on_modify(id))
               \/ stack' = OnHead(on_remove(id))
        PROVE  stack' \in Seq(Layers) /\ Len(stack') = Len(stack) /\ RevisionsConsecutive'
    <3>1. CASE ~enabled
      BY <2>c, <3>1 DEF TypeOK, RevisionsConsecutive, OnHead, Depth
    <3>2. CASE enabled
      BY <2>a, <2>b, <2>c, <3>2
    <3> QED BY <3>1, <3>2
  <2>2. ASSUME NEW v \in Value, emplace(v) PROVE TypeOK' /\ RevisionsConsecutive'
    <3>1. next_id \in Ids /\ next_id' \in 0..MaxRows
      BY <2>2 DEF emplace, TypeOK, Ids
    <3>2. indices' \in Map
      BY <2>2, <3>1 DEF emplace, TypeOK, Map
    <3> QED BY <2>2, <2>c, <3>1, <3>2 DEF emplace, TypeOK
  <2>3. ASSUME NEW id \in Ids, NEW v \in Value, modify(id, v) \/ modify_throws(id, v)
        PROVE TypeOK' /\ RevisionsConsecutive'
    <3>1. indices' \in Map
      BY <2>3 DEF modify, modify_throws, TypeOK, Map
    <3> QED BY <2>3, <2>c, <3>1 DEF modify, modify_throws, TypeOK
  <2>4. ASSUME NEW id \in Ids, remove(id) PROVE TypeOK' /\ RevisionsConsecutive'
    <3>1. indices' \in Map
      BY <2>4 DEF remove, TypeOK, Map
    <3> QED BY <2>4, <2>c, <3>1 DEF remove, TypeOK
  <2>5. CASE start_undo_session
    <3> DEFINE L == [old_values |-> EmptyMap, removed_values |-> EmptyMap, new_ids |-> {},
                     old_next_id |-> next_id, revision |-> revision + 1]
    <3>1. L \in Layers /\ L.revision = revision + 1
      BY <2>5 DEF start_undo_session, TypeOK, Layers, EmptyMap, Map, Revisions
    <3>0. stack' = Append(stack, L)
      BY <2>5 DEF start_undo_session
    <3> HIDE DEF L
    <3>2. /\ stack' \in Seq(Layers) /\ Len(stack') = Len(stack) + 1
          /\ stack'[Len(stack) + 1] = L
          /\ \A i \in 1..Len(stack) : stack'[i] = stack[i]
      BY <3>0, <3>1 DEF TypeOK
    <3>3. saved' \in Seq([table : Map, cursor : 0..MaxRows]) /\ Len(saved') = Len(saved) + 1
      BY <2>5 DEF start_undo_session, TypeOK
    <3>4. TypeOK'
      BY <2>5, <3>2, <3>3 DEF start_undo_session, TypeOK, Revisions
    <3>5. RevisionsConsecutive'
      BY <2>5, <3>1, <3>2 DEF start_undo_session, TypeOK, Revisions, RevisionsConsecutive, Depth
    <3> QED BY <3>4, <3>5
  <2>6. CASE undo
    <3>1. indices' \in Map /\ next_id' \in 0..MaxRows
      BY <2>6, TopLayerType, ReverseType, LayerFields DEF undo, TypeOK
    <3>2. revision' \in Revisions
      BY <2>6, TopRevision DEF undo, TypeOK, Revisions
    <3>3. /\ stack' \in Seq(Layers) /\ Len(stack') = Len(stack) - 1
          /\ \A i \in 1..(Len(stack) - 1) : stack'[i] = stack[i]
      BY <2>6, PopType DEF undo, TypeOK, enabled
    <3>4. saved' \in Seq([table : Map, cursor : 0..MaxRows]) /\ Len(saved') = Len(saved) - 1
      BY <2>6, PopType, TopLayerType, SMTT(60) DEF undo, TypeOK, Depth
    <3>5. TypeOK'
      BY <2>6, <3>1, <3>2, <3>3, <3>4 DEF undo, TypeOK
    <3>6. RevisionsConsecutive'
      <4>1. Len(stack) \in Nat /\ Len(stack) >= 1 /\ revision \in Int /\ revision' = revision - 1
        BY <2>6, TopLayerType DEF undo, Depth, TypeOK, Revisions
      <4> QED BY <3>3, <4>1 DEF RevisionsConsecutive, Depth
    <3> QED BY <3>5, <3>6
  <2>7. CASE undo_throws
    <3>1. indices' \in Map
      <4>1. PICK id \in Ids : indices' = [RestoredBelow(head, indices, id) EXCEPT ![id] = Absent]
        BY <2>7 DEF undo_throws, Unrestorable
      <4>2. head.old_values \in Map /\ indices \in Map
        BY <2>7, TopLayerType, LayerFields DEF undo_throws, TypeOK
      <4>3. RestoredBelow(head, indices, id) \in Map
        BY <4>2 DEF RestoredBelow, Map
      <4> QED BY <4>1, <4>3 DEF Map
    <3> QED BY <2>7, <3>1 DEF undo_throws, TypeOK, RevisionsConsecutive, Depth
  <2>8. CASE squash
    <3>1. revision' \in Revisions
      BY <2>8, TopRevision DEF squash, TypeOK, Revisions
    <3>2. saved' \in Seq([table : Map, cursor : 0..MaxRows]) /\ Len(saved') = Len(saved) - 1
      BY <2>8, PopType, TopLayerType DEF squash, TypeOK, Depth
    <3>3. CASE Depth = 1
      BY <2>8, <3>1, <3>2, <3>3 DEF squash, TypeOK, RevisionsConsecutive, Depth
    <3>4. CASE Depth # 1
      <4>1. Depth \in Nat /\ Depth >= 2 /\ Len(stack) = Depth /\ head \in Layers
        <5>1. Depth \in Nat /\ Depth >= 1 /\ head \in Layers
          BY <2>8, TopLayerType DEF squash
        <5>2. Len(stack) = Depth
          BY DEF Depth
        <5> QED BY <5>1, <5>2, <3>4
      <4>2. stack[Depth - 1] \in Layers
        BY <4>1 DEF TypeOK
      <4> DEFINE M == Merged(stack[Depth - 1], head)
      <4>3. M \in Layers /\ M.revision = stack[Depth - 1].revision
        BY <4>1, <4>2, MergedType
      <4>4. stack' = [Pop(stack) EXCEPT ![Depth - 1] = M]
        BY <2>8, <3>4 DEF squash
      <4> HIDE DEF M
      <4>5. /\ Pop(stack) \in Seq(Layers) /\ Len(Pop(stack)) = Depth - 1
            /\ \A i \in 1..(Depth - 1) : Pop(stack)[i] = stack[i]
        BY <2>8, <4>1, PopType DEF squash, TypeOK, enabled
      <4>6. stack' \in Seq(Layers) /\ Len(stack') = Depth - 1
        BY <4>1, <4>3, <4>4, <4>5
      <4>7. \A i \in 1..(Depth - 1) : stack'[i].revision = stack[i].revision
        BY <4>1, <4>3, <4>4, <4>5
      <4>8. TypeOK'
        BY <2>8, <3>1, <3>2, <4>1, <4>6 DEF squash, TypeOK, Depth
      <4>9. revision' = revision - 1
        BY <2>8, <3>4 DEF squash
      <4>10. RevisionsConsecutive'
        <5>1. revision \in Int /\ Depth' = Depth - 1
          BY <4>6 DEF TypeOK, Revisions, Depth
        <5> QED BY <4>1, <4>7, <4>9, <5>1 DEF RevisionsConsecutive
      <4> QED BY <4>8, <4>10
    <3> QED BY <3>3, <3>4
  <2>9. ASSUME NEW r \in Revisions, commit(r) PROVE TypeOK' /\ RevisionsConsecutive'
    <3>1. PICK k \in 0..Depth : stack' = SubSeq(stack, k + 1, Depth) /\ saved' = SubSeq(saved, k + 1, Depth)
      BY <2>9 DEF commit
    <3>0. stack \in Seq(Layers) /\ saved \in Seq([table : Map, cursor : 0..MaxRows])
          /\ Depth = Len(stack) /\ Depth = Len(saved) /\ Depth \in Nat
      BY DEF TypeOK, Depth
    <3>2. /\ stack' \in Seq(Layers) /\ Len(stack') = Depth - k
          /\ \A i \in 1..(Depth - k) : stack'[i] = stack[i + k]
      <4>1. stack' = SubSeq(stack, k + 1, Len(stack)) /\ k \in 0..Len(stack)
        BY <3>0, <3>1
      <4>2. /\ SubSeq(stack, k + 1, Len(stack)) \in Seq(Layers)
            /\ Len(SubSeq(stack, k + 1, Len(stack))) = Len(stack) - k
            /\ \A i \in 1..(Len(stack) - k) : SubSeq(stack, k + 1, Len(stack))[i] = stack[i + k]
        BY <3>0, <4>1, DropType
      <4> QED BY <3>0, <4>1, <4>2
    <3>3. saved' \in Seq([table : Map, cursor : 0..MaxRows]) /\ Len(saved') = Depth - k
      BY <3>0, <3>1, DropType
    <3>4. TypeOK'
      BY <2>9, <3>2, <3>3 DEF commit, TypeOK
    <3>5. RevisionsConsecutive'
      <4>1. revision \in Int /\ revision' = revision /\ Depth' = Depth - k
        BY <2>9, <3>2 DEF commit, TypeOK, Revisions, Depth
      <4>2. ASSUME NEW i \in 1..(Depth - k)
            PROVE  stack'[i].revision = revision - ((Depth - k) - i)
        <5>1. i + k \in 1..Depth
          BY <3>0, <4>2
        <5>2. stack[i + k].revision = revision - (Depth - (i + k))
          BY <5>1 DEF RevisionsConsecutive
        <5>3. stack'[i] = stack[i + k]
          BY <3>2, <4>2
        <5>4. revision - (Depth - (i + k)) = revision - ((Depth - k) - i)
          BY <3>0, <4>1, <4>2
        <5> QED BY <5>2, <5>3, <5>4
      <4> QED BY <4>1, <4>2 DEF RevisionsConsecutive
    <3> QED BY <3>4, <3>5
  <2>10. ASSUME NEW r \in Revisions, set_revision(r) PROVE TypeOK' /\ RevisionsConsecutive'
    BY <2>10 DEF set_revision, TypeOK, RevisionsConsecutive, enabled, Depth
  <2> QED BY <2>1, <2>2, <2>3, <2>4, <2>5, <2>6, <2>7, <2>8, <2>9, <2>10 DEF Next

(* Every reachable state is well typed, and the layers of the undo stack   *)
(* carry consecutive revisions ending at the revision of the index.        *)
THEOREM TypeCorrect == Spec => [](TypeOK /\ RevisionsConsecutive)
<1>1. Init => TypeOK /\ RevisionsConsecutive
  BY BoundsAssumption DEF Init, TypeOK, EmptyMap, Map, Revisions, RevisionsConsecutive, Depth
<1>2. TypeOK /\ RevisionsConsecutive /\ [Next]_vars => TypeOK' /\ RevisionsConsecutive'
  BY TypeStep
<1> QED BY <1>1, <1>2, PTL DEF Spec

-------------------------------------------------------------------------------
Snaps == [table : Map, cursor : 0..MaxRows]

(* The table of a layer, row by row: what LayerInv and Reverse say of one id. *)
LEMMA ReverseRow ==
  ASSUME NEW L \in Layers, NEW t \in Map, NEW id \in Ids
  PROVE  Reverse(L, t)[id] = IF L.removed_values[id] # Absent THEN L.removed_values[id]
                             ELSE IF id \in L.new_ids THEN Absent
                             ELSE IF L.old_values[id] # Absent THEN L.old_values[id]
                             ELSE t[id]
  BY DEF Reverse

(* Two tables with the same rows are the same table. *)
LEMMA SameRows ==
  ASSUME NEW t \in Map, NEW u \in Map, \A id \in Ids : t[id] = u[id]
  PROVE  t = u
  BY DEF Map

(* Creating a row keeps the layer reversible. *)
LEMMA EmplaceLayer ==
  ASSUME NEW L \in Layers, NEW above \in Snaps, NEW below \in Snaps, NEW v \in Value,
         above.cursor \in Ids,
         \A id \in Ids : above.cursor <= id => above.table[id] = Absent,
         LayerInv(L, above, below)
  PROVE  LayerInv([L EXCEPT !.new_ids = @ \cup {above.cursor}],
                  [table |-> [above.table EXCEPT ![above.cursor] = v],
                   cursor |-> above.cursor + 1], below)
<1> DEFINE n == above.cursor
           M == [L EXCEPT !.new_ids = @ \cup {n}]
           u == [above.table EXCEPT ![n] = v]
<1>1. /\ n \in Ids /\ n \in Int /\ above.table \in Map /\ below.table \in Map
      /\ below.cursor \in Int /\ v # Absent
  BY AbsentAssumption, BoundsAssumption DEF Snaps, Ids
<1>2. /\ L.old_values \in Map /\ L.removed_values \in Map /\ L.new_ids \subseteq Ids
  BY LayerFields
<1>3. /\ M \in Layers /\ M.old_values = L.old_values /\ M.removed_values = L.removed_values
      /\ M.new_ids = L.new_ids \cup {n} /\ M.old_next_id = L.old_next_id
  BY <1>1 DEF Layers
<1>4. u \in Map /\ u[n] = v /\ \A id \in Ids : id # n => u[id] = above.table[id]
  BY <1>1 DEF Map
<1>5. above.table[n] = Absent /\ L.old_values[n] = Absent /\ n \notin L.new_ids
      /\ below.cursor <= n /\ below.table[n] = Absent
  BY <1>1 DEF LayerInv
<1>6. L.removed_values[n] = Absent
  BY <1>1, <1>5, ReverseRow DEF LayerInv
<1> HIDE DEF M, u
<1>7. \A id \in Ids : Reverse(M, u)[id] = Reverse(L, above.table)[id]
  BY <1>1, <1>3, <1>4, <1>5, <1>6, ReverseRow
<1>8. below.table = Reverse(M, u)
  BY <1>1, <1>3, <1>4, <1>7, ReverseType, SameRows DEF LayerInv
<1>9. \A id \in Ids :
       /\ id \in M.new_ids => /\ u[id] # Absent
                              /\ M.old_values[id] = Absent
                              /\ M.removed_values[id] = Absent
                              /\ below.cursor <= id
       /\ M.old_values[id] # Absent => u[id] # Absent /\ M.removed_values[id] = Absent
       /\ M.removed_values[id] # Absent => u[id] = Absent
       /\ below.cursor <= id => below.table[id] = Absent
       /\ (~Rekey /\ below.table[id] # Absent /\ u[id] # Absent) => below.table[id].key = u[id].key
  BY <1>1, <1>3, <1>4, <1>5, <1>6 DEF LayerInv
<1>10. M.old_next_id = below.cursor /\ below.cursor <= n + 1
  BY <1>1, <1>3, <1>5 DEF LayerInv
<1> QED BY <1>8, <1>9, <1>10 DEF LayerInv, M, u

(* Rewriting a row keeps the layer reversible. *)
LEMMA ModifyLayer ==
  ASSUME NEW L \in Layers, NEW above \in Snaps, NEW below \in Snaps,
         NEW id \in Ids, NEW v \in Value, above.table[id] # Absent,
         Rekey \/ v.key = above.table[id].key,
         NEW M \in Layers,
         M.removed_values = L.removed_values, M.new_ids = L.new_ids,
         M.old_next_id = L.old_next_id,
         \A j \in Ids : j # id => M.old_values[j] = L.old_values[j],
         M.old_values[id] = IF id \in L.new_ids \/ L.old_values[id] # Absent
                            THEN L.old_values[id] ELSE above.table[id],
         LayerInv(L, above, below)
  PROVE  LayerInv(M, [table |-> [above.table EXCEPT ![id] = v], cursor |-> above.cursor], below)
<1> DEFINE u == [above.table EXCEPT ![id] = v]
<1>1. /\ above.table \in Map /\ below.table \in Map /\ v # Absent
      /\ above.table[id] \in Value
  BY AbsentAssumption DEF Snaps, Map
<1>2. /\ L.old_values \in Map /\ L.removed_values \in Map /\ L.new_ids \subseteq Ids
  BY LayerFields
<1>3. M.old_values[id] = IF id \in L.new_ids THEN Absent
                         ELSE IF L.old_values[id] # Absent THEN L.old_values[id]
                         ELSE above.table[id]
  BY DEF LayerInv
<1>4. u \in Map /\ u[id] = v /\ \A j \in Ids : j # id => u[j] = above.table[j]
  BY <1>1 DEF Map
<1>5. L.removed_values[id] = Absent
  BY DEF LayerInv
<1> HIDE DEF u
<1>6. Reverse(M, u)[id] = Reverse(L, above.table)[id]
  BY <1>1, <1>2, <1>3, <1>4, <1>5, ReverseRow
<1>7. ASSUME NEW j \in Ids PROVE Reverse(M, u)[j] = Reverse(L, above.table)[j]
  <2>1. CASE j = id
    BY <1>6, <2>1
  <2>2. CASE j # id
    BY <1>1, <1>3, <1>4, <2>2, ReverseRow
  <2> QED BY <2>1, <2>2
<1>8. below.table = Reverse(M, u)
  BY <1>1, <1>4, <1>7, ReverseType, SameRows DEF LayerInv
<1>9. ASSUME NEW j \in Ids
      PROVE
       /\ j \in M.new_ids => /\ u[j] # Absent
                             /\ M.old_values[j] = Absent
                             /\ M.removed_values[j] = Absent
                             /\ below.cursor <= j
       /\ M.old_values[j] # Absent => u[j] # Absent /\ M.removed_values[j] = Absent
       /\ M.removed_values[j] # Absent => u[j] = Absent
       /\ below.cursor <= j => below.table[j] = Absent
  BY <1>1, <1>3, <1>4, <1>5, <1>9 DEF LayerInv
<1>10. ASSUME NEW j \in Ids, ~Rekey, below.table[j] # Absent, u[j] # Absent
       PROVE  below.table[j].key = u[j].key
  BY <1>1, <1>4, <1>10 DEF LayerInv
<1> QED BY <1>3, <1>8, <1>9, <1>10 DEF LayerInv, u

(* Removing a row keeps the layer reversible. *)
LEMMA RemoveLayer ==
  ASSUME NEW L \in Layers, NEW above \in Snaps, NEW below \in Snaps,
         NEW id \in Ids, above.table[id] # Absent,
         NEW M \in Layers,
         M.old_next_id = L.old_next_id, M.new_ids = L.new_ids \ {id},
         \A j \in Ids : j # id => /\ M.old_values[j] = L.old_values[j]
                                 /\ M.removed_values[j] = L.removed_values[j],
         M.old_values[id] = Absent,
         M.removed_values[id] = IF id \in L.new_ids THEN Absent
                                ELSE IF L.old_values[id] # Absent THEN L.old_values[id]
                                ELSE above.table[id],
         LayerInv(L, above, below)
  PROVE  LayerInv(M, [table |-> [above.table EXCEPT ![id] = Absent], cursor |-> above.cursor], below)
<1> DEFINE u == [above.table EXCEPT ![id] = Absent]
<1>1. above.table \in Map /\ below.table \in Map
  BY DEF Snaps, Map
<1>2. /\ L.old_values \in Map /\ L.removed_values \in Map /\ L.new_ids \subseteq Ids
  BY LayerFields
<1>5. L.removed_values[id] = Absent
  BY DEF LayerInv
<1>4. u \in Map /\ u[id] = Absent /\ \A j \in Ids : j # id => u[j] = above.table[j]
  BY <1>1 DEF Map
<1> HIDE DEF u
<1>6. Reverse(M, u)[id] = Reverse(L, above.table)[id]
  BY <1>1, <1>2, <1>4, <1>5, ReverseRow
<1>7. ASSUME NEW j \in Ids PROVE Reverse(M, u)[j] = Reverse(L, above.table)[j]
  <2>1. CASE j = id
    BY <1>6, <2>1
  <2>2. CASE j # id
    BY <1>1, <1>4, <2>2, ReverseRow
  <2> QED BY <2>1, <2>2
<1>8. below.table = Reverse(M, u)
  BY <1>1, <1>4, <1>7, ReverseType, SameRows DEF LayerInv
<1>9. ASSUME NEW j \in Ids
      PROVE
       /\ j \in M.new_ids => /\ u[j] # Absent
                             /\ M.old_values[j] = Absent
                             /\ M.removed_values[j] = Absent
                             /\ below.cursor <= j
       /\ M.old_values[j] # Absent => u[j] # Absent /\ M.removed_values[j] = Absent
       /\ M.removed_values[j] # Absent => u[j] = Absent
       /\ below.cursor <= j => below.table[j] = Absent
       /\ (~Rekey /\ below.table[j] # Absent /\ u[j] # Absent) => below.table[j].key = u[j].key
  BY <1>1, <1>4, <1>5, <1>9 DEF LayerInv
<1> QED BY <1>8, <1>9 DEF LayerInv, u

(* The containers of a merged layer, row by row. *)
LEMMA MergedFields ==
  ASSUME NEW A \in Layers, NEW B \in Layers
  PROVE  LET M == Merged(A, B)
             new == A.new_ids \cup B.new_ids
             old(id) == IF B.old_values[id] # Absent /\ id \notin A.new_ids
                           /\ A.old_values[id] = Absent
                        THEN B.old_values[id] ELSE A.old_values[id]
         IN /\ M.old_next_id = A.old_next_id
            /\ \A id \in Ids :
                 /\ id \in M.new_ids <=> id \in new /\ B.removed_values[id] = Absent
                 /\ M.old_values[id] = IF B.removed_values[id] # Absent /\ id \notin new
                                       THEN Absent ELSE old(id)
                 /\ M.removed_values[id] = IF B.removed_values[id] = Absent \/ id \in new
                                           THEN A.removed_values[id]
                                           ELSE IF old(id) # Absent THEN old(id)
                                           ELSE B.removed_values[id]
  BY DEF Merged, Layers, Map

(* Merging two adjacent layers gives the layer that takes the table all    *)
(* the way back: the four-by-four matrix in the comment of squash().       *)
LEMMA MergeLayers ==
  ASSUME NEW A \in Layers, NEW B \in Layers,
         NEW above \in Snaps, NEW mid \in Snaps, NEW below \in Snaps,
         LayerInv(A, mid, below), LayerInv(B, above, mid),
         \A id \in Ids : mid.cursor <= id => mid.table[id] = Absent
  PROVE  LayerInv(Merged(A, B), above, below)
<1> DEFINE M == Merged(A, B)
<1>1. M \in Layers /\ M.old_next_id = A.old_next_id
  BY MergedType
<1>2. /\ above.table \in Map /\ mid.table \in Map /\ below.table \in Map
      /\ above.cursor \in Int /\ mid.cursor \in Int /\ below.cursor \in Int
  BY BoundsAssumption DEF Snaps
<1> HIDE DEF M
<1>3. ASSUME NEW id \in Ids
      PROVE
       /\ below.table[id] = Reverse(M, above.table)[id]
       /\ id \in M.new_ids => /\ above.table[id] # Absent
                              /\ M.old_values[id] = Absent
                              /\ M.removed_values[id] = Absent
                              /\ below.cursor <= id
       /\ M.old_values[id] # Absent => above.table[id] # Absent /\ M.removed_values[id] = Absent
       /\ M.removed_values[id] # Absent => above.table[id] = Absent
       /\ below.cursor <= id => below.table[id] = Absent
       /\ (~Rekey /\ below.table[id] # Absent /\ above.table[id] # Absent)
            => below.table[id].key = above.table[id].key
    <2>0. id \in Int
      BY <1>3, BoundsAssumption DEF Ids
    <2>1. mid.table[id] = IF B.removed_values[id] # Absent THEN B.removed_values[id]
                          ELSE IF id \in B.new_ids THEN Absent
                          ELSE IF B.old_values[id] # Absent THEN B.old_values[id]
                          ELSE above.table[id]
      BY <1>2, <1>3, ReverseRow DEF LayerInv
    <2>2. below.table[id] = IF A.removed_values[id] # Absent THEN A.removed_values[id]
                            ELSE IF id \in A.new_ids THEN Absent
                            ELSE IF A.old_values[id] # Absent THEN A.old_values[id]
                            ELSE mid.table[id]
      BY <1>2, <1>3, ReverseRow DEF LayerInv
    <2>3. Reverse(M, above.table)[id] =
                            IF M.removed_values[id] # Absent THEN M.removed_values[id]
                            ELSE IF id \in M.new_ids THEN Absent
                            ELSE IF M.old_values[id] # Absent THEN M.old_values[id]
                            ELSE above.table[id]
      BY <1>1, <1>2, <1>3, ReverseRow
    <2>4. /\ id \in A.new_ids => /\ mid.table[id] # Absent /\ A.old_values[id] = Absent
                                 /\ A.removed_values[id] = Absent /\ below.cursor <= id
          /\ A.old_values[id] # Absent => mid.table[id] # Absent /\ A.removed_values[id] = Absent
          /\ A.removed_values[id] # Absent => mid.table[id] = Absent
          /\ below.cursor <= id => below.table[id] = Absent
          /\ (~Rekey /\ below.table[id] # Absent /\ mid.table[id] # Absent)
               => below.table[id].key = mid.table[id].key
          /\ below.cursor <= mid.cursor
      BY <1>3 DEF LayerInv
    <2>5. /\ id \in B.new_ids => /\ above.table[id] # Absent /\ B.old_values[id] = Absent
                                 /\ B.removed_values[id] = Absent /\ mid.cursor <= id
          /\ B.old_values[id] # Absent => above.table[id] # Absent /\ B.removed_values[id] = Absent
          /\ B.removed_values[id] # Absent => above.table[id] = Absent
          /\ (~Rekey /\ mid.table[id] # Absent /\ above.table[id] # Absent)
               => mid.table[id].key = above.table[id].key
      BY <1>3 DEF LayerInv
    <2>6. /\ id \in M.new_ids <=> (id \in A.new_ids \/ id \in B.new_ids) /\ B.removed_values[id] = Absent
          /\ M.old_values[id] =
               IF B.removed_values[id] # Absent /\ id \notin A.new_ids /\ id \notin B.new_ids THEN Absent
               ELSE IF B.old_values[id] # Absent /\ id \notin A.new_ids /\ A.old_values[id] = Absent
               THEN B.old_values[id] ELSE A.old_values[id]
          /\ M.removed_values[id] =
               IF B.removed_values[id] = Absent \/ id \in A.new_ids \/ id \in B.new_ids
               THEN A.removed_values[id]
               ELSE IF B.old_values[id] # Absent /\ id \notin A.new_ids /\ A.old_values[id] = Absent
               THEN B.old_values[id]
               ELSE IF A.old_values[id] # Absent THEN A.old_values[id]
               ELSE B.removed_values[id]
      BY <1>3, MergedFields DEF M
    <2>7. mid.cursor <= id => mid.table[id] = Absent
      BY <1>3
    <2>8. below.table[id] = Reverse(M, above.table)[id]
      BY <1>2, <2>0, <2>1, <2>2, <2>3, <2>4, <2>5, <2>6, <2>7
    <2>9. /\ id \in M.new_ids => /\ above.table[id] # Absent
                                 /\ M.old_values[id] = Absent
                                 /\ M.removed_values[id] = Absent
                                 /\ below.cursor <= id
          /\ M.old_values[id] # Absent => above.table[id] # Absent /\ M.removed_values[id] = Absent
          /\ M.removed_values[id] # Absent => above.table[id] = Absent
      BY <1>2, <2>0, <2>1, <2>2, <2>4, <2>5, <2>6, <2>7
    <2>10. (~Rekey /\ below.table[id] # Absent /\ above.table[id] # Absent)
            => below.table[id].key = above.table[id].key
      <3>1. CASE mid.table[id] # Absent
        BY <2>4, <2>5, <3>1
      <3>2. CASE mid.table[id] = Absent
        BY <1>2, <2>0, <2>1, <2>2, <2>4, <2>5, <2>7, <3>2
      <3> QED BY <3>1, <3>2
    <2> QED BY <2>4, <2>8, <2>9, <2>10
<1>4. below.table = Reverse(M, above.table)
  BY <1>1, <1>2, <1>3, ReverseType, SameRows
<1>5. A.old_next_id = below.cursor /\ below.cursor <= above.cursor
  BY <1>2 DEF LayerInv
<1> QED BY <1>1, <1>3, <1>4, <1>5 DEF LayerInv, M

-------------------------------------------------------------------------------
(* Clashing is symmetric, so a value that fits is one the others fit with. *)
LEMMA UniqueAfterWrite ==
  ASSUME NEW t \in Map, NEW id \in Ids, NEW v \in Value \cup {Absent},
         UniqueIn(t), Fits(t, id, v)
  PROVE  UniqueIn([t EXCEPT ![id] = v])
<1> DEFINE u == [t EXCEPT ![id] = v]
<1>1. u[id] = v /\ \A j \in Ids : j # id => u[j] = t[j]
  BY DEF Map
<1> HIDE DEF u
<1>2. ASSUME NEW a \in Ids, NEW b \in Ids \ {a} PROVE ~Clash(u[a], u[b])
  BY <1>1, <1>2 DEF UniqueIn, Fits, Clash
<1>3. UniqueIn(u)
  BY <1>2 DEF UniqueIn, Fits
<1> QED BY <1>3 DEF u

(* The parts of IndInv that hold while no call has thrown. *)
Sane == /\ \A id \in Ids : next_id <= id => indices[id] = Absent
        /\ UniqueIn(indices)
        /\ \A i \in 1..Depth : UniqueIn(saved[i].table)
        /\ \A i \in 1..Depth : LayerInv(stack[i], Above(i), saved[i])

(* The inductive invariant: types always, the rest until a call throws. *)
LEMMA IndInvParts == IndInv <=> TypeOK /\ (sound => Sane)
  BY DEF IndInv, Sane, KeysStayUnique

(* A write that leaves a reversible top layer keeps the whole stack so:    *)
(* the other layers are deltas between snapshots, which it cannot reach.   *)
LEMMA WriteStep ==
  ASSUME TypeOK, TypeOK', sound, Sane, saved' = saved,
         NEW L \in Layers, stack' = OnHead(L),
         \A id \in Ids : next_id' <= id => indices'[id] = Absent,
         UniqueIn(indices'),
         enabled => LayerInv(L, [table |-> indices', cursor |-> next_id'], saved[Depth])
  PROVE  Sane'
<1>1. CASE ~enabled
  BY <1>1 DEF OnHead, Sane, enabled, Depth
<1>2. CASE enabled
  <2>1. Depth \in Nat /\ Depth >= 1 /\ stack \in Seq(Layers)
    BY <1>2, TopLayerType DEF TypeOK
  <2>2. Depth' = Depth /\ stack'[Depth] = L /\ \A i \in 1..Depth : i # Depth => stack'[i] = stack[i]
    BY <1>2, <2>1 DEF OnHead, Depth
  <2>3. ASSUME NEW i \in 1..Depth PROVE LayerInv(stack'[i], Above(i)', saved[i])
    <3>1. CASE i = Depth
      BY <1>2, <2>2, <3>1 DEF Above
    <3>2. CASE i # Depth
      BY <2>2, <2>3, <3>2 DEF Above, Sane
    <3> QED BY <3>1, <3>2
  <2> QED BY <2>2, <2>3 DEF Sane
<1> QED BY <1>1, <1>2

(* The snapshots and the current table, as LayerInv takes them. *)
LEMMA SnapTypes ==
  ASSUME TypeOK
  PROVE  /\ [table |-> indices, cursor |-> next_id] \in Snaps
         /\ Depth \in Nat /\ Len(saved) = Depth
         /\ \A i \in 1..Depth : saved[i] \in Snaps /\ stack[i] \in Layers
         /\ Above(Depth) = [table |-> indices, cursor |-> next_id]
<1>1. Depth \in Nat /\ Len(saved) = Depth
  BY DEF TypeOK, Depth
<1>2. \A i \in 1..Depth : saved[i] \in Snaps
  BY <1>1, ElementOfSeq DEF TypeOK, Snaps
<1>3. \A i \in 1..Depth : stack[i] \in Layers
  BY <1>1, ElementOfSeq DEF TypeOK, Depth
<1> QED BY <1>1, <1>2, <1>3 DEF Above, TypeOK, Snaps

(* Each action keeps the stack reversible. *)
LEMMA SaneStep ==
  ASSUME TypeOK, RevisionsConsecutive, sound => Sane, [Next]_vars
  PROVE  sound' => Sane'
<1> USE BoundsAssumption
<1>0. TypeOK'
  BY TypeStep
<1> SUFFICES ASSUME sound' PROVE Sane'
  OBVIOUS
<1>1. CASE UNCHANGED vars
  BY <1>1 DEF vars, Sane, sound, Depth, Above
<1>s. ASSUME Next PROVE sound /\ Sane
  BY <1>s DEF Next, emplace, modify, modify_throws, remove, start_undo_session, undo,
              undo_throws, squash, commit, set_revision
<1>2. ASSUME NEW v \in Value, emplace(v) PROVE Sane'
  <2>0. sound /\ Sane
    BY <1>s, <1>2 DEF Next
  <2>1. next_id \in Ids /\ next_id \in Int /\ indices \in Map
    BY <1>2 DEF emplace, TypeOK, Ids
  <2>2. indices' = [indices EXCEPT ![next_id] = v] /\ next_id' = next_id + 1
    BY <1>2 DEF emplace
  <2>3. \A id \in Ids : next_id' <= id => indices'[id] = Absent
    BY <2>0, <2>1, <2>2 DEF Sane, Map, Ids
  <2>4. UniqueIn(indices')
    <3>1. Fits(indices, next_id, v) /\ UniqueIn(indices) /\ v \in Value \cup {Absent}
      BY <1>2, <2>0 DEF emplace, Sane
    <3> QED BY <2>1, <2>2, <3>1, UniqueAfterWrite
  <2>5. CASE enabled
    <3>1. head \in Layers /\ on_create(next_id) \in Layers /\ Depth \in 1..Depth
      BY <2>1, <2>5, TopLayerType
    <3>2. LayerInv(head, [table |-> indices, cursor |-> next_id], saved[Depth])
      BY <2>0, <3>1, SnapTypes DEF Sane, head
    <3>3. LayerInv(on_create(next_id), [table |-> indices', cursor |-> next_id'], saved[Depth])
      <4> DEFINE above == [table |-> indices, cursor |-> next_id]
      <4>1. above \in Snaps /\ saved[Depth] \in Snaps
        BY <3>1, SnapTypes
      <4>2. above.cursor = next_id /\ above.table = indices
        OBVIOUS
      <4> HIDE DEF above
      <4>3. LayerInv(head, above, saved[Depth])
        BY <3>2 DEF above
      <4>4. \A id \in Ids : above.cursor <= id => above.table[id] = Absent
        BY <2>0, <4>2 DEF Sane
      <4>5. LayerInv([head EXCEPT !.new_ids = @ \cup {above.cursor}],
                  [table |-> [above.table EXCEPT ![above.cursor] = v],
                   cursor |-> above.cursor + 1], saved[Depth])
        BY <2>1, <3>1, <4>1, <4>2, <4>3, <4>4, EmplaceLayer
      <4> QED BY <2>2, <4>2, <4>5, Zenon DEF on_create
    <3> QED BY <1>0, <1>2, <2>0, <2>3, <2>4, <3>1, <3>3, WriteStep DEF emplace
  <2>6. CASE ~enabled
    BY <1>2, <2>0, <2>3, <2>4, <2>6 DEF emplace, OnHead, Sane, enabled, Depth
  <2> QED BY <2>5, <2>6
<1>3. ASSUME NEW id \in Ids, NEW v \in Value, modify(id, v) PROVE Sane'
  <2>0. sound /\ Sane
    BY <1>s, <1>3 DEF Next
  <2>1. indices \in Map /\ indices[id] # Absent /\ (Rekey \/ v.key = indices[id].key)
    BY <1>3 DEF modify, Rewrites, TypeOK
  <2>2. indices' = [indices EXCEPT ![id] = v] /\ next_id' = next_id
    BY <1>3 DEF modify
  <2>3. \A j \in Ids : next_id' <= j => indices'[j] = Absent
    BY <2>0, <2>1, <2>2 DEF Sane, Map
  <2>4. UniqueIn(indices')
    <3>1. Fits(indices, id, v) /\ UniqueIn(indices) /\ v \in Value \cup {Absent}
      BY <1>3, <2>0 DEF modify, Sane
    <3> QED BY <1>3, <2>1, <2>2, <3>1, UniqueAfterWrite
  <2>5. CASE enabled
    <3>1. head \in Layers /\ on_modify(id) \in Layers /\ Depth \in 1..Depth
      BY <1>3, <2>5, TopLayerType
    <3>2. LayerInv(head, [table |-> indices, cursor |-> next_id], saved[Depth])
      BY <2>0, <3>1, SnapTypes DEF Sane, head
    <3> DEFINE M == on_modify(id)
    <3>3. /\ M.removed_values = head.removed_values /\ M.new_ids = head.new_ids
          /\ M.old_next_id = head.old_next_id
          /\ \A j \in Ids : j # id => M.old_values[j] = head.old_values[j]
          /\ M.old_values[id] = IF id \in head.new_ids \/ head.old_values[id] # Absent
                                THEN head.old_values[id] ELSE indices[id]
      BY <1>3, <3>1 DEF on_modify, Layers, Map
    <3>4. M \in Layers
      BY <3>1
    <3> HIDE DEF M
    <3>5. LayerInv(M, [table |-> indices', cursor |-> next_id'], saved[Depth])
      <4> DEFINE above == [table |-> indices, cursor |-> next_id]
      <4>1. above \in Snaps /\ saved[Depth] \in Snaps
        BY <3>1, SnapTypes
      <4>2. above.cursor = next_id /\ above.table = indices
        OBVIOUS
      <4>3. LayerInv(head, above, saved[Depth])
        BY <3>2
      <4> HIDE DEF above
      <4>4. LayerInv(M, [table |-> [above.table EXCEPT ![id] = v], cursor |-> above.cursor], saved[Depth])
        BY <1>3, <2>1, <3>1, <3>3, <3>4, <4>1, <4>2, <4>3, ModifyLayer
      <4> QED BY <2>2, <4>2, <4>4, Zenon
    <3> QED BY <1>0, <1>3, <2>0, <2>3, <2>4, <3>4, <3>5, WriteStep DEF modify, M
  <2>6. CASE ~enabled
    BY <1>3, <2>0, <2>3, <2>4, <2>6 DEF modify, OnHead, Sane, enabled, Depth
  <2> QED BY <2>5, <2>6
<1>4. ASSUME NEW id \in Ids, remove(id) PROVE Sane'
  <2>0. sound /\ Sane
    BY <1>s, <1>4 DEF Next
  <2>1. indices \in Map /\ indices[id] # Absent
    BY <1>4 DEF remove, TypeOK
  <2>2. indices' = [indices EXCEPT ![id] = Absent] /\ next_id' = next_id
    BY <1>4 DEF remove
  <2>3. \A j \in Ids : next_id' <= j => indices'[j] = Absent
    BY <2>0, <2>1, <2>2 DEF Sane, Map
  <2>4. UniqueIn(indices')
    <3>1. Fits(indices, id, Absent)
      BY DEF Fits, Clash
    <3> QED BY <2>0, <2>1, <2>2, <3>1, <1>4, UniqueAfterWrite DEF Sane
  <2>5. CASE enabled
    <3>1. head \in Layers /\ on_remove(id) \in Layers /\ Depth \in 1..Depth
      BY <1>4, <2>5, TopLayerType
    <3>2. LayerInv(head, [table |-> indices, cursor |-> next_id], saved[Depth])
      BY <2>0, <3>1, SnapTypes DEF Sane, head
    <3>a. /\ head.removed_values[id] = Absent
          /\ id \in head.new_ids => head.old_values[id] = Absent
      BY <1>4, <2>1, <3>2 DEF LayerInv
    <3> DEFINE M == on_remove(id)
    <3>3. /\ M.old_next_id = head.old_next_id
          /\ M.new_ids = head.new_ids \ {id}
          /\ \A j \in Ids : j # id => /\ M.old_values[j] = head.old_values[j]
                                      /\ M.removed_values[j] = head.removed_values[j]
          /\ M.old_values[id] = Absent
          /\ M.removed_values[id] = IF id \in head.new_ids THEN Absent
                                    ELSE IF head.old_values[id] # Absent THEN head.old_values[id]
                                    ELSE indices[id]
      BY <1>4, <3>1, <3>a DEF on_remove, Layers, Map
    <3>4. M \in Layers
      BY <3>1
    <3> HIDE DEF M
    <3>5. LayerInv(M, [table |-> indices', cursor |-> next_id'], saved[Depth])
      <4> DEFINE above == [table |-> indices, cursor |-> next_id]
      <4>1. above \in Snaps /\ saved[Depth] \in Snaps
        BY <3>1, SnapTypes
      <4>2. above.cursor = next_id /\ above.table = indices
        OBVIOUS
      <4>3. LayerInv(head, above, saved[Depth])
        BY <3>2
      <4> HIDE DEF above
      <4>4. LayerInv(M, [table |-> [above.table EXCEPT ![id] = Absent], cursor |-> above.cursor], saved[Depth])
        BY <1>4, <2>1, <3>1, <3>3, <3>4, <4>1, <4>2, <4>3, RemoveLayer
      <4> QED BY <2>2, <4>2, <4>4, Zenon
    <3> QED BY <1>0, <1>4, <2>0, <2>3, <2>4, <3>4, <3>5, WriteStep DEF remove, M
  <2>6. CASE ~enabled
    BY <1>4, <2>0, <2>3, <2>4, <2>6 DEF remove, OnHead, Sane, enabled, Depth
  <2> QED BY <2>5, <2>6
<1>5. CASE start_undo_session
  <2>0. sound /\ Sane
    BY <1>s, <1>5 DEF Next
  <2> DEFINE L == [old_values |-> EmptyMap, removed_values |-> EmptyMap, new_ids |-> {},
                   old_next_id |-> next_id, revision |-> revision + 1]
             now == [table |-> indices, cursor |-> next_id]
  <2>1. L \in Layers
    BY <1>5 DEF start_undo_session, TypeOK, Layers, EmptyMap, Map, Revisions
  <2>2. stack' = Append(stack, L) /\ saved' = Append(saved, now) /\ UNCHANGED <<indices, next_id>>
    BY <1>5 DEF start_undo_session
  <2>3. LayerInv(L, now, now)
    <3>1. Reverse(L, indices) = indices
      BY DEF Reverse, EmptyMap, TypeOK, Map
    <3> QED BY <2>0, <3>1 DEF LayerInv, EmptyMap, Sane, TypeOK
  <2>4. now \in Snaps
    BY SnapTypes
  <2> HIDE DEF L, now
  <2>5. /\ Depth \in Nat /\ Depth' = Depth + 1 /\ stack'[Depth + 1] = L
        /\ \A i \in 1..Depth : stack'[i] = stack[i]
    BY <2>1, <2>2, AppendProperties, LenProperties DEF TypeOK, Depth
  <2>6. saved'[Depth + 1] = now /\ \A i \in 1..Depth : saved'[i] = saved[i]
    BY <2>2, <2>4, AppendProperties DEF TypeOK, Depth, Snaps
  <2>7. ASSUME NEW i \in 1..(Depth + 1) PROVE LayerInv(stack'[i], Above(i)', saved'[i])
    <3>1. CASE i = Depth + 1
      BY <2>2, <2>3, <2>5, <2>6, <3>1 DEF Above, now
    <3>2. CASE i # Depth + 1
      <4>1. i \in 1..Depth /\ Above(i)' = saved'[i + 1]
        BY <2>5, <2>7, <3>2 DEF Above
      <4>2. saved'[i + 1] = Above(i)
        <5>1. CASE i = Depth
          BY <2>6, <5>1 DEF Above, now
        <5>2. CASE i # Depth
          <6>1. i + 1 \in 1..Depth
            BY <2>5, <4>1, <5>2
          <6> QED BY <2>6, <5>2, <6>1 DEF Above
        <5> QED BY <5>1, <5>2
      <4> QED BY <2>0, <2>5, <2>6, <4>1, <4>2 DEF Sane
    <3> QED BY <3>1, <3>2
  <2>8. ASSUME NEW i \in 1..(Depth + 1) PROVE UniqueIn(saved'[i].table)
    BY <2>0, <2>5, <2>6, <2>8 DEF Sane, now
  <2> QED BY <2>0, <2>2, <2>5, <2>7, <2>8 DEF Sane
<1>6. CASE undo
  <2>0. sound /\ Sane
    BY <1>s, <1>6 DEF Next
  <2>1. /\ Depth \in Nat /\ Depth >= 1 /\ head \in Layers
    BY <1>6, TopLayerType DEF undo
  <2>2. LayerInv(head, [table |-> indices, cursor |-> next_id], saved[Depth])
    BY <2>0, <2>1, SnapTypes DEF Sane, head
  <2>3. indices' = saved[Depth].table /\ next_id' = saved[Depth].cursor
    BY <1>6, <2>2 DEF undo, LayerInv
  <2>4. /\ Depth' = Depth - 1
        /\ \A i \in 1..(Depth - 1) : stack'[i] = stack[i] /\ saved'[i] = saved[i]
    <3>1. /\ stack \in Seq(Layers) /\ stack # <<>> /\ Len(stack) = Depth
          /\ saved \in Seq(Snaps) /\ saved # <<>> /\ Len(saved) = Depth
      BY <1>6, <2>1, EmptySeq DEF undo, enabled, TypeOK, Depth, Snaps
    <3> QED BY <1>6, <2>1, <3>1, PopType DEF undo, Depth
  <2>5. ASSUME NEW i \in 1..(Depth - 1) PROVE LayerInv(stack'[i], Above(i)', saved'[i])
    <3>0. i \in 1..Depth /\ i # Depth /\ LayerInv(stack[i], saved[i + 1], saved[i])
      BY <2>0, <2>1, <2>5 DEF Sane, Above
    <3>1. CASE i = Depth - 1
      <4>1. Above(i)' = [table |-> saved[Depth].table, cursor |-> saved[Depth].cursor]
        BY <2>3, <2>4, <3>1 DEF Above
      <4>2. saved[Depth] = [table |-> saved[Depth].table, cursor |-> saved[Depth].cursor]
        BY <2>1, SnapTypes DEF Snaps
      <4>3. i + 1 = Depth
        BY <2>1, <3>1
      <4> QED BY <2>4, <2>5, <3>0, <4>1, <4>2, <4>3
    <3>2. CASE i # Depth - 1
      <4>1. i + 1 \in 1..(Depth - 1)
        BY <2>1, <2>5, <3>2
      <4>2. Above(i)' = saved[i + 1]
        BY <2>4, <3>2, <4>1 DEF Above
      <4> QED BY <2>4, <2>5, <3>0, <4>2
    <3> QED BY <3>1, <3>2
  <2>6. \A id \in Ids : next_id' <= id => indices'[id] = Absent
    BY <2>2, <2>3 DEF LayerInv
  <2>7. UniqueIn(indices') /\ \A i \in 1..(Depth - 1) : UniqueIn(saved'[i].table)
    BY <2>0, <2>1, <2>3, <2>4 DEF Sane
  <2> QED BY <2>4, <2>5, <2>6, <2>7 DEF Sane
<1>7. CASE squash
  <2>0. sound /\ Sane
    BY <1>s, <1>7 DEF Next
  <2>1. /\ Depth \in Nat /\ Depth >= 1 /\ head \in Layers /\ head = stack[Depth]
        /\ UNCHANGED <<indices, next_id>>
    BY <1>7, TopLayerType DEF squash, head
  <2>2. CASE Depth = 1
    <3>1. Depth' = 0
      BY <1>7, <2>2 DEF squash, Depth
    <3> QED BY <2>0, <2>1, <3>1 DEF Sane
  <2>3. CASE Depth # 1
    <3> DEFINE M == Merged(stack[Depth - 1], head)
    <3>1. /\ Depth >= 2 /\ Depth - 1 \in 1..Depth /\ Depth - 1 \in 1..(Depth - 1)
      BY <2>1, <2>3
    <3>2. /\ stack[Depth - 1] \in Layers /\ saved[Depth - 1] \in Snaps /\ saved[Depth] \in Snaps
      BY <2>1, <3>1, SnapTypes
    <3>3. M \in Layers
      BY <2>1, <3>2, MergedType
    <3>4. LayerInv(stack[Depth - 1], saved[Depth], saved[Depth - 1])
      <4>1. Above(Depth - 1) = saved[Depth]
        BY <2>1, <3>1 DEF Above
      <4> QED BY <2>0, <3>1, <4>1 DEF Sane
    <3>5. LayerInv(head, [table |-> indices, cursor |-> next_id], saved[Depth])
      BY <2>0, <2>1, SnapTypes DEF Sane
    <3>6. LayerInv(M, [table |-> indices, cursor |-> next_id], saved[Depth - 1])
      <4>1. \A id \in Ids : saved[Depth].cursor <= id => saved[Depth].table[id] = Absent
        BY <3>5 DEF LayerInv
      <4>2. [table |-> indices, cursor |-> next_id] \in Snaps
        BY SnapTypes
      <4> QED BY <2>1, <3>2, <3>4, <3>5, <4>1, <4>2, MergeLayers
    <3>7. stack' = [Pop(stack) EXCEPT ![Depth - 1] = M] /\ saved' = Pop(saved)
      BY <1>7, <2>3 DEF squash
    <3> HIDE DEF M
    <3>8. /\ Pop(stack) \in Seq(Layers) /\ Len(Pop(stack)) = Depth - 1
          /\ \A i \in 1..(Depth - 1) : Pop(stack)[i] = stack[i]
      BY <2>1, PopType, EmptySeq DEF TypeOK, Depth
    <3>9. /\ Depth' = Depth - 1
          /\ stack'[Depth - 1] = M
          /\ \A i \in 1..(Depth - 1) : i # Depth - 1 => stack'[i] = stack[i]
      BY <2>1, <3>1, <3>3, <3>7, <3>8, ExceptSeq DEF Depth
    <3>10. \A i \in 1..(Depth - 1) : saved'[i] = saved[i]
      <4>1. saved \in Seq(Snaps) /\ saved # <<>> /\ Len(saved) = Depth
        BY <2>1, EmptySeq DEF TypeOK, Depth, Snaps
      <4> QED BY <3>7, <4>1, PopType
    <3>11. ASSUME NEW i \in 1..(Depth - 1) PROVE LayerInv(stack'[i], Above(i)', saved'[i])
      <4>1. CASE i = Depth - 1
        BY <2>1, <3>1, <3>6, <3>9, <3>10, <4>1 DEF Above
      <4>2. CASE i # Depth - 1
        <5>1. i + 1 \in 1..(Depth - 1) /\ i \in 1..Depth /\ i # Depth
          BY <2>1, <3>11, <4>2
        <5>2. Above(i)' = saved[i + 1] /\ Above(i) = saved[i + 1]
          BY <3>9, <3>10, <4>2, <5>1 DEF Above
        <5>3. LayerInv(stack[i], saved[i + 1], saved[i])
          BY <2>0, <5>1, <5>2 DEF Sane
        <5> QED BY <3>9, <3>10, <3>11, <4>2, <5>2, <5>3
      <4> QED BY <4>1, <4>2
    <3>12. UniqueIn(indices') /\ \A i \in 1..(Depth - 1) : UniqueIn(saved'[i].table)
      BY <2>0, <2>1, <3>10 DEF Sane
    <3>13. \A id \in Ids : next_id' <= id => indices'[id] = Absent
      BY <2>0, <2>1 DEF Sane
    <3> QED BY <3>9, <3>11, <3>12, <3>13 DEF Sane
  <2> QED BY <2>2, <2>3
<1>8. ASSUME NEW r \in Revisions, commit(r) PROVE Sane'
  <2>0. sound /\ Sane /\ UNCHANGED <<indices, next_id>>
    BY <1>s, <1>8 DEF Next, commit
  <2>1. PICK k \in 0..Depth : stack' = SubSeq(stack, k + 1, Depth) /\ saved' = SubSeq(saved, k + 1, Depth)
    BY <1>8 DEF commit
  <2>2. /\ stack \in Seq(Layers) /\ saved \in Seq(Snaps)
        /\ Depth = Len(stack) /\ Depth = Len(saved) /\ Depth \in Nat /\ k \in Nat
    BY <2>1 DEF TypeOK, Depth, Snaps
  <2>3. Depth' = Depth - k /\ \A i \in 1..(Depth - k) : stack'[i] = stack[i + k]
    <3>1. stack' = SubSeq(stack, k + 1, Len(stack)) /\ k \in 0..Len(stack)
      BY <2>1, <2>2
    <3>2. /\ Len(SubSeq(stack, k + 1, Len(stack))) = Len(stack) - k
          /\ \A i \in 1..(Len(stack) - k) : SubSeq(stack, k + 1, Len(stack))[i] = stack[i + k]
      BY <2>2, <3>1, DropType
    <3> QED BY <2>2, <3>1, <3>2 DEF Depth
  <2>4. \A i \in 1..(Depth - k) : saved'[i] = saved[i + k]
    <3>1. saved' = SubSeq(saved, k + 1, Len(saved)) /\ k \in 0..Len(saved)
      BY <2>1, <2>2
    <3>2. \A i \in 1..(Len(saved) - k) : SubSeq(saved, k + 1, Len(saved))[i] = saved[i + k]
      BY <2>2, <3>1, DropType
    <3> QED BY <2>2, <3>1, <3>2
  <2>5. ASSUME NEW i \in 1..(Depth - k) PROVE LayerInv(stack'[i], Above(i)', saved'[i])
    <3>1. i + k \in 1..Depth /\ (i = Depth - k <=> i + k = Depth)
      BY <2>2, <2>5
    <3>2. Above(i)' = Above(i + k)
      <4>1. CASE i = Depth - k
        BY <2>0, <2>2, <2>3, <2>5, <3>1, <4>1 DEF Above
      <4>2. CASE i # Depth - k
        <5>1. i + 1 \in 1..(Depth - k) /\ (i + 1) + k = (i + k) + 1
          BY <2>2, <2>5, <4>2
        <5> QED BY <2>3, <2>4, <3>1, <4>2, <5>1 DEF Above
      <4> QED BY <4>1, <4>2
    <3> QED BY <2>0, <2>3, <2>4, <2>5, <3>1, <3>2 DEF Sane
  <2>6. ASSUME NEW i \in 1..(Depth - k) PROVE UniqueIn(saved'[i].table)
    <3>1. i + k \in 1..Depth
      BY <2>2, <2>6
    <3> QED BY <2>0, <2>4, <2>6, <3>1 DEF Sane
  <2> QED BY <2>0, <2>3, <2>5, <2>6 DEF Sane
<1>9. ASSUME NEW r \in Revisions, set_revision(r) PROVE Sane'
  <2>0. sound /\ Sane
    BY <1>s, <1>9 DEF Next
  <2> QED BY <1>9, <2>0 DEF set_revision, Sane, Depth, Above
<1>10. ~(\E id \in Ids, v \in Value : modify_throws(id, v)) /\ ~undo_throws
  BY DEF modify_throws, undo_throws, sound
<1> QED BY <1>1, <1>2, <1>3, <1>4, <1>5, <1>6, <1>7, <1>8, <1>9, <1>10 DEF Next

-------------------------------------------------------------------------------
(* The inductive invariant: the reversibility of every layer, with what    *)
(* the containers of a layer say about the tables above and below it.      *)
LEMMA IndInvariant == Spec => [](IndInv /\ RevisionsConsecutive)
<1>1. Init => IndInv /\ RevisionsConsecutive
  <2> SUFFICES ASSUME Init PROVE IndInv /\ RevisionsConsecutive
    OBVIOUS
  <2>1. TypeOK
    BY BoundsAssumption DEF Init, TypeOK, EmptyMap, Map, Revisions
  <2>2. Sane
    BY DEF Init, Sane, EmptyMap, UniqueIn, Fits, Clash, Depth
  <2>3. RevisionsConsecutive
    BY DEF Init, RevisionsConsecutive, Depth
  <2> QED BY <2>1, <2>2, <2>3, IndInvParts
<1>2. IndInv /\ RevisionsConsecutive /\ [Next]_vars => IndInv' /\ RevisionsConsecutive'
  <2> SUFFICES ASSUME IndInv, RevisionsConsecutive, [Next]_vars
               PROVE  IndInv' /\ RevisionsConsecutive'
    OBVIOUS
  <2>1. TypeOK /\ (sound => Sane)
    BY IndInvParts
  <2>2. TypeOK' /\ RevisionsConsecutive'
    BY <2>1, TypeStep
  <2>3. sound' => Sane'
    BY <2>1, SaneStep
  <2>4. IndInv' <=> TypeOK' /\ (sound' => Sane')
    BY DEF IndInv, Sane, KeysStayUnique, sound
  <2> QED BY <2>2, <2>3, <2>4
<1> QED BY <1>1, <1>2, PTL DEF Spec

(* Every layer of the stack, however deep, reverses exactly the writes     *)
(* made since its session was opened, through any sequence of writes,      *)
(* nested sessions, undos, squashes and commits (generic_index of          *)
(* chainbase.hpp).                                                         *)
THEOREM UndoStackReverses == Spec => []LayersReverse
<1>1. IndInv => LayersReverse
  BY DEF IndInv, LayersReverse, LayerInv
<1> QED BY <1>1, IndInvariant, PTL

(* No two rows ever share a unique key, in the table or in any state an    *)
(* undo can return to.                                                     *)
THEOREM UniqueKeysKept == Spec => []KeysStayUnique
<1>1. IndInv => KeysStayUnique
  BY DEF IndInv, KeysStayUnique
<1> QED BY <1>1, IndInvariant, PTL

(* Two adjacent layers of a reversible stack: the rows a session created   *)
(* are unknown to the session below, and no session touches a row that the *)
(* one below has removed.                                                  *)
LEMMA AdjacentLayers ==
  ASSUME NEW L \in Layers, NEW K \in Layers,
         NEW top \in Snaps, NEW mid \in Snaps, NEW low \in Snaps,
         LayerInv(L, top, mid), LayerInv(K, mid, low)
  PROVE  /\ L.new_ids \cap Touched(K) = {}
         /\ \A id \in Touched(L) : K.removed_values[id] = Absent
<1> USE DEF Layers, Snaps, Map
<1>1. \A id \in Ids : K.removed_values[id] # Absent =>
        /\ mid.table[id] = Absent
        /\ ~(mid.cursor <= id)
  <2> SUFFICES ASSUME NEW id \in Ids, K.removed_values[id] # Absent
               PROVE  mid.table[id] = Absent /\ ~(mid.cursor <= id)
    OBVIOUS
  <2>1. mid.table[id] = Absent /\ id \notin K.new_ids /\ K.old_values[id] = Absent
    BY DEF LayerInv
  <2>2. low.table[id] = K.removed_values[id]
    BY <2>1 DEF LayerInv, Reverse
  <2>3. ~(low.cursor <= id) /\ low.cursor <= mid.cursor
    BY <2>2 DEF LayerInv
  <2> QED BY <2>1, <2>3 DEF Ids
<1>2. \A id \in L.new_ids : id \in Ids /\ mid.cursor <= id /\ mid.table[id] = Absent
  BY DEF LayerInv
<1>3. \A id \in Ids : K.old_values[id] # Absent \/ id \in K.new_ids => mid.table[id] # Absent
  BY DEF LayerInv
<1>4. \A id \in Ids : L.old_values[id] # Absent \/ L.removed_values[id] # Absent
        => mid.table[id] # Absent
  BY DEF LayerInv, Reverse
<1> QED BY <1>1, <1>2, <1>3, <1>4 DEF Touched

(* The cells that the table of squash() marks N/A never occur, and neither *)
(* of its asserts fires, however sessions are nested, squashed and         *)
(* committed (chainbase.hpp, squash()).                                    *)
THEOREM SquashCellsExcluded == Spec => []SquashMatrix
<1>1. IndInv => SquashMatrix
  <2> SUFFICES ASSUME IndInv, sound
               PROVE  SquashMatrix
    BY DEF SquashMatrix
  <2>1. TypeOK /\ \A i \in 1..Depth : LayerInv(stack[i], Above(i), saved[i])
    BY DEF IndInv
  <2>2. \A i \in 1..Depth, id \in Ids :
          /\ id \in stack[i].new_ids =>
               stack[i].old_values[id] = Absent /\ stack[i].removed_values[id] = Absent
          /\ stack[i].old_values[id] # Absent => stack[i].removed_values[id] = Absent
    BY <2>1 DEF LayerInv
  <2>3. ASSUME NEW i \in 1..(Depth - 1)
        PROVE  /\ stack[i + 1].new_ids \cap Touched(stack[i]) = {}
               /\ \A id \in Touched(stack[i + 1]) : stack[i].removed_values[id] = Absent
    <3>1. Depth \in Nat /\ i \in 1..Depth /\ i + 1 \in 1..Depth /\ i # Depth
      BY <2>1, SnapTypes
    <3>2. Above(i) = saved[i + 1]
      BY <3>1 DEF Above
    <3>3. Above(i + 1) \in Snaps
      <4>1. CASE i + 1 = Depth
        BY <2>1, <4>1, SnapTypes
      <4>2. CASE i + 1 # Depth
        <5>1. i + 1 + 1 \in 1..Depth
          BY <3>1, <4>2
        <5> QED BY <2>1, <4>2, <5>1, SnapTypes DEF Above
      <4> QED BY <4>1, <4>2
    <3>4. /\ stack[i] \in Layers /\ stack[i + 1] \in Layers
          /\ saved[i] \in Snaps /\ saved[i + 1] \in Snaps
      BY <2>1, <3>1, SnapTypes
    <3>5. LayerInv(stack[i + 1], Above(i + 1), saved[i + 1])
      BY <2>1, <3>1
    <3>6. LayerInv(stack[i], saved[i + 1], saved[i])
      BY <2>1, <3>1, <3>2
    <3> QED BY <3>3, <3>4, <3>5, <3>6, AdjacentLayers
  <2> QED BY <2>2, <2>3 DEF SquashMatrix
<1> QED BY <1>1, IndInvariant, PTL

(* undo() throws half way only when a caller of modify() changed the       *)
(* unique key of a row since the session was opened: creating, removing    *)
(* and merging never block the way back (chainbase.hpp, undo()).  Suppose  *)
(* the old value of row id collides with row j of the table restored so    *)
(* far.  Row j has not kept its old value's place, or both would be rows   *)
(* of the snapshot; so row j is a row of the present table, and row id,    *)
(* which is one too, must have another key now than it had then.           *)
THEOREM UndoThrowsOnlyAfterRekey == Spec => []UndoBlockedOnlyByRekey
<1>1. IndInv => UndoBlockedOnlyByRekey
  <2> SUFFICES ASSUME IndInv, sound, enabled, Unrestorable(head, indices) # {}
               PROVE  \E id \in Ids :
                        LET old == saved[Depth].table[id]
                        IN old # Absent /\ indices[id] # Absent /\ old.key # indices[id].key
    BY DEF UndoBlockedOnlyByRekey
  <2> DEFINE S == saved[Depth].table
  <2>1. TypeOK /\ UniqueIn(indices) /\ (\A i \in 1..Depth : UniqueIn(saved[i].table))
        /\ \A i \in 1..Depth : LayerInv(stack[i], Above(i), saved[i])
    BY DEF IndInv, KeysStayUnique
  <2>2. Depth \in Nat /\ Depth >= 1 /\ head \in Layers /\ Depth \in 1..Depth
    BY <2>1, TopLayerType
  <2>3. LayerInv(head, [table |-> indices, cursor |-> next_id], saved[Depth]) /\ UniqueIn(S)
    BY <2>1, <2>2 DEF head, Above
  <2>4. PICK id \in Ids : /\ head.old_values[id] # Absent
                          /\ ~Fits(RestoredBelow(head, indices, id), id, head.old_values[id])
    BY DEF Unrestorable
  <2>5. PICK j \in Ids \ {id} : Clash(head.old_values[id], RestoredBelow(head, indices, id)[j])
    BY <2>4 DEF Fits
  <2>6. \A k \in Ids : head.old_values[k] # Absent =>
          S[k] = head.old_values[k] /\ indices[k] # Absent
    <3> SUFFICES ASSUME NEW k \in Ids, head.old_values[k] # Absent
                 PROVE  S[k] = head.old_values[k] /\ indices[k] # Absent
      OBVIOUS
    <3>1. /\ indices[k] # Absent /\ head.removed_values[k] = Absent /\ k \notin head.new_ids
          /\ S = Reverse(head, indices)
      BY <2>3 DEF LayerInv
    <3> QED BY <3>1 DEF Reverse
  <2>7. CASE j < id /\ head.old_values[j] # Absent
    <3>1. RestoredBelow(head, indices, id)[j] = head.old_values[j]
      BY <2>5, <2>7 DEF RestoredBelow
    <3>2. Clash(S[id], S[j])
      BY <2>4, <2>5, <2>6, <2>7, <3>1
    <3> QED BY <2>3, <2>5, <3>2 DEF UniqueIn, Fits
  <2>8. CASE ~(j < id /\ head.old_values[j] # Absent)
    <3>1. RestoredBelow(head, indices, id)[j] = indices[j]
      BY <2>5, <2>8 DEF RestoredBelow
    <3>2. Clash(S[id], indices[j]) /\ indices[id] # Absent /\ S[id] # Absent
      BY <2>4, <2>5, <2>6, <3>1
    <3>3. ~Clash(indices[id], indices[j])
      BY <2>1, <2>5 DEF UniqueIn, Fits
    <3>4. S[id].key # indices[id].key
      BY <3>2, <3>3 DEF Clash
    <3> QED BY <3>2, <3>4
  <2> QED BY <2>7, <2>8
<1> QED BY <1>1, IndInvariant, PTL

-------------------------------------------------------------------------------
(* The table with an undo stack of deltas implements the table with a      *)
(* stack of full snapshots, step by step: a write is a write even when it  *)
(* throws half way, undo returns to the newest snapshot, squash and commit *)
(* forget snapshots from the two ends of the stack, and set_revision is    *)
(* invisible (chainbase.hpp, generic_index).                               *)
THEOREM DeltasImplementSnapshots == Spec => ImplementsUndoLog
<1>1. Init => Abs!Init
  BY DEF Init, Abs!Init
<1>2. ASSUME IndInv, TypeOK', [Next]_vars
      PROVE  [Abs!Next]_Abs!vars
  <2> USE DEF Abs!vars
  <2>0. TypeOK /\ (sound => Sane)
    BY <1>2, IndInvParts
  <2>w. ASSUME UNCHANGED saved PROVE Abs!Write
    BY <1>2, <2>w DEF TypeOK, Abs!Write
  <2>1. CASE UNCHANGED vars
    BY <2>1 DEF vars
  <2>2. ASSUME NEW v \in Value, emplace(v) PROVE Abs!Next
    BY <2>2, <2>w DEF emplace, Abs!Next
  <2>3. ASSUME NEW id \in Ids, NEW v \in Value, modify(id, v) \/ modify_throws(id, v)
        PROVE  Abs!Next
    BY <2>3, <2>w DEF modify, modify_throws, Abs!Next
  <2>4. ASSUME NEW id \in Ids, remove(id) PROVE Abs!Next
    BY <2>4, <2>w DEF remove, Abs!Next
  <2>5. CASE start_undo_session
    BY <2>5 DEF start_undo_session, Abs!Open, Abs!Snapshot, Abs!Next
  <2>6. CASE undo
    <3>1. sound /\ Sane /\ Depth \in Nat /\ Depth >= 1 /\ Depth \in 1..Depth
      BY <2>0, <2>6, TopLayerType DEF undo
    <3>2. LayerInv(head, [table |-> indices, cursor |-> next_id], saved[Depth])
      BY <3>1, SnapTypes, <2>0 DEF Sane, head
    <3>3. indices' = saved[Depth].table /\ next_id' = saved[Depth].cursor
      BY <2>6, <3>2 DEF undo, LayerInv
    <3>4. Len(saved) = Depth /\ saved # <<>> /\ saved' = SubSeq(saved, 1, Len(saved) - 1)
      BY <2>0, <2>6, <3>1, EmptySeq DEF undo, Pop, TypeOK, Depth
    <3> QED BY <3>3, <3>4 DEF Abs!Rollback, Abs!Next
  <2>7. CASE undo_throws
    BY <2>7, <2>w DEF undo_throws, Abs!Next
  <2>8. CASE squash
    <3>1. Depth \in Nat /\ Depth >= 1
      BY <2>0, <2>8, TopLayerType DEF squash
    <3>2. saved # <<>> /\ saved' = SubSeq(saved, 1, Len(saved) - 1)
      BY <2>0, <2>8, <3>1, EmptySeq DEF squash, Pop, TypeOK, Depth
    <3> QED BY <2>8, <3>2 DEF squash, Abs!Merge, Abs!Next
  <2>9. ASSUME NEW r \in Revisions, commit(r) PROVE Abs!Next
    <3>1. Depth = Len(saved)
      BY <2>0 DEF TypeOK, Depth
    <3> QED BY <2>9, <3>1 DEF commit, Abs!Forget, Abs!Next
  <2>10. ASSUME NEW r \in Revisions, set_revision(r) PROVE UNCHANGED Abs!vars
    BY <2>10 DEF set_revision
  <2> QED BY <1>2, <2>1, <2>2, <2>3, <2>4, <2>5, <2>6, <2>7, <2>8, <2>9, <2>10 DEF Next
<1>3. IndInv => TypeOK
  BY DEF IndInv
<1> QED BY <1>1, <1>2, <1>3, IndInvariant, PTL DEF Spec, ImplementsUndoLog, Abs!Spec

===============================================================================
