SPECIFICATION Spec
CONSTANTS
  MaxRows = 3
  MaxRevision = 4
  MaxDepth = 3
  Key = {k1, k2}
  Data = {x, y}
  Absent = Absent
  UniqueKey = TRUE
  Rekey = TRUE
SYMMETRY Symmetry
INVARIANTS LayersReverse SquashMatrix RevisionsConsecutive KeysStayUnique UndoBlockedOnlyByRekey
PROPERTY ImplementsUndoLog
CHECK_DEADLOCK FALSE
