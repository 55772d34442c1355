SPECIFICATION Spec
CONSTANTS
  MaxRows <- Table
  Evicted <- OneRow
  Batch <- TwoRows
  MaxMessages <- Messages
  MaxReplays <- TwoReplays
  LoopFound <- Either
INVARIANTS Capacity Conservation OldestFirst
