SPECIFICATION FairSpec
CONSTANTS
  MaxRows <- Table
  Evicted <- OneRow
  Batch <- TwoRows
  MaxMessages <- Messages
  MaxReplays <- TwoReplays
  LoopFound <- NoLoop
PROPERTY Replayed
