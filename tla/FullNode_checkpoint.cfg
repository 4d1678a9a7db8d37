SPECIFICATION Spec
CONSTANTS
  a = a b = b c = c d = d e = e f = f g = g q = q cp = cp zero = zero
  Block <- CheckpointForkBlocks
  Prev <- CheckpointForkPrev
  BtcHeight <- CheckpointForkHeight
  Checkpoint = cp
  CheckpointHeight = 1
  Empty = zero
  BatchCapacity = 2
  Tips <- CheckpointForkTips
  TipMayRegress = FALSE
  DirectPath = FALSE
  DirectDelta = 1
  UintSize = 16
  MaxFaults = 0
INVARIANT RollbackComplete
