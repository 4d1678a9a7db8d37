SPECIFICATION FairSpec
CONSTANTS
  a = a b = b c = c d = d e = e f = f g = g q = q cp = cp zero = zero
  Block <- ForkedBlocks
  Prev <- ForkedPrev
  BtcHeight <- ForkedHeight
  Checkpoint = cp
  CheckpointHeight = 1
  Empty = zero
  BatchCapacity = 2
  Tips <- ForkedTips
  TipMayRegress = FALSE
  DirectPath = TRUE
  DirectDelta = 1
  UintSize = 16
  MaxFaults = 2
PROPERTIES Converges
