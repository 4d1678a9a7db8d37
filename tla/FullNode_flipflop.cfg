SPECIFICATION Spec
CONSTANTS
  a = a b = b c = c d = d e = e f = f g = g q = q cp = cp zero = zero
  Block <- FlipFlopBlocks
  Prev <- FlipFlopPrev
  BtcHeight <- FlipFlopHeight
  Checkpoint = cp
  CheckpointHeight = 1
  Empty = zero
  BatchCapacity = 2
  Tips <- FlipFlopTips
  TipMayRegress = FALSE
  DirectPath = FALSE
  DirectDelta = 1
  UintSize = 16
  MaxFaults = 0
INVARIANT ReorgTargetOnChain
