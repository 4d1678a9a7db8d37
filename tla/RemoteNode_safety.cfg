SPECIFICATION FairSpec
CONSTANTS
  a = a b = b c = c d = d t = t u = u n = n m = m o = o cp = cp zero = zero
  Block <- MCBlocks
  Prev <- MCPrev
  BtcHeight <- MCHeight
  Checkpoint = cp
  CheckpointHeight = 1
  Empty = zero
  BatchCapacity = 2
  Pushed <- MCPushed
  MaxHeight = 5
  MaxBlocks = 4
  MaxCrashes = 2
INVARIANTS TypeOK DatabaseMirrorsLib PanicsStoreNothing FailsOnlyIfMisplaced
PROPERTIES StoredOnParent RemovesOnlyAfterHeight HandlersReturn
