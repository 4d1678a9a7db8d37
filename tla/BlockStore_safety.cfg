SPECIFICATION FairSpec
CONSTANTS
  a = a b = b c = c d = d e = e f = f p = p q = q r = r
  cp = cp zero = zero garbage = garbage
  Block <- MCBlocks
  Prev <- MCPrev
  Commits <- MCCommits
  Checkpoint = cp
  CheckpointHeight = 1
  Empty = zero
  Garbage = garbage
  MaxDamage = 1
  MaxCrashes = 2
INVARIANTS TypeOK ReadersSeeWholeBlocks StoreMirrorsLib ListsAgree LoadsOnlyABranch
PROPERTIES RecoveryCutsToLib ImplementsLedger LoadEnds
