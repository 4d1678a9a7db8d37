SPECIFICATION Spec
CONSTANTS
  a = a b = b c = c d = d known = known
  Block <- MCBlocks
  Prev <- MCPrev
  Known = known
  None = none
  FileCapacity = 2
  MaxSyncs = 2
INVARIANTS FeedsWholeChain TraceFinds
