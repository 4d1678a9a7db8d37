SPECIFICATION Spec
CONSTANTS
  Blocks <- MCBlocks
  Cuts = {0, 1, 4, 5, 38, 60}
INVARIANTS CommitsInOrder WholeBlocksOnly
