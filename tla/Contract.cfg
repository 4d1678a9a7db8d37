SPECIFICATION Spec
CONSTANTS
  Seed = {s, t}
  Trees <- MCTrees
  Address <- MCAddress
  Zero = "zero"
  Depth = 2
  MaxKept = 5
  Destination <- MCDestination
SYMMETRY MCSymmetry
INVARIANTS DecidedAsSigned SignedCanBeDecided
