SPECIFICATION HexSpec
CONSTANTS
  Size = 2
  Character <- MCCharacter
  Width = 2
  OrderWidth = 1
  PadWidth = 1
  VersionWidth = 1
  HeightsStored <- MCHeights
  OrdersStored <- MCOrders
INVARIANTS ParsesExactly OddCharacterDropped KeysInBlockOrder ScansAreExact
CHECK_DEADLOCK FALSE
