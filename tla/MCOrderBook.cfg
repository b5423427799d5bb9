SPECIFICATION MCSpec
CONSTANTS
  Levels = 2
  MaxShares = 3
  MaxPrice = 3
  Symbols = {"BRVO", "CHRL"}
  SlotCount = 2
  Tags = {0, 1}
  FlowCap = 1
  FlowHalf = 16
  Events <- AllEvents
  PowerUp <- SomePowerUp
INVARIANTS TypeOK SidesSound BackedByOrders ExactUntilLost FlowFits
PROPERTY ImplementsReference
