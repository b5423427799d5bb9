CONSTANTS
  Nodes <- SkewedDesign
  Models = {m0, m1}
  Compiled = m0
  Data = {m0, m1}
  Image <- FlatImages
  Versions = 2
  InFlight = 1
  Gap <- Lag
SPECIFICATION Spec
INVARIANTS OneModel CrcVouches
PROPERTY ActivatedAsVerified
