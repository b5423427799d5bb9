SPECIFICATION StreamsSpec
CONSTANTS
  Beats = {b1, b2}
  Depth = 3
  PowerUp = powerup
  Unwritten = unwritten
  SF = 10
  NF = 5
  BlockRam = TRUE
  Frames = 2
  MaxClears = 1
  Words = 64
  Pad = pad
  NoPixel = nopixel
  Geometries <- PaddedBeyond
INVARIANT WindowsInOrder
