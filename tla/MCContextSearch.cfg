SPECIFICATION Spec
CONSTANTS
  ModelCount = 3
  ByteMax = 3
  LengthByte = 2
  Weights = {1, 2, 3}
  SeedWeights <- SeedWeightsDef
  Sizes <- SizesDef
  MaxBlocks = 2
  Multi = TRUE
INVARIANTS Encodable HeaderRoundTrip StreamParses AsmStreamParses
