SPECIFICATION Spec
CONSTANTS
  ByteBits = 8
  LenBytes = 2
  LinkerBlocks <- MCLinkerBlocks
  Image <- MCImage
  Items = 3
  Codings <- MCCodings
  Ways <- MCWays
  MaxRaw = 45
  HdrLen = 29
  Room <- MCRoom
INVARIANTS BufferHolds Shortest NoLongerThanPlanned BitsInOrder ReaderGetsData
