SPECIFICATION Spec
CONSTANTS
  Songs <- MCSongs
  Patches <- MCPatches
  One = 4
  TickDivider = 2
  TicksPerRow = 4
  OffTick = 3
  DelaySize = 6
  BufferSizes <- MCBufferSizes
INVARIANTS SoundsAsWritten EveryNotePeaks EchoesInTime
