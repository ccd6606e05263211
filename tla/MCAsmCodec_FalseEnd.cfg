SPECIFICATION ASpec
CONSTANTS
  EncoderType = "SingleAsm"
  Threshold = 4
  WarmUp = 3
  Unit <- UnitDef
  FlushBits = 5
  ByteBits = 2
  StreamByte = 4
  MaxBits = 6
  LenWord = 4
  MaxBlocks = 2
INVARIANT NoFalseEnd
