SPECIFICATION ASpec
CONSTANTS
  EncoderType = "MultiAsm"
  Threshold = 4
  WarmUp = 3
  Unit <- UnitDef
  FlushBits = 5
  ByteBits = 2
  StreamByte = 4
  MaxBits = 4
  MaxBlocks = 2
  LenWord = 3
INVARIANTS TypeOK RegisterDrained DecoderFollows MirrorRange ReadsWhatWasSent MultiUnpacks UnpackerStaysInside
