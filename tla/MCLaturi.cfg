SPECIFICATION Spec
CONSTANTS
  Programs <- MCPrograms
  MaxCount = 3
  Segment = 256
  MinFile = 80
  Field = 2
  ItemSize = 6
  AddrOffset = 1
  CommandSize = 4
  Packed <- MCPacked
  ByteValues = 32
  CallByte = 7
  MaxIndex = 2
  MaxTranslations = 3
INVARIANTS BoundRight ShortestNames SectionsApart BlocksAddUp ReferencesRight CodeRestored
PROPERTY StartsOrRefused
