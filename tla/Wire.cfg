SPECIFICATION Spec
CONSTANTS
  PCK_DATA_SIZE = 264
  Contents <- MCContents
  Numbers <- MCNumbers
INVARIANTS
  TypeOK
  Inv
  DetectsDamage
  UndamagedIsAccepted
  OnlyBit8Overruns
PROPERTIES
  FeedsSegments
  ImplementsReliableTransfer
CHECK_DEADLOCK FALSE
