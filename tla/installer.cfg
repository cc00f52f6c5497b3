CONSTANT
  MaxRelease = 3

SPECIFICATION Spec

INVARIANT
  TypeOK

PROPERTIES
  GoodBinaryKept
  NeverOverwritten
  ReturnsFile
