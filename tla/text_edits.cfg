SPECIFICATION Spec
CONSTANTS
  MaxElements = 4
  Texts <- MCTexts
  NewTexts <- MCNewTexts
INVARIANTS TypeOK EditKeepsCharacters EditIsMinimal ClientGetsNewText ConversionsAgree
