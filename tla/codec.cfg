SPECIFICATION Spec
CONSTANTS
  Texts <- MCTexts
  MaxTexts = 2
  MaxThreads = 2
  Pieces = {1, 3, 5, 30}
  MaxPieces = 3
  HighWater = 2
INVARIANTS
  TypeOK
  ShownIsTyped
  OneThreadKeepsOrder
  StreamKeepsMessages
  PagesWriteLikeJava
  CopiesAgree
  NothingIsStuck
  CodecsAgree
CHECK_DEADLOCK FALSE
