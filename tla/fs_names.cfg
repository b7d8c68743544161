SPECIFICATION Spec
CONSTANTS
  NBlocks = 6
  DataBase = 1
  NInodes = 5
  Reserved = 2
  EPB = 3
  DBlocks = 2
  name1 = name1
  name2 = name2
  text1 = text1
  text2 = text2
  Names = {name1, name2}
  Typed <- NamesTyped
  Texts = {text1, text2}
  Sizes = {0, 2, 6, 7}
  MaxPath = 3
  DirWrites = FALSE
CHECK_DEADLOCK FALSE
SYMMETRY Symm
INVARIANTS SpaceAccounted   WriteAllOrNothing RemovalTakesOneName
