SPECIFICATION Spec
CONSTANTS
  NBlocks = 5
  DataBase = 1
  NInodes = 4
  Reserved = 2
  EPB = 3
  DBlocks = 2
  name1 = name1
  name2 = name2
  text1 = text1
  text2 = text2
  Names = {name1}
  Typed <- AnyTyped
  Texts = {text1}
  Sizes = {4}
  MaxPath = 3
  DirWrites = FALSE
CHECK_DEADLOCK FALSE
INVARIANT SpaceAccounted
