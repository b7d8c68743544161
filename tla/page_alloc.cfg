SPECIFICATION Spec
CONSTANTS
  NPages = 7
  PageSize = 2
  CountMod = 8
  MaxSize = 14
INVARIANTS MemoryExact  ScanIsFirstFit
PROPERTY ImplementsMemBlocks
