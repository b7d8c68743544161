SPECIFICATION Spec
CONSTANTS
  NPages = 7
  PageSize = 16
  CountMod = 8
  NCaches = 2
  MinObj = 4
  Align = 2
  SlabHdr = 3
  CtlSize = 1
  CacheSize = 4
  HdrSize = 2
  Sizes = {0, 2, 6, 7, 20}
INVARIANTS SlabsExact PagesExact
PROPERTIES GrowsOnlyWhenFull ImplementsMemBlocks
