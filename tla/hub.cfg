SPECIFICATION MCSpec
CONSTANTS
  ByteBits = 3
  Magic0 = 6
  Magic1 = 2
  MaxNodes = 3
  MaxPayload = 4
  Conns = {1, 2, 3}
  NoConn = 0
  MaxPeers = 2
  BufCap = 12
  Items <- MCItems
  MaxItems = 4
  Chunks = {1, 3, 5, 64}
INVARIANTS TableIsLatest TableSound NeverFull FramesInOrder BackInStep
PROPERTY EveryFrameTaken
CHECK_DEADLOCK FALSE
