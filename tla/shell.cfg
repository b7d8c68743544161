SPECIFICATION MCSpec
CONSTANTS
  Pressable <- MCPressable
  QueueCap = 3
  MaxPresses = 9
INVARIANTS InStep AsTyped NamesUnique ListedIsFound CryptBufFits  
CHECK_DEADLOCK FALSE
