SPECIFICATION MCSpec
CONSTANTS
  ByteBits = 3
  Magic0 = 6
  Magic1 = 2
  MaxNodes = 3
  MaxPayload = 5
  MsgSize = 4
  MaxArrive = 3
  MaxFaults = 1
  Arriving <- MCArriving
  TypedIds <- MCIds
  TypedWords <- MCWords
INVARIANTS RxFits UndisturbedIsExact ReceiverInStep SentIsReadable
CHECK_DEADLOCK FALSE
