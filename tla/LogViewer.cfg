SPECIFICATION FairSpec

CONSTANTS
  MAX_LINES = 3
  MaxTotal = 4
  BATCH = 2
  PollCount = 2
  ReplyMin = 1
  Connections = {1, 2}
  Faults <- AllFaults

CONSTRAINT OneOddEvent
CONSTRAINT OneRawLine

INVARIANT TypeOK
INVARIANT ShownInOrder
PROPERTY KeepsTail
PROPERTY LinesAppear
