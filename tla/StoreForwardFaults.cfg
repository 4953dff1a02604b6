SPECIFICATION Spec

CONSTANTS
  Channels = 1
  LineMax = 1
  ChunkMax = 3
  FileMax = 4
  MaxMeas = 3
  MaxSize = 1
  Faults <- AllFaults

CONSTRAINT OneDamage
CONSTRAINT OneOtherLine

INVARIANT TypeOK
INVARIANT NoSilentLoss
INVARIANT DeliveredInOrder
INVARIANT ConsumedForGood
PROPERTY ImplementsLog
