SPECIFICATION FairSpec

CONSTANTS
  Channels = 2
  LineMax = 1
  ChunkMax = 3
  FileMax = 100
  MaxMeas = 1
  MaxSize = 2
  Faults <- LiveFaults

INVARIANT SequentialDrain
PROPERTY EveryMeasurementDelivered
