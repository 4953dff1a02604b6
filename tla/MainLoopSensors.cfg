SPECIFICATION Spec

CONSTANTS
  Channels = {1, 2}
  Sensors = {"level", "flow"}
  SlaveOf <- OwnSlaves
  Configs <- TwoSensors
  Wrap = 3
  BusMax = 0
  Late = TRUE
  MaxSamples = 3
  AgeMax = 0
  PollInterval = 1
  SendEvery = 2
  IdleTimeout = 1
  RetryGsm = 3
  RetryIridium = 4
  IridiumOld = FALSE
  IridiumNew = FALSE
  Watchdog = 5
  Unfed = 0
  SendMax = 0
  Modes = {"sleep"}
  Requests = {"denied", "visit", "test", "preview", "config"}
  Resets = TRUE

INVARIANT TypeOK
INVARIANT StoredOnce
INVARIANT EverySampleStored
INVARIANT AverageOfItsWindow
