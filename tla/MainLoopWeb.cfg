SPECIFICATION FairSpec

CONSTANTS
  Channels = {1}
  Sensors = {"level"}
  SlaveOf <- OwnSlaves
  Configs <- OneSensor
  Wrap = 9
  BusMax = 0
  Late = FALSE
  MaxSamples = 0
  AgeMax = 8
  PollInterval = 2
  SendEvery = 1
  IdleTimeout = 1
  RetryGsm = 0
  RetryIridium = 0
  IridiumOld = FALSE
  IridiumNew = TRUE
  Watchdog = 3
  Unfed = 1
  SendMax = 1
  Modes = {"debug", "sleep"}
  Requests = {"denied", "test"}
  Resets = FALSE

INVARIANT OnTime
INVARIANT IdleEnds
PROPERTY QuietResumes
PROPERTY TestEnds
