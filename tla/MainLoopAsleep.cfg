SPECIFICATION FairSpec

CONSTANTS
  Channels = {1}
  Sensors = {"level"}
  SlaveOf <- OwnSlaves
  Configs <- OneSensor
  Wrap = 9
  BusMax = 0
  Late = FALSE
  MaxSamples = 0
  AgeMax = 8
  PollInterval = 2
  SendEvery = 2
  IdleTimeout = 1
  RetryGsm = 2
  RetryIridium = 2
  IridiumOld = FALSE
  IridiumNew = TRUE
  Watchdog = 1
  Unfed = 0
  SendMax = 1
  Modes = {"sleep"}
  Requests = {}
  Resets = FALSE

PROPERTY SleeperSends
