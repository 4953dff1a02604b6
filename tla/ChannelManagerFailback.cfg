SPECIFICATION FairSpec

CONSTANTS
  COUNT = 2
  Chains <- FixedChain
  WATCHDOG_TIMEOUT = 1
  RECOVERY_INTERVAL = 1
  Wrap = 4
  MaxGap = 2
  Reconfigurable = FALSE

PROPERTY AliveIsFresh
PROPERTY Failback
