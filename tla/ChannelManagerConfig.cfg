SPECIFICATION Spec

CONSTANTS
  COUNT = 2
  Chains <- AllChains
  WATCHDOG_TIMEOUT = 0
  RECOVERY_INTERVAL = 0
  Wrap = 2
  MaxGap = 1
  Reconfigurable = TRUE

INVARIANT TypeOK
INVARIANT DeadAfterThree
INVARIANT PriorityRespected
