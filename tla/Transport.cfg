SPECIFICATION LiveSpec
CONSTANTS
  None = None
  Stale = 1
  Healthy = 2
  InternalErrors = 2
  FirstDelay = 5
  LastDelay = 15
  Doublings = 2
INVARIANTS
  TypeOK
  StaleRadioWasAssociated
  InterruptionStaysInItsRun
  HealthIsProven
PROPERTIES
  HasteIsEarned
  StuckQueueReboots
