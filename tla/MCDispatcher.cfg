SPECIFICATION FairSpec
CONSTANTS
  Cooldown = 2
  FailureThreshold = 1
  BaseDelay = 1
  MaxDelay = 2
  MaxTime = 3
  Entries = {1, 2}
  Dispatchers = {d1, d2}
  MaxAttempts = 2
  Limit = 2
  Free = Free
INVARIANTS
  TypeOK
  LedgerMatchesOutbox
  OneTrialAfterOpen
  BreakerSettled
PROPERTIES
  ImplementsDelivery
  EveryEntrySettles
