SPECIFICATION FairSpec
CONSTANTS
  Cooldown = 1
  FailureThreshold = 1
  BaseDelay = 1
  MaxDelay = 2
  MaxTime = 2
  Entries = {1}
  Dispatchers = {d1}
  MaxAttempts = 2
  Limit = 1
  Free = Free
PROPERTY NoEntryRetriesForever
