SPECIFICATION FairSpec
CONSTANTS
  Detectors = {d1, d2}
  Categories <- TwoCategories
  Sightings <- TwoSightings
  MinSample = 20
  ConfidenceThreshold = 990
  Alpha = 300
  Posterior <- SurelyAbove
  Free = Free
  MaxPasses = 3
  MaxFaults = 1
INVARIANTS
  DetectorTypeOK
  AuditExplainsBaselines
  LaterSharesLoseNothing
  DeadlockNeedsTornSight
PROPERTIES
  PassesEnd
