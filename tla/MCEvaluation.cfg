\* The system may stop: when the evaluations of the instance are over.
SPECIFICATION EvaluationFairSpec
CONSTANTS
  TicksPerHour = 1
  HoursPerDay = 24
  NoOrder = NoOrder
  NoPayer = NoPayer
  NoEntity = NoEntity
  TouchWindow = 168
  Events <- BatchEvents
  Times = {12}
  Settings <- DaySettings
  Failures <- Batch
  TreatmentShare = 70
  OccurredAt <- Dated
  Now = 20
  MaxRounds = 2
  MaxAttempts = 2
  MaxEvaluations = 2
  MaxFaults = 1
INVARIANTS
  TreatmentChasedOnce
  MetricsNeverOverstate
PROPERTIES
  EvaluationEnds
CHECK_DEADLOCK FALSE
