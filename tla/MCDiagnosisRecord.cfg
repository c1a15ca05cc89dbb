SPECIFICATION DiagnosisSpec
CONSTANTS
  TicksPerHour = 1
  HoursPerDay = 24
  NoOrder = NoOrder
  NoPayer = NoPayer
  NoEntity = NoEntity
  TouchWindow = 168
  Events <- LongTailOrders
  Times = {12}
  Settings <- DaySettings
  Workers = {w1}
  Free = Free
  MaxFaults = 1
  Passes = {d1}
  Answers <- ModelAnswerKinds
  PassLimit = 2
PROPERTY
  EveryCallRecorded
