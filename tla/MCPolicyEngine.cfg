\* A four-hour day with two ticks an hour: every quiet window of such a day,
\* every gate just below and just at its threshold.
SPECIFICATION Spec
CONSTANTS
  TicksPerHour = 2
  HoursPerDay = 4
  Confidences = {69, 70}
  Amounts = {2500, 2501}
  Touches = {2, 3}
  Batches = {199, 200}
  Settings <- EverySwitchAndWindow
INVARIANTS
  ContactIffPermitted
  RetryAtFirstAllowedMoment
CHECK_DEADLOCK FALSE
