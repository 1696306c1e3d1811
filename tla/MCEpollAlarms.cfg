SPECIFICATION FairSpec
CONSTANTS
  Alarms = {a1, a2, r1, r2}
  Repeating = {r1, r2}
  MaxTime = 5
  Millisecond = 2
  Timeout = Forever
  Forever = Forever
  Granularities = {0, 2}
  MinDelta = 1
INVARIANTS
  AlarmsAgree
PROPERTIES
  AlarmsAreOnTime
  DueAlarmsGoOff
CHECK_DEADLOCK FALSE
