SPECIFICATION Spec
CONSTANTS
  s1 = s1  s2 = s2  p1 = p1  p2 = p2  e1 = e1  x1 = x1  none = none  noEvent = noEvent  kept = kept
  r1 = r1  r2 = r2  r3 = r3  r4 = r4
  Schedule = {s1}
  Limited = {s1}
  Performer = {p1, p2}
  Entity = {e1}
  NoEntity = none
  External = {x1}
  NoExternal = noEvent
  MaxTime = 5
  DayOf <- Days
  MaxId = 2
  Request = {r1, r2}
  MaxActive = 1
  Bodies <- Plain
  Changes <- Nothing
  Kept = kept
  ExtEvents <- Nothing
  ScheduleOf <- Home
  Replacements <- Nothing
SYMMETRY Calls
INVARIANTS OneEntityPerDay
CHECK_DEADLOCK FALSE
