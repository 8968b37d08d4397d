SPECIFICATION Spec
CONSTANTS
  s1 = s1  s2 = s2  p1 = p1  p2 = p2  e1 = e1  x1 = x1  none = none  noEvent = noEvent  kept = kept
  r1 = r1  r2 = r2  r3 = r3  r4 = r4
  Schedule = {s1}
  Limited = {s1}
  Performer = {p1, p2}
  Entity = {e1}
  NoEntity = none
  External = {x1}
  NoExternal = noEvent
  MaxTime = 5
  DayOf <- Days
  MaxId = 2
  Request = {r1, r2, r3, r4}
  MaxActive = 2
  Bodies <- Visits
  Changes <- Moves
  Kept = kept
  ExtEvents <- Synced
  ScheduleOf <- Home
  Replacements <- Swap
SYMMETRY Calls
INVARIANTS TypeOK NoDoubleBooking SingleDayLimit ExtOnce
PROPERTIES NoLostUpdate ReplaceKeepsAll
CHECK_DEADLOCK FALSE
