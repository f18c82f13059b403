CONSTANTS
  Pages = {1, 2}
  Callers = {c1, c2}
  AskedPages = {1}
  Movable = {1}
  MaxDay = 1
  BatchSize = 1
  MaxReruns = 1
  NotSelected = NotSelected
SPECIFICATION FairSpec
INVARIANTS TypeOK RequestsAreCounted ViewsAccumulate DayCountedPerFailure
PROPERTIES WaitingIsOffered
CHECK_DEADLOCK FALSE
