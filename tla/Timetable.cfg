SPECIFICATION Spec
CONSTANTS
  r1 = r1
  r2 = r2
  t1 = t1
  t2 = t2
  g1 = g1
  s1 = s1
  Lessons = {l1, l2}
  Rooms = {r1, r2}
  Teachers = {t1, t2}
  Groups = {g1}
  Students = {s1}
  Asks <- MCAsks
  Workers = {w1, w2}
  Slots = 4
  Hours = {0, 1, 2, 3}
  Week = 1
  Offset = 1
  MaxDay = 2
  None = None
INVARIANTS ClashOnlyByRace LessonsInOneDay
SYMMETRY Symmetry
CHECK_DEADLOCK FALSE
