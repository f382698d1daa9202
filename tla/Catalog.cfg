SPECIFICATION Spec
CONSTANTS
  Courses = {c1}
  Groups = {g1}
  Rooms = {r1}
  Lessons = {l1}
  Marks = {a1}
  Bills = {b1}
  Users = {t1}
  Workers = {w1, w2}
  None = None
INVARIANTS RefsLiveUnlessRaced TeachersTeach
CONSTRAINT PaymentsAlone
SYMMETRY Symmetry
CHECK_DEADLOCK FALSE
