SPECIFICATION Spec
CONSTANTS
  Courses = {c1}
  Groups = {g1}
  Rooms = {r1}
  Lessons = {l1}
  Marks = {a1}
  Bills = {b1}
  Users = {t1}
  Workers = {w1}
  None = None
PROPERTIES PaidCoursesStay
CHECK_DEADLOCK FALSE
