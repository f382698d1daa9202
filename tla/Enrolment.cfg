SPECIFICATION Spec
CONSTANTS
  Students = {s1}
  Groups = {g1, g2}
  Lessons = {l1}
  Workers = {w1, w2}
  Keep = Keep
  None = None
INVARIANTS EnrolledOnce LessonsOfTheEnrolled ActiveStatusMeansActive
 
CONSTRAINT WorkWithOneGroup
SYMMETRY Symmetry
CHECK_DEADLOCK FALSE
