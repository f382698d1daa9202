SPECIFICATION Spec
CONSTANTS
  Users = {u1, u2}
  Students = {s1}
  Branches = {b1, b2}
  Groups = {g1}
  Owner = Owner
  None = None
INVARIANTS  ListedCanBeGraded
CONSTRAINT Apart
SYMMETRY Symmetry
CHECK_DEADLOCK FALSE
