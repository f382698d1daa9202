SPECIFICATION Spec
CONSTANTS
  Users = {u1, u2}
  Workers = {w1, w2}
  Branches = {b1}
  Contacts = {"phone"}
  Indexed = {}
  Values = {v1}
  Asks <- MCAsks
  Keep = Keep
  None = None
INVARIANTS OwnersRemain ContactsUnique
PROPERTIES BranchesMoveWhenAsked
SYMMETRY Symmetry
CHECK_DEADLOCK FALSE
