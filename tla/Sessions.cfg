SPECIFICATION Spec
CONSTANTS
  Users = {u1}
  Tokens = {t1, t2, t3}
  Workers = {w1, w2}
  Second = 2
  Ttl = 2
  MaxTime = 2
  MaxLogins = 1
  MaxChanges = 1
  None = None
INVARIANTS ReplacedByStored RowOutlivesToken OneLivePerLogin  OldAccessTokensRefused
PROPERTIES BlockedGetNoSession
SYMMETRY Symmetry
CHECK_DEADLOCK FALSE
