SPECIFICATION FairSpec
CONSTANTS
  p1 = p1
  p2 = p2
  f1 = f1
  f2 = f2
  Payments = {p1, p2}
  Servers = {s1, s2}
  Phones = {f1, f2}
  Unusable = Unusable
  Contacts <- MCContacts
  MaxPerDay = 1
  MaxDay = 1
  DryRun = FALSE
  SmsEnabled = TRUE
  Faults = {"provider", "database", "crash"}
  None = None
INVARIANTS OvershootBounded LimitInv FlagMatchesPass
PROPERTIES BatchGoesOn PassesEnd
CHECK_DEADLOCK FALSE
