SPECIFICATION ApplySpec
CONSTANTS
  People = {p1}
  Updates = {h1, h2}
  MaxRequests = 2
  MaxMessages = 1
  Absent = Absent
INVARIANTS OldestPendingIsOnly PendingIsKnown EnrolledIsHandled
SYMMETRY Symmetry
CHECK_DEADLOCK FALSE
