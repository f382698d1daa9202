SPECIFICATION LimitSpec
CONSTANTS
  Servers = {s1}
  Requests = {q1, q2, q3}
  Window = 2
  Timeout = 2
  Most = 2
  Redis = Redis
INVARIANTS SpanBounded
PROPERTIES BlockedIsLetIn
CHECK_DEADLOCK FALSE
