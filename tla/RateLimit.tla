------------------------------- MODULE RateLimit -------------------------------
(***************************************************************************)
(* PublicRateLimitGuard: fixed windows over the public endpoints, counted  *)
(* in a map of each process or in Redis.  Keys (a path and a client) do    *)
(* not concern each other: the module is about one.  Time is counted in    *)
(* ticks, and buckets keep what is left of their window.                   *)
(***************************************************************************)
EXTENDS Integers, FiniteSets

CONSTANTS
  Servers,   \* processes
  Requests,  \* requests that wait for Redis at the same time
  Window,    \* windowMs
  Timeout,   \* timeoutMs of TcpRedisRateLimitClient
  Most,      \* publicAuthMax
  Redis      \* the store all servers share

ASSUME RateLimitAssumption ==
  /\ Window \in Nat \ {0} /\ Timeout \in Nat \ {0} /\ Most \in Nat \ {0}
  /\ Redis \notin Servers

Stores == Servers \cup {Redis}
Ages == 0..(Window - 1)

VARIABLES
  provider,  \* RATE_LIMIT_PROVIDER
  bucket,    \* of each store
  waiting,   \* requests that wait for Redis
  admitted   \* requests each store has let through, for the length of a window

limitVars == <<provider, bucket, waiting, admitted>>

Empty == [count |-> 0, left |-> 0]
Unused == [step |-> "idle"]
Sent(age) == [step |-> "sent", age |-> age]

\* The count a request got, and how long ago the window opened it is in.
Counted(age, n, opened) ==
  [step |-> "counted", age |-> age, count |-> n, opened |-> opened]

\* A command whose client has given up; Redis may still run it.
Ghost == [step |-> "ghost"]

\* RateLimitModule.  That Redis answers a ping is asked once, at the start.
LimitInit ==
  /\ provider \in {"memory", "redis"}
  /\ bucket = [s \in Stores |-> Empty]
  /\ waiting = [r \in Requests |-> Unused]
  /\ admitted = [s \in Stores |-> {}]

\* Above Most + 1 all counts are refused alike.
Plus1(n) == IF n > Most THEN n ELSE n + 1

\* The map keeps a bucket whose window is over until the next increment.
MemoryIncrement(b) ==
  IF b.left = 0 THEN [count |-> 1, left |-> Window]
  ELSE [b EXCEPT !.count = Plus1(@)]

\* Mutant: every request sets the expiry.
RedisIncrementRenewing(b) ==
  [count |-> Plus1(b.count), left |-> Window]

\* The script INCRs a key, from 0 if there is none, and gives a new one its
\* expiry.
RedisIncrement(b) ==
  LET n == Plus1(b.count) IN
  [count |-> n, left |-> IF n = 1 THEN Window ELSE b.left]

\* Mutant: off by one.
AdmitsOneMore(n) == n <= Most + 1

Admits(n) == n <= Most

\* 'place' is among those let through in one tick.
LetThrough(s, n, opened) ==
  admitted' = [admitted EXCEPT ![s] = @ \cup
    {[age |-> 0, place |-> Cardinality({t \in @ : t.age = 0}), count |-> n, opened |-> opened]}]

Older(t) == [t EXCEPT !.age = @ + 1, !.opened = @ + 1]

-----------------------------------------------------------------------------

\* A request under the memory store: one synchronous step.
Guard(s) ==
  /\ provider = "memory"
  /\ bucket' = [bucket EXCEPT ![s] = MemoryIncrement(@)]
  /\ IF Admits(bucket'[s].count)
     THEN LetThrough(s, bucket'[s].count, Window - bucket'[s].left)
     ELSE UNCHANGED admitted
  /\ UNCHANGED <<provider, waiting>>

\* The map goes with its process; the admissions of the new process are
\* counted from there.
ServerRestarts(s) ==
  /\ provider = "memory"
  /\ bucket' = [bucket EXCEPT ![s] = Empty]
  /\ admitted' = [admitted EXCEPT ![s] = {}]
  /\ UNCHANGED <<provider, waiting>>

\* Under Redis: the command is written, ...
Ask(r) ==
  /\ provider = "redis"
  /\ waiting[r] = Unused
  /\ waiting' = [waiting EXCEPT ![r] = Sent(0)]
  /\ UNCHANGED <<provider, bucket, admitted>>

\* ... run, in one piece, ...
Run(r) ==
  /\ waiting[r].step \in {"sent", "ghost"}
  /\ bucket' = [bucket EXCEPT ![Redis] = RedisIncrement(@)]
  /\ waiting' = [waiting EXCEPT ![r] =
       IF @ = Ghost THEN Unused
       ELSE Counted(@.age, bucket'[Redis].count, Window - bucket'[Redis].left)]
  /\ UNCHANGED <<provider, admitted>>

\* ... and its reply comes: the request goes through, or is answered 429.
Reply(r) ==
  /\ waiting[r].step = "counted"
  /\ IF Admits(waiting[r].count) THEN LetThrough(Redis, waiting[r].count, waiting[r].opened)
     ELSE UNCHANGED admitted
  /\ waiting' = [waiting EXCEPT ![r] = Unused]
  /\ UNCHANGED <<provider, bucket>>

\* An error of the socket, or the timer: 503, counted or not.
GivesUp(r) ==
  /\ waiting[r].step \in {"sent", "counted"}
  /\ waiting' = [waiting EXCEPT ![r] = IF @.step = "sent" THEN Ghost ELSE Unused]
  /\ UNCHANGED <<provider, bucket, admitted>>

Lost(r) ==
  /\ waiting[r] = Ghost
  /\ waiting' = [waiting EXCEPT ![r] = Unused]
  /\ UNCHANGED <<provider, bucket, admitted>>

\* An expiry: Redis drops the key, the map does not look.
Later(s) ==
  LET b == bucket[s] IN
  IF b.left = 0 THEN b
  ELSE IF s = Redis /\ b.left = 1 THEN Empty
  ELSE [b EXCEPT !.left = @ - 1]

InTime(r) == waiting[r].step \in {"sent", "counted"} => waiting[r].age < Timeout

Tick ==
  /\ \A r \in Requests : InTime(r)
  /\ bucket' = [s \in Stores |-> Later(s)]
  /\ waiting' = [r \in Requests |->
       CASE waiting[r].step = "sent" -> Sent(waiting[r].age + 1)
         [] waiting[r].step = "counted" -> Older(waiting[r])
         [] OTHER -> waiting[r]]
  /\ admitted' = [s \in Stores |->
       {Older(t) : t \in {u \in admitted[s] : u.age < Window - 1}}]
  /\ UNCHANGED provider

LimitNext ==
  \/ \E s \in Servers : Guard(s) \/ ServerRestarts(s)
  \/ \E r \in Requests : Ask(r) \/ Run(r) \/ Reply(r) \/ GivesUp(r) \/ Lost(r)
  \/ Tick

\* Time passes and timers fire; replies need not come.
LimitSpec ==
  /\ LimitInit /\ [][LimitNext]_limitVars
  /\ WF_limitVars(Tick)
  /\ \A r \in Requests : WF_limitVars(~InTime(r) /\ GivesUp(r))

-----------------------------------------------------------------------------

LimitTypes ==
  /\ provider \in {"memory", "redis"}
  /\ bucket \in [Stores -> [count : 0..(Most + 1), left : 0..Window]]
  /\ waiting \in [Requests -> {Unused, Ghost}
                     \cup [step : {"sent"}, age : 0..Timeout]
                     \cup [step : {"counted"}, age : 0..Timeout, count : 1..(Most + 1),
                            opened : Nat]]
  /\ admitted \in [Stores ->
                     SUBSET [age : Ages, place : Nat, count : 1..Most, opened : Nat]]

\* Windows as long as Window that can begin or end in a span as long, and,
\* under Redis, in the time replies to it may take.
Windows(s) == IF s = Redis THEN 2 + (Timeout + Window - 1) \div Window ELSE 2

\* 'At most publicAuthMax in windowMs' is not what fixed windows give: in a
\* span as long as a window a store lets through nearly twice as many, and
\* Redis, whose replies may be late, as many again for every window that the
\* timeout lasts.  One less, as the first window began with a request, which
\* is too old by then.
SpanBounded == \A s \in Stores : Cardinality(admitted[s]) < Most * Windows(s)

Blocks(s) ==
  LET b == bucket[s] IN b.count >= Most /\ (s = Redis \/ b.left > 0)

\* Nobody is locked out: a client that has used up a window, however often
\* he goes on asking, will find a place again.
BlockedIsLetIn == \A s \in Stores : Blocks(s) ~> ~Blocks(s)
=============================================================================
