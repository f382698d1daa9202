------------------------- MODULE DebtRemindersProofs -------------------------
(***************************************************************************)
(* What holds of DebtReminders for any number of payments, phones and      *)
(* servers and any daily limit.  The bound on the overshoot is inductive   *)
(* once the passes that are committed to a reminder count as well.         *)
(***************************************************************************)
EXTENDS DebtReminders, FiniteSetTheorems, SequenceTheorems, TLAPS

\* Recipients left over are recipients.
LEMMA TailType ==
  ASSUME NEW S, NEW q \in Seq(S), q # <<>>
  PROVE  /\ Tail(q) \in Seq(S) /\ Head(q) \in S
         /\ Len(q) # 1 => Tail(q) # <<>>
<1>1. /\ Head(q) \in S /\ Tail(q) \in Seq(S) /\ Len(Tail(q)) = Len(q) - 1
      /\ Len(q) \in Nat \ {0}
  BY HeadTailProperties, EmptySeq
<1>2. Tail(q) = <<>> => Len(Tail(q)) = 0
  BY EmptySeq
<1> QED
  BY <1>1, <1>2

\* The passes that catch an exception or move on are passes.
LEMMA CaughtType ==
  ASSUME NEW r \in Pass PROVE Caught(r) \in Pass /\ Caught(r).pc = "next"
<1>1. <<>> \in Seq(Phones \cup {Unusable})
  BY EmptySeq
<1> QED
  BY <1>1 DEF Caught, Pass

LEMMA AdvancedType ==
  ASSUME NEW r \in Pass, r.calls # <<>>
  PROVE  /\ Advanced(r) \in Pass
         /\ Advanced(r).pc \in {"next", "count"}
         /\ Advanced(r).at = r.at
         /\ Advanced(r).pc = "count" => Advanced(r).calls # <<>>
<1>1. /\ r.calls \in Seq(Phones \cup {Unusable})
      /\ Tail(r.calls) \in Seq(Phones \cup {Unusable})
      /\ Len(r.calls) # 1 => Tail(r.calls) # <<>>
  BY TailType DEF Pass
<1> QED
  BY <1>1 DEF Advanced, Pass

\* What TypeOK says of the pass of one server.
Placed(r) ==
  /\ r \in Pass
  /\ r.pc \in {"count", "send", "record"} => r.at \in Payments /\ r.calls # <<>>
  /\ r.pc \in {"send", "record"} => Head(r.calls) \in Phones

LEMMA PlacedStep ==
  ASSUME TypeOK, NEW s \in Servers, NEW r, Placed(r),
         run' = [run EXCEPT ![s] = r],
         overdue' \subseteq Payments, day' \in Days,
         fired' \in [Servers -> Nat], running' \in [Servers -> BOOLEAN],
         counted' \in [Payments \X Phones \X Days -> Nat]
  PROVE  TypeOK'
BY DEF TypeOK, Placed

LEMMA RestingPlaced ==
  /\ Placed(Resting)
  /\ Placed([Resting EXCEPT !.pc = "down"])
  /\ \A d \in Days : Placed([Resting EXCEPT !.pc = "find", !.dateKey = d])
<1>1. <<>> \in Seq(Phones \cup {Unusable}) /\ 0 \in Days
  BY EmptySeq, LimitAssumption DEF Days
<1> QED
  BY <1>1 DEF Resting, Placed, Pass, Outcomes

\* A server's steps keep the types.
LEMMA ServerType ==
  ASSUME TypeOK, NEW s \in Servers,
         CronFires(s) \/ Step(s) \/ Crashes(s) \/ Restarts(s)
  PROVE  TypeOK'
<1> DEFINE r == run[s]
<1>0. /\ Placed(r) /\ r \in Pass /\ overdue \subseteq Payments /\ day \in Days
      /\ day + 1 \in Nat /\ fired \in [Servers -> Nat]
      /\ running \in [Servers -> BOOLEAN]
      /\ counted \in [Payments \X Phones \X Days -> Nat]
  BY LimitAssumption DEF TypeOK, Placed, Days
<1>a. ASSUME NEW q, Placed(q), Continues(s, q), counted' = counted
      PROVE  TypeOK'
  BY <1>0, <1>a, PlacedStep DEF Continues
<1>b. ASSUME NEW ok, Returns(s, ok)
      PROVE  TypeOK'
  <2> DEFINE q == [r EXCEPT !.pc = "rest"]
  <2>1. Placed(q)
    BY <1>0 DEF Placed, Pass
  <2>2. run' = [run EXCEPT ![s] = q]
    BY <1>b DEF Returns
  <2>3. running' \in [Servers -> BOOLEAN]
    BY <1>0, <1>b DEF Returns
  <2> QED
    BY <1>0, <1>b, <2>1, <2>2, <2>3, PlacedStep DEF Returns
<1>1. CASE CronFires(s)
  <2>1. fired' \in [Servers -> Nat]
    BY <1>0, <1>1 DEF CronFires
  <2>2. CASE running[s]
    BY <1>0, <1>1, <2>1, <2>2 DEF CronFires, TypeOK
  <2>3. CASE ~running[s]
    <3> DEFINE q == [Resting EXCEPT !.pc = "find", !.dateKey = day]
    <3>1. Placed(q)
      BY <1>0, RestingPlaced
    <3>2. running' \in [Servers -> BOOLEAN]
      BY <1>0, <1>1, <2>3 DEF CronFires
    <3>3. run' = [run EXCEPT ![s] = q]
      BY <1>1, <2>3 DEF CronFires
    <3> HIDE DEF q
    <3> QED
      BY <1>0, <1>1, <2>1, <3>1, <3>2, <3>3, PlacedStep DEF CronFires
  <2> QED
    BY <2>2, <2>3
<1>2. CASE Finds(s)
  <2>1. Placed([r EXCEPT !.pc = "next", !.todo = overdue])
    BY <1>0 DEF Placed, Pass
  <2> QED
    BY <1>2, <1>a, <2>1 DEF Finds
<1>3. CASE FindFails(s) \/ Ends(s)
  BY <1>3, <1>b DEF FindFails, Ends
<1>4. ASSUME NEW p \in Payments, TakesPayment(s, p)
      PROVE  TypeOK'
  <2> DEFINE q == [r EXCEPT !.todo = @ \ {p}, !.at = p, !.calls = Contacts[p]]
  <2>1. q \in Pass /\ q.at \in Payments /\ q.calls = Contacts[p]
    BY <1>0, ContactsAssumption DEF Pass
  <2>2. CASE Contacts[p] = <<>>
    <3> HIDE DEF q
    <3>1. Placed(Caught(q))
      BY <2>1, CaughtType DEF Placed
    <3>2. Continues(s, Caught(q)) /\ counted' = counted
      BY <1>4, <2>2 DEF TakesPayment, q
    <3> QED
      BY <1>a, <3>1, <3>2
  <2>3. CASE Contacts[p] # <<>>
    <3>1. Continues(s, [q EXCEPT !.pc = "count"]) /\ counted' = counted
      BY <1>4, <2>3 DEF TakesPayment
    <3> HIDE DEF q
    <3>2. Placed([q EXCEPT !.pc = "count"])
      BY <2>1, <2>3 DEF Placed, Pass
    <3> QED
      BY <1>a, <3>1, <3>2
  <2> QED
    BY <2>2, <2>3
<1>5. CASE Counts(s)
  <2>1. r.at \in Payments /\ r.calls # <<>>
    BY <1>0, <1>5 DEF Counts, Placed
  <2>2. Head(r.calls) \in Phones \cup {Unusable}
    BY <1>0, <2>1, TailType DEF Pass
  <2>3. CASE Head(r.calls) = Unusable
    BY <1>0, <1>5, <1>a, <2>3, CaughtType DEF Counts, Placed
  <2>4. CASE Head(r.calls) # Unusable /\ BelowLimit(counted[Counter(r)])
    <3>1. Placed([r EXCEPT !.pc = "send"])
      BY <1>0, <2>1, <2>2, <2>4 DEF Placed, Pass
    <3> QED
      BY <1>5, <1>a, <2>4, <3>1 DEF Counts
  <2>5. CASE Head(r.calls) # Unusable /\ ~BelowLimit(counted[Counter(r)])
    <3>1. Placed(Advanced(r))
      BY <1>0, <2>1, AdvancedType DEF Placed
    <3> QED
      BY <1>5, <1>a, <2>5, <3>1 DEF Counts
  <2> QED
    BY <2>3, <2>4, <2>5
<1>6. ASSUME NEW o \in Outcomes, Sends(s, o)
      PROVE  TypeOK'
  <2>1. Placed([r EXCEPT !.pc = "record", !.outcome = o])
    BY <1>0, <1>6 DEF Placed, Pass, Sends
  <2> QED
    BY <1>6, <1>a, <2>1 DEF Sends
<1>7. CASE Records(s)
  <2>1. r.at \in Payments /\ r.calls # <<>> /\ Head(r.calls) \in Phones
    BY <1>0, <1>7 DEF Records, Placed
  <2>2. Placed(Advanced(r))
    BY <1>0, <2>1, AdvancedType DEF Placed
  <2>3. counted' \in [Payments \X Phones \X Days -> Nat]
    <3>1. Counter(r) \in Payments \X Phones \X Days
      BY <1>0, <2>1 DEF Counter, Pass
    <3>2. ASSUME NEW c \in Payments \X Phones \X Days
          PROVE  [counted EXCEPT ![c] = @ + 1] \in [Payments \X Phones \X Days -> Nat]
      BY <1>0
    <3> QED
      BY <1>0, <1>7, <3>1, <3>2 DEF Records
  <2> QED
    BY <1>0, <1>7, <2>2, <2>3, PlacedStep DEF Records, Continues
<1>8. CASE Throws(s)
  BY <1>0, <1>8, <1>a, CaughtType DEF Throws, Placed
<1>9. CASE Crashes(s)
  <2>1. running' \in [Servers -> BOOLEAN]
    BY <1>0, <1>9 DEF Crashes
  <2> QED
    BY <1>0, <1>9, <2>1, RestingPlaced, PlacedStep DEF Crashes
<1>10. CASE Restarts(s)
  BY <1>0, <1>10, RestingPlaced, PlacedStep DEF Restarts
<1> QED
  BY <1>1, <1>2, <1>3, <1>4, <1>5, <1>6, <1>7, <1>8, <1>9, <1>10 DEF Step

\* Whatever fails in a pass, what it holds is well typed where it is used: a
\* phone is normalised before it is counted or sent to.
THEOREM RemindersTyped == Spec => []TypeOK
<1>1. Init => TypeOK
  <2> SUFFICES ASSUME Init PROVE TypeOK
    OBVIOUS
  <2>a. Resting \in Pass
    BY RestingPlaced DEF Placed
  <2>b. Resting.pc = "rest" /\ 0 \in Days
    BY LimitAssumption DEF Resting, Days
  <2>1. Resting \in Pass /\ Resting.pc = "rest" /\ 0 \in Days
    BY <2>a, <2>b
  <2>2. /\ running \in [Servers -> BOOLEAN] /\ fired \in [Servers -> Nat]
        /\ counted \in [Payments \X Phones \X Days -> Nat]
        /\ overdue \subseteq Payments /\ day \in Days
    BY <2>1 DEF Init
  <2> HIDE DEF Resting
  <2> QED
    BY <2>1, <2>2 DEF Init, TypeOK
<1>2. TypeOK /\ [Next]_vars => TypeOK'
  <2> SUFFICES ASSUME TypeOK, [Next]_vars PROVE TypeOK'
    OBVIOUS
  <2>1. CASE UNCHANGED vars
    BY <2>1 DEF vars, TypeOK
  <2>2. ASSUME NEW p \in Payments, Changes(p) PROVE TypeOK'
    BY <2>2 DEF Changes, TypeOK
  <2>3. CASE Midnight
    <3>1. day' \in Days
      BY <2>3, LimitAssumption DEF Midnight, TypeOK, Days
    <3> QED
      BY <2>3, <3>1 DEF Midnight, TypeOK
  <2> QED
    BY <2>1, <2>2, <2>3, ServerType DEF Next
<1> QED
  BY <1>1, <1>2, PTL DEF Spec

-----------------------------------------------------------------------------
(* The overshoot *)

CommittedAs(r, c) == r.pc \in {"send", "record"} /\ Counter(r) = c

Limit == MaxPerDay + Cardinality(Servers) - 1

\* The committed passes are some of the servers.
LEMMA CommittedFinite ==
  ASSUME NEW c
  PROVE  /\ IsFiniteSet(Committed(c)) /\ Cardinality(Committed(c)) \in Nat
         /\ Cardinality(Committed(c)) <= Cardinality(Servers)
         /\ Cardinality(Servers) \in Nat /\ Limit \in Nat
<1>1. Committed(c) \in SUBSET Servers
  BY DEF Committed
<1>2. Cardinality(Servers) \in Nat /\ Cardinality(Servers) # 0
  BY FS_CardinalityType, FS_EmptySet, ServersAssumption
<1>3. IsFiniteSet(Committed(c)) /\ Cardinality(Committed(c)) <= Cardinality(Servers)
  BY <1>1, FS_Subset, ServersAssumption
<1>4. Cardinality(Committed(c)) \in Nat
  BY <1>3, FS_CardinalityType
<1> QED
  BY <1>2, <1>3, <1>4, LimitAssumption DEF Limit

\* A step in which no pass becomes committed to c, and c is not recorded.
LEMMA NoMoreCommitted ==
  ASSUME TypeOK, NEW c \in Payments \X Phones \X Days,
         counted[c] + Cardinality(Committed(c)) <= Limit,
         counted'[c] = counted[c],
         \A s \in Servers : CommittedAs(run'[s], c) => CommittedAs(run[s], c)
  PROVE  counted'[c] + Cardinality(Committed(c)') <= Limit
<1>1. Committed(c)' \in SUBSET Committed(c)
  BY DEF Committed, CommittedAs
<1>2. Cardinality(Committed(c)') <= Cardinality(Committed(c))
  BY <1>1, CommittedFinite, FS_Subset
<1>3. Cardinality(Committed(c)') \in Nat
  BY <1>1, CommittedFinite, FS_Subset, FS_CardinalityType
<1>4. counted[c] \in Nat
  BY DEF TypeOK
<1>5. ASSUME NEW n \in Nat, NEW a \in Nat, NEW b \in Nat, NEW l \in Nat,
             a <= b, n + b <= l
      PROVE  n + a <= l
  BY <1>5
<1> QED
  BY <1>2, <1>3, <1>4, <1>5, CommittedFinite

\* Enough to look at the pass that moves.
LEMMA PassMoves ==
  ASSUME TypeOK, LimitInv, NEW s \in Servers, NEW q,
         run' = [run EXCEPT ![s] = q], counted' = counted,
         \A c : CommittedAs(q, c) => CommittedAs(run[s], c)
  PROVE  LimitInv'
<1>1. \A t \in Servers : run'[t] = IF t = s THEN q ELSE run[t]
  BY DEF TypeOK
<1>2. ASSUME NEW c \in Payments \X Phones \X Days
      PROVE  counted'[c] + Cardinality(Committed(c)') <= Limit
  <2>1. \A t \in Servers : CommittedAs(run'[t], c) => CommittedAs(run[t], c)
    BY <1>1
  <2>2. counted[c] + Cardinality(Committed(c)) <= Limit
    BY DEF LimitInv, Limit
  <2> QED
    BY <2>1, <2>2, NoMoreCommitted
<1> QED
  BY <1>2 DEF LimitInv, Limit

\* Looking at the count commits a pass only below the limit.
LEMMA CountsLimit ==
  ASSUME TypeOK, LimitInv, NEW s \in Servers, Counts(s)
  PROVE  LimitInv'
<1> DEFINE r == run[s]
<1>1. /\ r \in Pass /\ r.calls # <<>> /\ r.at \in Payments /\ r.dateKey \in Days
      /\ r.calls \in Seq(Phones \cup {Unusable}) /\ r.pc = "count"
  BY DEF TypeOK, Counts, Pass
<1>2. Head(r.calls) \in Phones \cup {Unusable}
  BY <1>1, TailType
<1>3. CASE Head(r.calls) = Unusable
  <2>1. Caught(r).pc = "next"
    BY <1>1, CaughtType
  <2>2. run' = [run EXCEPT ![s] = Caught(r)] /\ counted' = counted
    BY <1>3 DEF Counts, Continues
  <2> QED
    BY <2>1, <2>2, PassMoves DEF CommittedAs
<1>4. CASE Head(r.calls) # Unusable /\ ~BelowLimit(counted[Counter(r)])
  <2>1. Advanced(r).pc \in {"next", "count"}
    BY <1>1, AdvancedType
  <2>2. run' = [run EXCEPT ![s] = Advanced(r)] /\ counted' = counted
    BY <1>4 DEF Counts, Continues
  <2> QED
    BY <2>1, <2>2, PassMoves DEF CommittedAs
<1>5. CASE Head(r.calls) # Unusable /\ BelowLimit(counted[Counter(r)])
  <2> DEFINE q == [r EXCEPT !.pc = "send"]
  <2>1. run' = [run EXCEPT ![s] = q] /\ counted' = counted
    BY <1>5 DEF Counts, Continues
  <2>2. Counter(q) = Counter(r)
    BY <1>1 DEF Counter, Pass
  <2>3. ASSUME NEW c \in Payments \X Phones \X Days
        PROVE  counted'[c] + Cardinality(Committed(c)') <= Limit
    <3>1. counted[c] + Cardinality(Committed(c)) <= Limit
      BY DEF LimitInv, Limit
    <3>2. CASE c = Counter(r)
      <4>1. Committed(c)' \in SUBSET Servers
        BY DEF Committed
      <4>2. Cardinality(Committed(c)') <= Cardinality(Servers)
        BY <4>1, FS_Subset, ServersAssumption
      <4>3. Cardinality(Committed(c)') \in Nat
        BY <4>1, FS_Subset, FS_CardinalityType, ServersAssumption
      <4>4. counted[c] \in Nat /\ counted[c] < MaxPerDay /\ counted'[c] = counted[c]
        BY <1>5, <2>1, <3>2 DEF BelowLimit, TypeOK
      <4>5. ASSUME NEW n \in Nat, NEW a \in Nat, NEW b \in Nat, NEW m \in Nat,
                   a <= b, n < m
            PROVE  n + a <= m + b - 1
        BY <4>5
      <4> QED
        BY <4>2, <4>3, <4>4, <4>5, CommittedFinite, LimitAssumption DEF Limit
    <3>3. CASE c # Counter(r)
      <4>1. \A t \in Servers : run'[t] = IF t = s THEN q ELSE run[t]
        BY <2>1 DEF TypeOK
      <4>2. ~CommittedAs(q, c)
        <5> HIDE DEF q, r
        <5> QED
          BY <2>2, <3>3 DEF CommittedAs
      <4>3. \A t \in Servers : CommittedAs(run'[t], c) => CommittedAs(run[t], c)
        BY <4>1, <4>2
      <4> QED
        BY <2>1, <3>1, <4>3, NoMoreCommitted
    <3> QED
      BY <3>2, <3>3
  <2> QED
    BY <2>3 DEF LimitInv, Limit
<1> QED
  BY <1>2, <1>3, <1>4, <1>5

\* Recording trades a commitment for a delivery.
LEMMA RecordsLimit ==
  ASSUME TypeOK, LimitInv, NEW s \in Servers, Records(s)
  PROVE  LimitInv'
<1> DEFINE r == run[s]
           q == Advanced(r)
<1>1. r \in Pass /\ r.calls # <<>> /\ r.pc = "record"
  BY DEF TypeOK, Records
<1>2. q.pc \in {"next", "count"}
  BY <1>1, AdvancedType
<1>3. \A t \in Servers : run'[t] = IF t = s THEN q ELSE run[t]
  BY DEF Records, Continues, TypeOK
<1>4. ASSUME NEW c \in Payments \X Phones \X Days
      PROVE  counted'[c] + Cardinality(Committed(c)') <= Limit
  <2>1. counted[c] + Cardinality(Committed(c)) <= Limit /\ counted[c] \in Nat
    BY DEF LimitInv, Limit, TypeOK
  <2>2. Committed(c)' = Committed(c) \ {s}
    <3>1. ~CommittedAs(q, c)
      <4> HIDE DEF q
      <4> QED
        BY <1>2 DEF CommittedAs
    <3>2. \A t \in Servers : CommittedAs(run'[t], c) <=>
                               CommittedAs(run[t], c) /\ t # s
      <4> HIDE DEF q
      <4> QED
        BY <1>3, <3>1
    <3> QED
      BY <3>2 DEF Committed, CommittedAs
  <2>3. CASE counted'[c] = counted[c]
    <3>1. \A t \in Servers : CommittedAs(run'[t], c) => CommittedAs(run[t], c)
      <4> HIDE DEF q
      <4> QED
        BY <1>2, <1>3 DEF CommittedAs
    <3> QED
      BY <2>1, <2>3, <3>1, NoMoreCommitted
  <2>4. CASE counted'[c] # counted[c]
    <3>1. c = Counter(r) /\ counted'[c] = counted[c] + 1
      BY <2>4 DEF Records, TypeOK
    <3>2. s \in Committed(c)
      BY <1>1, <3>1 DEF Committed
    <3>3. Cardinality(Committed(c)') = Cardinality(Committed(c)) - 1
      BY <2>2, <3>2, CommittedFinite, FS_RemoveElement
    <3>4. ASSUME NEW n \in Nat, NEW k \in Nat, NEW l \in Nat, n + k <= l
          PROVE  (n + 1) + (k - 1) <= l
      BY <3>4
    <3> QED
      BY <2>1, <3>1, <3>3, <3>4, CommittedFinite
  <2> QED
    BY <2>3, <2>4
<1> QED
  BY <1>4 DEF LimitInv, Limit

\* The other steps of a server commit nothing.
LEMMA ServerLimit ==
  ASSUME TypeOK, LimitInv, NEW s \in Servers,
         CronFires(s) \/ Step(s) \/ Crashes(s) \/ Restarts(s)
  PROVE  LimitInv'
<1> DEFINE r == run[s]
<1>0. r \in Pass
  BY DEF TypeOK
<1>a. ASSUME NEW q, q.pc \notin {"send", "record"},
             run' = [run EXCEPT ![s] = q], counted' = counted
      PROVE  LimitInv'
  BY <1>a, PassMoves DEF CommittedAs
<1>b. ASSUME NEW ok, Returns(s, ok)
      PROVE  LimitInv'
  <2> DEFINE q == [r EXCEPT !.pc = "rest"]
  <2>1. q.pc = "rest" /\ run' = [run EXCEPT ![s] = q] /\ counted' = counted
    BY <1>0, <1>b DEF Returns, Pass
  <2> HIDE DEF q
  <2> QED
    BY <1>a, <2>1
<1>1. CASE CronFires(s)
  <2>1. CASE running[s]
    <3>1. run' = run /\ counted' = counted
      BY <1>1, <2>1 DEF CronFires
    <3> QED
      BY <3>1 DEF LimitInv, Committed
  <2>2. CASE ~running[s]
    <3> DEFINE q == [Resting EXCEPT !.pc = "find", !.dateKey = day]
    <3>1. q.pc = "find" /\ run' = [run EXCEPT ![s] = q] /\ counted' = counted
      BY <1>1, <2>2 DEF CronFires, Resting
    <3> HIDE DEF q
    <3> QED
      BY <1>a, <3>1
  <2> QED
    BY <2>1, <2>2
<1>2. CASE Finds(s)
  <2> DEFINE q == [r EXCEPT !.pc = "next", !.todo = overdue]
  <2>1. q.pc = "next" /\ run' = [run EXCEPT ![s] = q] /\ counted' = counted
    BY <1>0, <1>2 DEF Finds, Continues, Pass
  <2> HIDE DEF q
  <2> QED
    BY <1>a, <2>1
<1>3. CASE FindFails(s) \/ Ends(s)
  BY <1>3, <1>b DEF FindFails, Ends
<1>4. ASSUME NEW p \in Payments, TakesPayment(s, p)
      PROVE  LimitInv'
  <2> DEFINE n == [r EXCEPT !.todo = @ \ {p}, !.at = p, !.calls = Contacts[p]]
             q == IF Contacts[p] = <<>> THEN Caught(n) ELSE [n EXCEPT !.pc = "count"]
  <2>1. n \in Pass
    BY <1>0, ContactsAssumption DEF Pass
  <2>2. q.pc \in {"next", "count"}
    <3> HIDE DEF n
    <3>1. [n EXCEPT !.pc = "count"].pc = "count"
      BY <2>1 DEF Pass
    <3> QED
      BY <2>1, <3>1, CaughtType
  <2>3. run' = [run EXCEPT ![s] = q] /\ counted' = counted
    BY <1>4 DEF TakesPayment, Continues
  <2> HIDE DEF q
  <2> QED
    BY <1>a, <2>2, <2>3
<1>5. ASSUME NEW o \in Outcomes, Sends(s, o)
      PROVE  LimitInv'
  <2> DEFINE q == [r EXCEPT !.pc = "record", !.outcome = o]
  <2>1. run' = [run EXCEPT ![s] = q] /\ counted' = counted /\ r.pc = "send"
    BY <1>5 DEF Sends, Continues
  <2>2. Counter(q) = Counter(r)
    BY <1>0 DEF Counter, Pass
  <2> HIDE DEF q
  <2> QED
    BY <2>1, <2>2, PassMoves DEF CommittedAs
<1>6. CASE Throws(s)
  <2>1. Caught(r).pc = "next"
    BY <1>0, CaughtType
  <2>2. run' = [run EXCEPT ![s] = Caught(r)] /\ counted' = counted
    BY <1>6 DEF Throws, Continues
  <2> QED
    BY <1>a, <2>1, <2>2
<1>7. CASE Crashes(s)
  <2> DEFINE q == [Resting EXCEPT !.pc = "down"]
  <2>1. q.pc = "down" /\ run' = [run EXCEPT ![s] = q] /\ counted' = counted
    BY <1>7 DEF Crashes, Resting
  <2> HIDE DEF q
  <2> QED
    BY <1>a, <2>1
<1>8. CASE Restarts(s)
  <2>1. Resting.pc = "rest"
    BY DEF Resting
  <2> QED
    BY <1>8, <1>a, <2>1 DEF Restarts
<1> QED
  BY <1>1, <1>2, <1>3, <1>4, <1>5, <1>6, <1>7, <1>8, CountsLimit, RecordsLimit
     DEF Step

\* Deliveries and commitments together never exceed the limit by more than the
\* other servers.
THEOREM LimitKept == Spec => []LimitInv
<1>1. Init => LimitInv
  <2> SUFFICES ASSUME Init, NEW c \in Payments \X Phones \X Days
               PROVE  counted[c] + Cardinality(Committed(c)) <= Limit
    BY DEF LimitInv, Limit
  <2>1. Committed(c) = {}
    BY DEF Init, Committed, Resting
  <2>2. counted[c] = 0
    BY DEF Init
  <2> QED
    BY <2>1, <2>2, FS_EmptySet, CommittedFinite
<1>2. TypeOK /\ LimitInv /\ [Next]_vars => LimitInv'
  <2> SUFFICES ASSUME TypeOK, LimitInv, [Next]_vars PROVE LimitInv'
    OBVIOUS
  <2>1. CASE run' = run /\ counted' = counted
    BY <2>1 DEF LimitInv, Committed
  <2> QED
    BY <2>1, ServerLimit DEF Next, vars, Changes, Midnight
<1> QED
  BY <1>1, <1>2, RemindersTyped, PTL DEF Spec

\* However many servers run the job at the same time and whatever fails, no
\* phone gets more reminders of a payment in a day than the limit and one for
\* every other server.
THEOREM OvershootIsBounded == Spec => []OvershootBounded
<1>1. TypeOK /\ LimitInv => OvershootBounded
  <2> SUFFICES ASSUME TypeOK, LimitInv, NEW c \in Payments \X Phones \X Days
               PROVE  counted[c] <= Limit
    BY DEF OvershootBounded, TypeOK, Limit
  <2>1. counted[c] \in Nat /\ counted[c] + Cardinality(Committed(c)) <= Limit
    BY DEF TypeOK, LimitInv, Limit
  <2> QED
    BY <2>1, CommittedFinite
<1> QED
  BY <1>1, RemindersTyped, LimitKept, PTL

-----------------------------------------------------------------------------
(* The flag and the batch *)

UnderWay == {"find", "next", "count", "send", "record"}

\* A step of a pass either goes on with it or returns, and it returns only when
\* the first query has failed or nothing is left to do.
LEMMA StepGoesOnOrReturns ==
  ASSUME TypeOK, NEW s \in Servers, Step(s)
  PROVE  /\ run[s].pc \in UnderWay
         /\ \/ \E q \in Pass : q.pc \in UnderWay /\ Continues(s, q)
            \/ \E ok \in BOOLEAN :
                 Returns(s, ok) /\ (run[s].pc = "find" \/ run[s].todo = {})
<1> DEFINE r == run[s]
<1>0. Placed(r) /\ r \in Pass /\ overdue \subseteq Payments
  BY DEF TypeOK, Placed
<1>1. CASE Finds(s)
  <2>1. [r EXCEPT !.pc = "next", !.todo = overdue] \in Pass
    BY <1>0 DEF Pass
  <2> QED
    BY <1>0, <1>1, <2>1 DEF Finds, UnderWay, Pass
<1>2. CASE FindFails(s) \/ Ends(s)
  BY <1>2 DEF FindFails, Ends, UnderWay
<1>3. ASSUME NEW p \in Payments, TakesPayment(s, p)
      PROVE  r.pc \in UnderWay /\ \E q \in Pass : q.pc \in UnderWay /\ Continues(s, q)
  <2> DEFINE t == [r EXCEPT !.todo = @ \ {p}, !.at = p, !.calls = Contacts[p]]
  <2>1. t \in Pass
    BY <1>0, ContactsAssumption DEF Pass
  <2>2. r.pc = "next" /\ Continues(s, IF Contacts[p] = <<>> THEN Caught(t)
                                      ELSE [t EXCEPT !.pc = "count"])
    BY <1>3 DEF TakesPayment
  <2> HIDE DEF t
  <2>3. Caught(t) \in Pass /\ Caught(t).pc = "next"
    BY <2>1, CaughtType
  <2>4. [t EXCEPT !.pc = "count"] \in Pass /\ [t EXCEPT !.pc = "count"].pc = "count"
    BY <2>1 DEF Pass
  <2> QED
    BY <2>2, <2>3, <2>4 DEF UnderWay
<1>4. CASE Counts(s)
  <2>1. r.pc = "count" /\ r.calls # <<>>
    BY <1>0, <1>4 DEF Counts, Placed
  <2>2. /\ Caught(r) \in Pass /\ Caught(r).pc \in UnderWay
        /\ Advanced(r) \in Pass /\ Advanced(r).pc \in UnderWay
    BY <1>0, <2>1, CaughtType, AdvancedType DEF UnderWay
  <2>3. [r EXCEPT !.pc = "send"] \in Pass /\ [r EXCEPT !.pc = "send"].pc \in UnderWay
    BY <1>0 DEF Pass, UnderWay
  <2>4. \/ Continues(s, Caught(r))
        \/ Continues(s, [r EXCEPT !.pc = "send"])
        \/ Continues(s, Advanced(r))
    BY <1>4 DEF Counts
  <2> QED
    BY <2>1, <2>2, <2>3, <2>4 DEF UnderWay
<1>5. ASSUME NEW o \in Outcomes, Sends(s, o)
      PROVE  r.pc \in UnderWay /\ \E q \in Pass : q.pc \in UnderWay /\ Continues(s, q)
  <2>1. [r EXCEPT !.pc = "record", !.outcome = o] \in Pass
    BY <1>0 DEF Pass
  <2> QED
    BY <1>0, <1>5, <2>1 DEF Sends, UnderWay, Pass
<1>6. CASE Records(s)
  <2>1. r.pc = "record" /\ r.calls # <<>> /\ Continues(s, Advanced(r))
    BY <1>0, <1>6 DEF Records, Placed
  <2> QED
    BY <1>0, <2>1, AdvancedType DEF UnderWay
<1>7. CASE Throws(s)
  <2>1. r.pc \in UnderWay /\ Continues(s, Caught(r))
    BY <1>7 DEF Throws, UnderWay
  <2> QED
    BY <1>0, <2>1, CaughtType DEF UnderWay
<1> QED
  BY <1>1, <1>2, <1>3, <1>4, <1>5, <1>6, <1>7 DEF Step

\* The flag is up exactly while a pass is under way.
THEOREM FlagIsRight == Spec => []FlagMatchesPass
<1>1. Init => FlagMatchesPass
  BY DEF Init, FlagMatchesPass, Resting
<1>2. TypeOK /\ FlagMatchesPass /\ [Next]_vars => FlagMatchesPass'
  <2> SUFFICES ASSUME TypeOK, FlagMatchesPass, [Next]_vars PROVE FlagMatchesPass'
    OBVIOUS
  <2>0. running \in [Servers -> BOOLEAN] /\ run \in [Servers -> Pass]
    BY DEF TypeOK
  <2>1. CASE UNCHANGED <<running, run>>
    BY <2>1 DEF FlagMatchesPass
  <2>2. ASSUME NEW s \in Servers, CronFires(s) PROVE FlagMatchesPass'
    <3>1. CASE running[s]
      BY <2>1, <2>2, <3>1 DEF CronFires
    <3>2. CASE ~running[s]
      <4>1. /\ running' = [running EXCEPT ![s] = TRUE]
            /\ run' = [run EXCEPT ![s] = [Resting EXCEPT !.pc = "find", !.dateKey = day]]
        BY <2>2, <3>2 DEF CronFires
      <4> QED
        BY <2>0, <4>1 DEF FlagMatchesPass, Resting
    <3> QED
      BY <3>1, <3>2
  <2>3. ASSUME NEW s \in Servers, Step(s) PROVE FlagMatchesPass'
    <3>1. CASE \E q \in Pass : q.pc \in UnderWay /\ Continues(s, q)
      <4>1. run[s].pc \in UnderWay
        BY <2>3, StepGoesOnOrReturns
      <4> QED
        BY <2>0, <3>1, <4>1 DEF Continues, FlagMatchesPass, UnderWay
    <3>2. CASE \E ok \in BOOLEAN : Returns(s, ok)
      <4>1. run'[s].pc = "rest" /\ ~running'[s]
        BY <2>0, <3>2 DEF Returns, Pass
      <4>2. \A v \in Servers \ {s} : run'[v] = run[v] /\ running'[v] = running[v]
        BY <2>0, <3>2 DEF Returns
      <4> QED
        BY <4>1, <4>2 DEF FlagMatchesPass
    <3> QED
      BY <2>3, <3>1, <3>2, StepGoesOnOrReturns
  <2>4. ASSUME NEW s \in Servers, Crashes(s) PROVE FlagMatchesPass'
    BY <2>0, <2>4 DEF Crashes, FlagMatchesPass, Resting
  <2>5. ASSUME NEW s \in Servers, Restarts(s) PROVE FlagMatchesPass'
    BY <2>0, <2>5 DEF Restarts, FlagMatchesPass, Resting
  <2> QED
    BY <2>1, <2>2, <2>3, <2>4, <2>5 DEF Next, vars, Changes, Midnight
<1> QED
  BY <1>1, <1>2, RemindersTyped, PTL DEF Spec

\* A pass whose first query has gone well does not end before every payment it
\* found had its turn, unless its process dies.
THEOREM BatchesGoOn == Spec => BatchGoesOn
<1> DEFINE Goes ==
      \A s \in Servers :
        run[s].pc \notin {"rest", "down", "find"} /\ run'[s].pc = "rest"
          => run[s].todo = {}
<1>1. TypeOK /\ [Next]_vars => [Goes]_vars
  <2> SUFFICES ASSUME TypeOK, Next PROVE Goes
    OBVIOUS
  <2>0. run \in [Servers -> Pass]
    BY DEF TypeOK
  <2>1. CASE run' = run
    BY <2>1
  <2>2. ASSUME NEW s \in Servers, CronFires(s) \/ Crashes(s) \/ Restarts(s) PROVE Goes
    <3>1. \A v \in Servers \ {s} : run'[v] = run[v]
      BY <2>0, <2>2 DEF CronFires, Crashes, Restarts
    <3>2. run'[s] = run[s] \/ run'[s].pc # "rest" \/ run[s].pc = "down"
      BY <2>0, <2>2 DEF CronFires, Crashes, Restarts, Resting
    <3> QED
      BY <3>1, <3>2
  <2>3. ASSUME NEW s \in Servers, Step(s) PROVE Goes
    <3>1. CASE \E q \in Pass : q.pc \in UnderWay /\ Continues(s, q)
      BY <2>0, <3>1 DEF Continues, UnderWay
    <3>2. CASE \E ok \in BOOLEAN :
                 Returns(s, ok) /\ (run[s].pc = "find" \/ run[s].todo = {})
      BY <2>0, <3>2 DEF Returns
    <3> QED
      BY <2>3, <3>1, <3>2, StepGoesOnOrReturns
  <2> QED
    BY <2>1, <2>2, <2>3 DEF Next, Changes, Midnight
<1> QED
  BY <1>1, RemindersTyped, PTL DEF Spec, BatchGoesOn
=============================================================================
