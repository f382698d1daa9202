--------------------------- MODULE TimetableProofs ---------------------------
(***************************************************************************)
(* Timetable for any lessons, requests, working hours and time zone: two   *)
(* lessons clash only if the requests that wrote them overlapped, and with *)
(* requests one at a time none ever do.                                    *)
(***************************************************************************)
EXTENDS Timetable, TLAPS

Span == [start : Int, end : Int]

-----------------------------------------------------------------------------
(* Time *)

\* Instants in order fall on UTC days in order.
LEMMA DayMonotone ==
  ASSUME NEW a \in Int, NEW b \in Int, a <= b
  PROVE  UtcDay(a) <= UtcDay(b)
BY CalendarAssumption, SMT DEF UtcDay

\* The one day that overlapFilter looks at is enough: a lesson that takes the
\* same room, teacher or student at the same time is found.
LEMMA ClashIsFound ==
  ASSUME NEW a \in Booked, NEW b \in Booked,
         InOneDay(a), InOneDay(b), Clash(a, b)
  PROVE  Conflicts(a, b)
<1> DEFINE da == UtcDay(a.start)
           db == UtcDay(b.start)
<1>1. a.start \in Int /\ a.end \in Int /\ b.start \in Int /\ b.end \in Int
  BY DEF Booked
<1>2. a.start <= b.end /\ b.start <= a.end
  BY <1>1 DEF Clash, Overlap
<1>3. UtcDay(a.start) <= UtcDay(b.end) /\ UtcDay(b.start) <= UtcDay(a.end)
  BY <1>1, <1>2, DayMonotone
<1>4. UtcDay(a.end) = da /\ UtcDay(b.end) = db
  BY DEF InOneDay
<1>5. da \in Int /\ db \in Int
  BY <1>1, CalendarAssumption DEF UtcDay
<1>6. da = db
  BY <1>3, <1>4, <1>5
<1> QED
  BY <1>6 DEF Conflicts, Clash, Shares

LEMMA ClashSymmetric ==
  ASSUME NEW a \in Booked, NEW b \in Booked, Clash(a, b)
  PROVE  Clash(b, a)
BY DEF Clash, Overlap

-----------------------------------------------------------------------------
(* Types *)

LEMMA NewSpansTyped ==
  ASSUME today \in Nat
  PROVE  NewSpans \subseteq Span
<1>1. Week \in Nat \ {0} /\ Slots \in Nat /\ Offset \in Int /\ Hours \subseteq Int
  BY CalendarAssumption
<1>2. \A d \in 0..Week-1 : Upcoming(d) \in Int
  BY <1>1 DEF Upcoming
<1>3. \A x \in Int : \A h \in Hours : Instant(x, h) \in Int
  BY <1>1 DEF Instant
<1> QED
  BY <1>2, <1>3 DEF NewSpans, Span

LEMMA MovedSpansTyped ==
  ASSUME today \in Nat, NEW l, l.start \in Int, l.end \in Int
  PROVE  MovedSpans(l) \subseteq Span
<1>1. /\ Week \in Nat \ {0} /\ Slots \in Nat \ {0} /\ Offset \in Int
      /\ Hours \subseteq Int
  BY CalendarAssumption
<1>2. \A d \in 0..Week-1 : Upcoming(d) \in Int
  BY <1>1 DEF Upcoming
<1>3. LocalDay(l.start) \in Int
  BY <1>1 DEF LocalDay
<1>4. \A x \in Int : \A h \in Hours : Instant(x, h) \in Int
  BY <1>1 DEF Instant
<1> QED
  BY <1>2, <1>3, <1>4 DEF MovedSpans, Span

LEMMA BookingTyped ==
  ASSUME NEW ask \in Asks, NEW span \in Span
  PROVE  Booking(ask, span) \in Booked
BY AsksAssumption DEF Booking, Booked, Resources, Span

\* What a save keeps of the old lesson is out of the way of clashes.
LEMMA SavedAsBooked ==
  ASSUME NEW old \in Booked, NEW b \in Booked
  PROVE  /\ Saved(old, b) \in Booked
         /\ InOneDay(b) => InOneDay(Saved(old, b))
         /\ \A c : Clash(Saved(old, b), c) => Clash(b, c)
<1>1. Saved(old, b) \in Booked
  BY DEF Saved, Booked
<1>2. /\ Saved(old, b).room = b.room /\ Saved(old, b).teacher = b.teacher
      /\ Saved(old, b).students = b.students
      /\ Saved(old, b).start = b.start /\ Saved(old, b).end = b.end
  BY DEF Saved, Booked
<1> QED
  BY <1>1, <1>2 DEF InOneDay, Clash, Overlap

LEMMA LiveIsBooked ==
  ASSUME TypeOK, NEW id \in Lessons
  PROVE  Live(id) <=> lessons[id] \in Booked
BY DEF TypeOK, Live, Booked, Vacant, NoLesson

-----------------------------------------------------------------------------
(* The checks *)

\* What a check that passed leaves behind.
Checked(r) ==
  /\ InOneDay(r.booking)
  /\ \A m \in Lessons \ ({r.id} \cup r.since) :
       Live(m) => ~Clash(r.booking, lessons[m])

\* A request that has made its check, and changed nothing else.
LEMMA CheckPreserves ==
  ASSUME BookingInv, NEW w \in Workers, NEW id \in Lessons, NEW op, NEW booking,
         Checks(w, Writing(op, id, booking)),
         \/ op \in {"insert", "save"} /\ booking \in Booked /\ Accepted(id, booking)
         \/ op = "delete" /\ booking = NoLesson("deleted")
  PROVE  BookingInv'
<1> DEFINE r == Writing(op, id, booking)
<1>1. /\ lessons' = lessons /\ today' = today /\ raced' = raced
      /\ request' = [request EXCEPT ![w] = r]
  BY DEF Checks
<1>2. r.op = op /\ r.id = id /\ r.booking = booking /\ r.since = {}
  BY DEF Writing
<1>3. TypeOK'
  <2>1. \/ r \in [op : {"insert", "save"}, id : Lessons, booking : Booked,
                  since : SUBSET Lessons]
        \/ r \in [op : {"delete"}, id : Lessons, booking : {NoLesson("deleted")},
                  since : SUBSET Lessons]
    BY DEF Writing
  <2> QED
    BY <1>1, <2>1 DEF BookingInv, TypeOK
<1>4. op \in {"insert", "save"} => Checked(r)
  <2> SUFFICES ASSUME op \in {"insert", "save"} PROVE Checked(r)
    OBVIOUS
  <2>1. booking \in Booked /\ Accepted(id, booking)
    OBVIOUS
  <2>2. ASSUME NEW m \in Lessons, m # id, Live(m), Clash(booking, lessons[m])
        PROVE  FALSE
    <3>1. lessons[m] \in Booked
      BY <2>2, LiveIsBooked DEF BookingInv
    <3>2. InOneDay(lessons[m])
      BY <2>2 DEF BookingInv, LessonsInOneDay
    <3>3. InOneDay(booking)
      BY <2>1 DEF Accepted
    <3>4. Conflicts(booking, lessons[m])
      BY <2>1, <2>2, <3>1, <3>2, <3>3, ClashIsFound
    <3> QED
      BY <2>1, <2>2, <3>4 DEF Accepted
  <2> QED
    BY <1>2, <2>1, <2>2 DEF Checked, Accepted
<1>5. ASSUME NEW v \in Workers, request'[v].op \in {"insert", "save"}
      PROVE  /\ InOneDay(request'[v].booking)
             /\ \A m \in Lessons \ ({request'[v].id} \cup request'[v].since) :
                  Live(m)' => ~Clash(request'[v].booking, lessons'[m])
  <2>1. CASE v = w
    <3>1. request'[v] = r
      BY <1>1, <2>1 DEF BookingInv, TypeOK
    <3> QED
      BY <1>1, <1>2, <1>4, <1>5, <3>1 DEF Checked, Live
  <2>2. CASE v # w
    <3>1. request'[v] = request[v]
      BY <1>1, <2>2 DEF BookingInv, TypeOK
    <3> QED
      BY <1>1, <1>5, <3>1 DEF BookingInv, Live
  <2> QED
    BY <2>1, <2>2
<1>6. ClashOnlyByRace' /\ LessonsInOneDay'
  BY <1>1 DEF BookingInv, ClashOnlyByRace, LessonsInOneDay, Live
<1> QED
  BY <1>3, <1>5, <1>6 DEF BookingInv

LEMMA CreatePreserves ==
  ASSUME BookingInv, NEW w \in Workers, Create(w)
  PROVE  BookingInv'
<1>1. PICK span \in {s \in NewSpans : InOneDay(s)}, ask \in Asks, id \in Lessons :
        ReadCreate(w, id, Booking(ask, span))
  BY DEF Create
<1>2. Booking(ask, span) \in Booked
  BY <1>1, NewSpansTyped, BookingTyped DEF BookingInv, TypeOK
<1> QED
  BY <1>1, <1>2, CheckPreserves DEF ReadCreate

LEMMA UpdatePreserves ==
  ASSUME BookingInv, NEW w \in Workers, Update(w)
  PROVE  BookingInv'
<1>1. PICK id \in Lessons :
        /\ Live(id)
        /\ \E span \in {s \in MovedSpans(lessons[id]) : InOneDay(s)}, ask \in Asks :
             ReadUpdate(w, id, Booking(ask, span))
  BY DEF Update
<1>2. PICK span \in MovedSpans(lessons[id]), ask \in Asks :
        ReadUpdate(w, id, Booking(ask, span))
  BY <1>1
<1>3. lessons[id].start \in Int /\ lessons[id].end \in Int
  BY <1>1, LiveIsBooked DEF BookingInv, Booked
<1>4. Booking(ask, span) \in Booked
  BY <1>2, <1>3, MovedSpansTyped, BookingTyped DEF BookingInv, TypeOK
<1> QED
  BY <1>2, <1>4, CheckPreserves DEF ReadUpdate

LEMMA RemovePreserves ==
  ASSUME BookingInv, NEW w \in Workers, NEW id \in Lessons, ReadRemove(w, id)
  PROVE  BookingInv'
BY CheckPreserves DEF ReadRemove

-----------------------------------------------------------------------------
(* The writes *)

\* The others hear of a write.
LEMMA NoteWriteTyped ==
  ASSUME TypeOK, NEW w \in Workers, NEW id \in Lessons, NoteWrite(w, id)
  PROVE  /\ request' \in [Workers -> {Idle} \cup
              [op : {"insert", "save"}, id : Lessons, booking : Booked,
               since : SUBSET Lessons] \cup
              [op : {"delete"}, id : Lessons, booking : {NoLesson("deleted")},
               since : SUBSET Lessons]]
         /\ \A v \in Workers : request'[v].op \in {"insert", "save"} =>
              /\ v # w /\ request[v].op = request'[v].op
              /\ request'[v].id = request[v].id
              /\ request'[v].booking = request[v].booking
              /\ request'[v].since = request[v].since \cup {id}
<1> DEFINE Pending == [op : {"insert", "save"}, id : Lessons, booking : Booked,
                       since : SUBSET Lessons]
           Deleting == [op : {"delete"}, id : Lessons,
                        booking : {NoLesson("deleted")}, since : SUBSET Lessons]
<1>1. \A v \in Workers : request'[v] =
        IF v = w THEN Idle
        ELSE IF request[v].op \notin {"insert", "save"} THEN request[v]
        ELSE [request[v] EXCEPT !.since = @ \cup {id}]
  BY DEF NoteWrite
<1>2. Idle.op = "idle"
  BY DEF Idle
<1>3. \A v \in Workers : request[v] \in {Idle} \cup Pending \cup Deleting
  BY DEF TypeOK
<1>4. ASSUME NEW v \in Workers
      PROVE  /\ request'[v] \in {Idle} \cup Pending \cup Deleting
             /\ request'[v].op \in {"insert", "save"} =>
                  /\ v # w /\ request[v].op = request'[v].op
                  /\ request'[v].id = request[v].id
                  /\ request'[v].booking = request[v].booking
                  /\ request'[v].since = request[v].since \cup {id}
  <2>1. CASE v = w
    BY <1>1, <1>2, <2>1
  <2>2. CASE v # w /\ request[v].op \notin {"insert", "save"}
    BY <1>1, <1>3, <2>2
  <2>3. CASE v # w /\ request[v].op \in {"insert", "save"}
    <3>1. request[v] \in Pending
      BY <1>2, <1>3, <2>3
    <3>2. request'[v] = [request[v] EXCEPT !.since = @ \cup {id}]
      BY <1>1, <2>3
    <3>3. request[v].since \cup {id} \subseteq Lessons
      BY <3>1
    <3>4. request'[v] \in Pending
      BY <3>1, <3>2, <3>3
    <3>5. /\ request'[v].op = request[v].op /\ request'[v].id = request[v].id
          /\ request'[v].booking = request[v].booking
          /\ request'[v].since = request[v].since \cup {id}
      BY <3>1, <3>2
    <3> QED
      BY <2>3, <3>4, <3>5
  <2> QED
    BY <2>1, <2>2, <2>3
<1> QED
  BY <1>4 DEF NoteWrite

LEMMA CommitPreserves ==
  ASSUME BookingInv, NEW w \in Workers, Commit(w)
  PROVE  BookingInv'
<1> DEFINE r == request[w]
<1>0. TypeOK /\ r # Idle
  BY DEF BookingInv, Commit
<1>1. CASE ~Lands(r)
  <2>1. /\ request' = [request EXCEPT ![w] = Idle] /\ lessons' = lessons
        /\ raced' = raced /\ today' = today
    BY <1>1 DEF Commit
  <2>2. TypeOK'
    BY <1>0, <2>1 DEF TypeOK
  <2>3. \A v \in Workers : request'[v].op \in {"insert", "save"} => request'[v] = request[v]
    BY <1>0, <2>1 DEF TypeOK, Idle
  <2> QED
    BY <2>1, <2>2, <2>3 DEF BookingInv, ClashOnlyByRace, LessonsInOneDay, Live
<1>2. CASE Lands(r)
  <2> DEFINE new == IF r.op = "save" THEN Saved(lessons[r.id], r.booking) ELSE r.booking
  <2>1. /\ lessons' = [lessons EXCEPT ![r.id] = new] /\ today' = today
        /\ NoteWrite(w, r.id)
        /\ raced' = {pair \in raced : r.id \notin pair} \cup
             (IF r.op = "delete" THEN {} ELSE {{r.id, m} : m \in r.since \ {r.id}})
    BY <1>2 DEF Commit
  <2>2. /\ r.op \in {"insert", "save", "delete"} /\ r.id \in Lessons
        /\ r.since \subseteq Lessons
        /\ r.op = "delete" => r.booking = NoLesson("deleted")
        /\ r.op # "delete" => r.booking \in Booked /\ InOneDay(r.booking)
    BY <1>0 DEF TypeOK, BookingInv
  <2>3. r.op = "delete" => new = NoLesson("deleted")
    BY <2>2
  <2>4. r.op # "delete" => /\ new \in Booked /\ InOneDay(new)
                          /\ \A c : Clash(new, c) => Clash(r.booking, c)
    <3>1. CASE r.op = "insert"
      BY <2>2, <3>1
    <3>2. CASE r.op = "save"
      <4>1. lessons[r.id] \in Booked
        BY <1>0, <1>2, <2>2, <3>2, LiveIsBooked DEF Lands
      <4> QED
        BY <2>2, <3>2, <4>1, SavedAsBooked
    <3> QED
      BY <2>2, <3>1, <3>2
  <2>5. /\ lessons'[r.id] = new
        /\ \A m \in Lessons : m # r.id => lessons'[m] = lessons[m]
    BY <1>0, <2>1, <2>2 DEF TypeOK
  <2>6. TypeOK'
    <3>1. new \in Booked \cup Vacant
      BY <2>3, <2>4 DEF Vacant
    <3>2. lessons' \in [Lessons -> Booked \cup Vacant]
      BY <1>0, <2>1, <3>1 DEF TypeOK
    <3>3. raced' \subseteq SUBSET Lessons
      BY <1>0, <2>1, <2>2 DEF TypeOK
    <3> QED
      BY <1>0, <2>1, <2>2, <3>2, <3>3, NoteWriteTyped DEF TypeOK
  <2>7. \A m \in Lessons : Live(m)' => IF m = r.id THEN r.op # "delete" ELSE Live(m)
    BY <2>3, <2>5 DEF Live, NoLesson
  <2>8. LessonsInOneDay'
    <3> SUFFICES ASSUME NEW m \in Lessons, Live(m)' PROVE InOneDay(lessons'[m])
      BY DEF LessonsInOneDay
    <3> QED
      BY <2>4, <2>5, <2>7 DEF BookingInv, LessonsInOneDay
  <2>9. ASSUME NEW m \in Lessons, m # r.id, Live(m)', r.op # "delete",
               Clash(new, lessons[m])
        PROVE  {r.id, m} \in raced'
    <3>1. Live(m)
      BY <2>7, <2>9
    <3>2. Clash(r.booking, lessons[m])
      BY <2>4, <2>9
    <3>3. m \in r.since
      BY <2>2, <2>9, <3>1, <3>2 DEF BookingInv
    <3> QED
      BY <2>1, <2>9, <3>3
  <2>10. ClashOnlyByRace'
    <3> SUFFICES ASSUME NEW a \in Lessons, NEW b \in Lessons, a # b,
                        Live(a)', Live(b)', Clash(lessons'[a], lessons'[b])
                 PROVE  {a, b} \in raced'
      BY DEF ClashOnlyByRace
    <3>1. lessons'[a] \in Booked /\ lessons'[b] \in Booked
      BY <2>6 DEF TypeOK, Live, Vacant, NoLesson
    <3>2. CASE a = r.id
      BY <2>5, <2>7, <2>9, <3>2
    <3>3. CASE b = r.id
      <4>1. Clash(lessons'[b], lessons'[a])
        BY <3>1, ClashSymmetric
      <4>2. {b, a} \in raced'
        BY <2>5, <2>7, <2>9, <3>3, <4>1
      <4> QED
        BY <4>2
    <3>4. CASE a # r.id /\ b # r.id
      <4>1. {a, b} \in raced
        BY <2>5, <2>7, <3>4 DEF BookingInv, ClashOnlyByRace
      <4> QED
        BY <2>1, <3>4, <4>1
    <3> QED
      BY <3>2, <3>3, <3>4
  <2>11. ASSUME NEW v \in Workers, request'[v].op \in {"insert", "save"}
         PROVE  /\ InOneDay(request'[v].booking)
                /\ \A m \in Lessons \ ({request'[v].id} \cup request'[v].since) :
                     Live(m)' => ~Clash(request'[v].booking, lessons'[m])
    <3>1. /\ request[v].op \in {"insert", "save"}
          /\ request'[v].id = request[v].id
          /\ request'[v].booking = request[v].booking
          /\ request'[v].since = request[v].since \cup {r.id}
      BY <1>0, <2>1, <2>2, <2>11, NoteWriteTyped
    <3>2. ASSUME NEW m \in Lessons \ ({request'[v].id} \cup request'[v].since),
                 Live(m)'
          PROVE  ~Clash(request'[v].booking, lessons'[m])
      <4>1. m # r.id /\ m \in Lessons \ ({request[v].id} \cup request[v].since)
        BY <3>1, <3>2
      <4> QED
        BY <2>5, <2>7, <3>1, <3>2, <4>1 DEF BookingInv
    <3> QED
      BY <3>1, <3>2 DEF BookingInv
  <2> QED
    BY <2>6, <2>8, <2>10, <2>11 DEF BookingInv
<1> QED
  BY <1>1, <1>2

-----------------------------------------------------------------------------

LEMMA InitBooking == Init => BookingInv
<1> SUFFICES ASSUME Init PROVE BookingInv
  OBVIOUS
<1>1. TypeOK
  BY DEF Init, TypeOK, Vacant
<1>2. \A id \in Lessons : ~Live(id)
  BY DEF Init, Live, NoLesson
<1>3. \A w \in Workers : request[w].op = "idle"
  BY DEF Init, Idle
<1> QED
  BY <1>1, <1>2, <1>3 DEF BookingInv, ClashOnlyByRace, LessonsInOneDay

LEMMA NextBooking == BookingInv /\ [Next]_vars => BookingInv'
<1> SUFFICES ASSUME BookingInv, [Next]_vars PROVE BookingInv'
  OBVIOUS
<1>1. ASSUME NEW w \in Workers, Create(w) PROVE BookingInv'
  BY <1>1, CreatePreserves
<1>2. ASSUME NEW w \in Workers, Update(w) PROVE BookingInv'
  BY <1>2, UpdatePreserves
<1>3. ASSUME NEW w \in Workers, NEW id \in Lessons, ReadRemove(w, id)
      PROVE  BookingInv'
  BY <1>3, RemovePreserves
<1>4. ASSUME NEW w \in Workers, Commit(w) PROVE BookingInv'
  BY <1>4, CommitPreserves
<1>5. ASSUME NEW w \in Workers, Abort(w) PROVE BookingInv'
  <2>1. /\ request' = [request EXCEPT ![w] = Idle] /\ lessons' = lessons
        /\ raced' = raced /\ today' = today
    BY <1>5 DEF Abort
  <2>2. TypeOK'
    BY <2>1 DEF BookingInv, TypeOK
  <2>3. \A v \in Workers : request'[v].op \in {"insert", "save"} => request'[v] = request[v]
    BY <2>1 DEF BookingInv, TypeOK, Idle
  <2> QED
    BY <2>1, <2>2, <2>3 DEF BookingInv, ClashOnlyByRace, LessonsInOneDay, Live
<1>6. ASSUME Midnight PROVE BookingInv'
  <2>1. TypeOK'
    BY <1>6 DEF Midnight, BookingInv, TypeOK
  <2> QED
    BY <1>6, <2>1 DEF Midnight, BookingInv, ClashOnlyByRace, LessonsInOneDay, Live
<1>7. ASSUME UNCHANGED vars PROVE BookingInv'
  <2>1. TypeOK'
    BY <1>7 DEF vars, BookingInv, TypeOK
  <2> QED
    BY <1>7, <2>1 DEF vars, BookingInv, ClashOnlyByRace, LessonsInOneDay, Live
<1> QED
  BY <1>1, <1>2, <1>3, <1>4, <1>5, <1>6, <1>7 DEF Next

\* The invariant of the bookings, for any number of lessons and requests.
THEOREM BookingsSafe == Spec => []BookingInv
BY InitBooking, NextBooking, PTL DEF Spec

\* ScheduleService books a room, a teacher or a student twice only if the two
\* requests overlapped, for any asks, hours, time zone and week.
THEOREM ClashesAreRaces == Spec => []ClashOnlyByRace
<1>1. BookingInv => ClashOnlyByRace
  BY DEF BookingInv
<1> QED
  BY <1>1, BookingsSafe, PTL

\* Every stored lesson lies within one UTC day.
THEOREM LessonsStayInOneDay == Spec => []LessonsInOneDay
<1>1. BookingInv => LessonsInOneDay
  BY DEF BookingInv
<1> QED
  BY <1>1, BookingsSafe, PTL

-----------------------------------------------------------------------------
(* Requests one at a time *)

OneAtATime == \A v, w \in Workers : v = w

\* Nothing is written between a check and its write.
Calm ==
  /\ raced = {}
  /\ \A w \in Workers : request[w].op \in {"insert", "save"} => request[w].since = {}

LEMMA CalmStep ==
  ASSUME OneAtATime, TypeOK, Calm, [Next]_vars
  PROVE  Calm'
<1>1. ASSUME NEW w \in Workers, NEW r, Checks(w, r),
             r.op \in {"insert", "save"} => r.since = {}
      PROVE  Calm'
  <2>1. \A v \in Workers : v = w
    BY DEF OneAtATime
  <2>2. request'[w] = r /\ raced' = raced
    BY <1>1 DEF Checks, TypeOK
  <2> QED
    BY <1>1, <2>1, <2>2 DEF Calm
<1>2. ASSUME NEW w \in Workers, Create(w) \/ Update(w) PROVE Calm'
  <2>1. PICK op, id, booking : Checks(w, Writing(op, id, booking))
    BY <1>2 DEF Create, Update, ReadCreate, ReadUpdate
  <2>2. Writing(op, id, booking).since = {}
    BY DEF Writing
  <2> QED
    BY <1>1, <2>1, <2>2
<1>3. ASSUME NEW w \in Workers, NEW id \in Lessons, ReadRemove(w, id) PROVE Calm'
  <2>1. Writing("delete", id, NoLesson("deleted")).since = {}
    BY DEF Writing
  <2> QED
    BY <1>1, <1>3, <2>1 DEF ReadRemove
<1>4. ASSUME NEW w \in Workers, Commit(w) PROVE Calm'
  <2>1. \A v \in Workers : v = w
    BY DEF OneAtATime
  <2>2. request'[w] = Idle
    BY <1>4 DEF Commit, NoteWrite, TypeOK
  <2>3. Idle.op = "idle"
    BY DEF Idle
  <2>4. raced' = {}
    <3>1. CASE ~Lands(request[w])
      BY <1>4, <3>1 DEF Commit, Calm
    <3>2. CASE Lands(request[w])
      <4>1. request[w].op # "delete" => request[w].since = {}
        BY <3>2 DEF Calm, Lands
      <4> QED
        BY <1>4, <3>2, <4>1 DEF Commit, Calm
    <3> QED
      BY <3>1, <3>2
  <2> QED
    BY <2>1, <2>2, <2>3, <2>4 DEF Calm
<1>5. ASSUME NEW w \in Workers, Abort(w) PROVE Calm'
  <2>1. \A v \in Workers : v = w
    BY DEF OneAtATime
  <2>2. request'[w] = Idle /\ raced' = raced
    BY <1>5 DEF Abort, TypeOK
  <2> QED
    BY <2>1, <2>2 DEF Calm, Idle
<1>6. CASE Midnight \/ UNCHANGED vars
  BY <1>6 DEF Midnight, vars, Calm
<1> QED
  BY <1>2, <1>3, <1>4, <1>5, <1>6 DEF Next

\* With one request at a time the checks of ScheduleService are enough: no
\* room, teacher or student is ever booked twice.
THEOREM SerialNeverClashes ==
  ASSUME OneAtATime
  PROVE  Spec => [](\A a, b \in Lessons :
                      a # b /\ Live(a) /\ Live(b) => ~Clash(lessons[a], lessons[b]))
<1> DEFINE NoClash == \A a, b \in Lessons :
                        a # b /\ Live(a) /\ Live(b) => ~Clash(lessons[a], lessons[b])
<1>1. Init => Calm
  BY DEF Init, Calm, Idle
<1>2. TypeOK /\ Calm /\ [Next]_vars => Calm'
  BY CalmStep
<1>3. BookingInv => TypeOK
  BY DEF BookingInv
<1>4. BookingInv /\ Calm => NoClash
  BY DEF BookingInv, ClashOnlyByRace, Calm
<1>5. Spec => []Calm
  BY <1>1, <1>2, <1>3, BookingsSafe, PTL DEF Spec
<1> HIDE DEF NoClash
<1>6. Spec => []NoClash
  BY <1>4, <1>5, BookingsSafe, PTL
<1> QED
  BY <1>6 DEF NoClash
=============================================================================
