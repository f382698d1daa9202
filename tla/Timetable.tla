------------------------------ MODULE Timetable ------------------------------
(***************************************************************************)
(* ScheduleService as a booking system: lessons take a room, a teacher, a  *)
(* group and students for a span of time.  A request gives a weekday and   *)
(* local hours; the service derives UTC instants from them, checks that no *)
(* stored lesson conflicts, and writes in a later database call.  Nothing  *)
(* in the collection itself forbids two lessons at once.                   *)
(*                                                                         *)
(* That the course, room, teacher and group exist and fit together is the  *)
(* subject of Catalog; here a request may ask for any of Asks.             *)
(***************************************************************************)
EXTENDS Integers

CONSTANTS
  Lessons,      \* _ids a client may generate; never used twice
  Rooms, Teachers, Groups, Students,
  Asks,         \* the combinations of them that requests ask for
  Workers,      \* requests in flight at the same time
  Slots,        \* slots in a day
  Hours,        \* slots of the local day that requests name
  Week,         \* days in a week
  Offset,       \* SCHEDULE_TIMEZONE_OFFSET_MINUTES, in slots
  MaxDay,       \* bound on the calendar
  None          \* no group, a field the request leaves out

Resources ==
  [room : Rooms, teacher : Teachers, group : Groups \cup {None},
   students : SUBSET Students]

ASSUME CalendarAssumption ==
  /\ Slots \in Nat \ {0} /\ Week \in Nat \ {0}
  /\ Hours \subseteq 0..Slots-1
  /\ Offset \in Int /\ MaxDay \in Nat
ASSUME AsksAssumption == Asks \subseteq Resources
ASSUME NoneAssumption == None \notin Int

VARIABLES
  lessons,  \* the schedule collection, by _id
  request,  \* what each worker is about to write
  today,    \* the local calendar day
  raced     \* pairs of lessons written without either check seeing the other

vars == <<lessons, request, today, raced>>

-----------------------------------------------------------------------------
(* From weekdays and hours to instants *)

\* combineDatePartsAndTime.
Instant(day, hour) == day * Slots + hour - Offset

UtcDay(instant) == instant \div Slots

\* getLocalDateParts.
LocalDay(instant) == (instant + Offset) \div Slots

\* getUpcomingDatePartsForWeekday: today, or one of the days after it.
Upcoming(weekday) == today + ((weekday - today) % Week)

\* toScheduleState for create: the first of the weekdays, both hours.
NewSpans ==
  {[start |-> Instant(Upcoming(d), from), end |-> Instant(Upcoming(d), to)] :
     d \in 0..Week-1, from \in Hours, to \in Hours}

\* toScheduleState for update: an hour that is given falls on the weekday that
\* is given, otherwise on the local day of the stored lesson; a time that is
\* not given stays, whatever the weekday.
MovedSpans(l) ==
  LET At(day, hour, stored) == IF hour = None THEN stored ELSE Instant(day, hour)
  IN {[start |-> At(day, from, l.start), end |-> At(day, to, l.end)] :
        day \in {Upcoming(d) : d \in 0..Week-1} \cup {LocalDay(l.start)},
        from \in Hours \cup {None}, to \in Hours \cup {None}}

\* ensureValidTimeRange; the date is the start.
InOneDay(span) ==
  span.start < span.end /\ UtcDay(span.start) = UtcDay(span.end)

-----------------------------------------------------------------------------
(* Conflicts *)

Overlap(a, b) == a.start < b.end /\ b.start < a.end

\* Mutant: the students are left out of the $or.
SharesRoomOrTeacher(a, b) ==
  \/ a.room = b.room
  \/ a.teacher = b.teacher
  \/ a.group # None /\ a.group = b.group

\* The $or of overlapFilter, for the booking a and a stored lesson b.
Shares(a, b) ==
  \/ a.room = b.room
  \/ a.teacher = b.teacher
  \/ a.group # None /\ a.group = b.group
  \/ a.students \cap b.students # {}

\* overlapFilter.
Conflicts(a, b) ==
  UtcDay(b.start) = UtcDay(a.start) /\ Overlap(a, b) /\ Shares(a, b)

-----------------------------------------------------------------------------

Live(id) == lessons[id].state = "live"

NoLesson(s) ==
  [state |-> s, room |-> None, teacher |-> None, group |-> None,
   students |-> {}, start |-> 0, end |-> 0]

Booking(ask, span) ==
  [state |-> "live", room |-> ask.room, teacher |-> ask.teacher,
   group |-> ask.group, students |-> ask.students,
   start |-> span.start, end |-> span.end]

Idle == [op |-> "idle"]

\* since: the lessons others have written since this request made its check.
Writing(op, id, booking) ==
  [op |-> op, id |-> id, booking |-> booking, since |-> {}]

Free(id) ==
  /\ lessons[id].state = "unused"
  /\ \A w \in Workers : request[w].op = "insert" => request[w].id # id

Init ==
  /\ lessons = [id \in Lessons |-> NoLesson("unused")]
  /\ request = [w \in Workers |-> Idle]
  /\ today = 1
  /\ raced = {}

\* validateRelationsAndConflicts, as far as it goes here.
Accepted(id, booking) ==
  /\ InOneDay(booking)
  /\ \A other \in Lessons \ {id} : Live(other) => ~Conflicts(booking, lessons[other])

Checks(w, r) ==
  /\ request[w] = Idle
  /\ request' = [request EXCEPT ![w] = r]
  /\ UNCHANGED <<lessons, today, raced>>

ReadCreate(w, id, booking) ==
  /\ Free(id)
  /\ Accepted(id, booking)
  /\ Checks(w, Writing("insert", id, booking))

\* The stored lesson with the fields of the request over it.  A group of null
\* is checked as none.
ReadUpdate(w, id, booking) ==
  /\ Live(id)
  /\ Accepted(id, booking)
  /\ Checks(w, Writing("save", id, booking))

\* remove: whether attendance refers to the lesson is the subject of Catalog.
ReadRemove(w, id) ==
  /\ Live(id)
  /\ Checks(w, Writing("delete", id, NoLesson("deleted")))

\* Mutant: the merged state is saved without its end.
SavedWithoutEnd(old, booking) ==
  [booking EXCEPT !.group = IF @ = None THEN old.group ELSE @, !.end = old.end]

\* findByIdAndUpdate with the merged state.  mongoose drops an undefined group
\* from the update, so the lesson keeps the one it has.
Saved(old, booking) ==
  [booking EXCEPT !.group = IF @ = None THEN old.group ELSE @]

\* The write has an effect: an insert, or a lesson that is still there.
Lands(r) == r.op = "insert" \/ (r.op \in {"save", "delete"} /\ Live(r.id))

NoteWrite(w, id) ==
  request' = [v \in Workers |->
    IF v = w THEN Idle
    ELSE IF request[v].op \notin {"insert", "save"} THEN request[v]
    ELSE [request[v] EXCEPT !.since = @ \cup {id}]]

Commit(w) ==
  LET r == request[w] IN
  /\ r # Idle
  /\ UNCHANGED today
  /\ IF Lands(r)
     THEN /\ lessons' = [lessons EXCEPT ![r.id] =
               IF r.op = "save" THEN Saved(@, r.booking) ELSE r.booking]
          /\ raced' = {pair \in raced : r.id \notin pair} \cup
                        (IF r.op = "delete" THEN {}
                         ELSE {{r.id, m} : m \in r.since \ {r.id}})
          /\ NoteWrite(w, r.id)
     ELSE /\ request' = [request EXCEPT ![w] = Idle]
          /\ UNCHANGED <<lessons, raced>>

\* The request is cut off before its write.
Abort(w) ==
  /\ request[w] # Idle
  /\ request' = [request EXCEPT ![w] = Idle]
  /\ UNCHANGED <<lessons, today, raced>>

Midnight ==
  /\ today < MaxDay
  /\ today' = today + 1
  /\ UNCHANGED <<lessons, request, raced>>

Create(w) ==
  /\ request[w] = Idle
  /\ \E span \in {s \in NewSpans : InOneDay(s)}, ask \in Asks, id \in Lessons :
       ReadCreate(w, id, Booking(ask, span))

Update(w) ==
  /\ request[w] = Idle
  /\ \E id \in Lessons :
       /\ Live(id)
       /\ \E span \in {s \in MovedSpans(lessons[id]) : InOneDay(s)}, ask \in Asks :
            ReadUpdate(w, id, Booking(ask, span))

Next ==
  \/ \E w \in Workers :
       \/ Create(w) \/ Update(w)
       \/ \E id \in Lessons : ReadRemove(w, id)
       \/ Commit(w) \/ Abort(w)
  \/ Midnight

Spec == Init /\ [][Next]_vars

-----------------------------------------------------------------------------

Booked ==
  [state : {"live"}, room : Rooms, teacher : Teachers, group : Groups \cup {None},
   students : SUBSET Students, start : Int, end : Int]

Vacant == {NoLesson("unused"), NoLesson("deleted")}

\* Every pending write is one the collection can take.
TypeOK ==
  /\ lessons \in [Lessons -> Booked \cup Vacant]
  /\ today \in Nat
  /\ raced \subseteq SUBSET Lessons
  /\ request \in [Workers -> {Idle} \cup
       [op : {"insert", "save"}, id : Lessons, booking : Booked,
        since : SUBSET Lessons] \cup
       [op : {"delete"}, id : Lessons, booking : {NoLesson("deleted")},
        since : SUBSET Lessons]]

\* Two lessons need the same room, teacher or student at the same time.  The
\* group is left out: an update that passes null for it is checked without
\* the group and keeps it.
Clash(a, b) ==
  /\ Overlap(a, b)
  /\ a.room = b.room \/ a.teacher = b.teacher \/ a.students \cap b.students # {}

\* Rooms, teachers and students are booked twice only by two requests that
\* overlap, whatever the sequence of creations, moves and deletions before,
\* partial updates and the time zone included: of two lessons that clash
\* neither was stored when the other was last checked.
ClashOnlyByRace ==
  \A a, b \in Lessons :
    a # b /\ Live(a) /\ Live(b) /\ Clash(lessons[a], lessons[b])
      => {a, b} \in raced

\* Every lesson ends after it starts and on the same UTC day, also when two
\* updates write over each other; the conflict check looks at one day only.
LessonsInOneDay == \A id \in Lessons : Live(id) => InOneDay(lessons[id])

\* The inductive form: a booking under way clashes with no lesson but those
\* written since its check.
BookingInv ==
  /\ TypeOK
  /\ ClashOnlyByRace
  /\ LessonsInOneDay
  /\ \A w \in Workers :
       request[w].op \in {"insert", "save"} =>
         LET r == request[w] IN
         /\ InOneDay(r.booking)
         /\ \A m \in Lessons \ ({r.id} \cup r.since) :
              Live(m) => ~Clash(r.booking, lessons[m])
=============================================================================
