------------------------------- MODULE Catalog -------------------------------
(***************************************************************************)
(* The references between courses, groups, rooms, lessons, attendance,     *)
(* payments and the users who teach.  Each service looks up what a new     *)
(* document refers to before it writes, and what refers to a document      *)
(* before it deletes it; the write is a later database call, and MongoDB   *)
(* knows nothing of references.                                            *)
(*                                                                         *)
(* A document is the ids it refers to and one flag.  Students, names,      *)
(* prices and times are left out (for times, see Timetable); so are the    *)
(* conditions on them, which only refuse more.                             *)
(***************************************************************************)
EXTENDS Naturals

CONSTANTS
  Courses, Groups, Rooms, Lessons,
  Marks,     \* attendance records
  Bills,     \* payments
  Users,     \* those who may teach
  Workers,   \* requests in flight at the same time
  None       \* no reference

Ids == Courses \cup Groups \cup Rooms \cup Lessons \cup Marks \cup Bills \cup Users

ASSUME NoneAssumption == None \notin Ids
ASSUME KindsAssumption ==
  /\ Courses \cap (Groups \cup Rooms \cup Lessons \cup Marks \cup Bills \cup Users) = {}
  /\ Groups \cap (Rooms \cup Lessons \cup Marks \cup Bills \cup Users) = {}
  /\ Rooms \cap (Lessons \cup Marks \cup Bills \cup Users) = {}
  /\ Lessons \cap (Marks \cup Bills \cup Users) = {}
  /\ Marks \cap (Bills \cup Users) = {}
  /\ Bills \cap Users = {}

VARIABLES
  docs,     \* every document of the seven collections, by _id
  request,  \* what each worker is about to write
  excused   \* pairs whose relation no check has seen in its present state

vars == <<docs, request, excused>>

-----------------------------------------------------------------------------
(* Documents *)

Links == {"course", "group", "room", "lesson"}

\* fit: a room that is available, a user with the role of a teacher.
Document(s, fit) ==
  [state |-> s, course |-> None, group |-> None, room |-> None,
   lesson |-> None, teachers |-> {}, fit |-> fit]

Blank == Document("live", FALSE)

Live(id) == docs[id].state = "live"

\* What a document, or a patch of one, refers to.
Refs(d) ==
  ({d[f] : f \in Links \cap DOMAIN d} \ {None})
    \cup (IF "teachers" \in DOMAIN d THEN d.teachers ELSE {})

\* The live documents of a kind that refer to id.
Referrers(kind, id) == {x \in kind : Live(x) /\ id \in Refs(docs[x])}

Idle == [op |-> "idle"]

\* set: the fields a save writes, or the whole new document.
\* since: the documents that concern this request and that others have written
\* since its check.
Writing(op, id, set) == [op |-> op, id |-> id, set |-> set, since |-> {}]

Free(id) ==
  /\ docs[id].state = "unused"
  /\ \A w \in Workers : request[w].op = "insert" => request[w].id # id

Init ==
  /\ docs = [id \in Ids |-> IF id \in Users THEN Document("live", TRUE)
                            ELSE Document("unused", FALSE)]
  /\ request = [w \in Workers |-> Idle]
  /\ excused = {}

\* The check has passed; the write is still to come.
Plans(w, op, id, set) ==
  /\ request[w] = Idle
  /\ request' = [request EXCEPT ![w] = Writing(op, id, set)]
  /\ UNCHANGED <<docs, excused>>

Inserts(w, id, doc) == Free(id) /\ Plans(w, "insert", id, doc)
Saves(w, id, set) == Live(id) /\ Plans(w, "save", id, set)
Deletes(w, id) == Live(id) /\ Plans(w, "delete", id, Document("deleted", FALSE))

Teaches(t) == Live(t) /\ docs[t].fit

\* The teacher is one of the course's, if it has any.
TeachesCourse(t, c) == docs[c].teachers = {} \/ t \in docs[c].teachers

-----------------------------------------------------------------------------
(* CoursesService *)

CreateCourse(w, c, ts) ==
  /\ \A t \in ts : Teaches(t)
  /\ Inserts(w, c, [Blank EXCEPT !.teachers = ts])

UpdateCourse(w, c, ts) ==
  /\ \A t \in ts : Teaches(t)
  /\ Saves(w, c, [teachers |-> ts])

\* The payments are looked up under course, a field they do not have.
RemoveCourse(w, c) ==
  /\ Referrers(Groups \cup Lessons, c) = {}
  /\ Deletes(w, c)

-----------------------------------------------------------------------------
(* GroupsService *)

CreateGroup(w, g, c, t) ==
  /\ Live(c) /\ TeachesCourse(t, c) /\ Teaches(t)
  /\ Inserts(w, g, [Blank EXCEPT !.course = c, !.teachers = {t}])

\* Only what the request names is checked: a course without the stored
\* teacher, a teacher without the stored course.
UpdateGroupCourse(w, g, c) == Live(c) /\ Saves(w, g, [course |-> c])

UpdateGroupTeacher(w, g, t) == Teaches(t) /\ Saves(w, g, [teachers |-> {t}])

UpdateGroup(w, g, c, t) ==
  /\ Live(c) /\ TeachesCourse(t, c) /\ Teaches(t)
  /\ Saves(w, g, [course |-> c, teachers |-> {t}])

RemoveGroup(w, g) ==
  /\ Referrers(Lessons, g) = {}
  /\ Deletes(w, g)

-----------------------------------------------------------------------------
(* RoomService *)

CreateRoom(w, r) == Inserts(w, r, [Blank EXCEPT !.fit = TRUE])

UpdateRoom(w, r, available) == Saves(w, r, [fit |-> available])

RemoveRoom(w, r) ==
  /\ Referrers(Lessons, r) = {}
  /\ Deletes(w, r)

-----------------------------------------------------------------------------
(* ScheduleService *)

\* validateRelationsAndConflicts, as far as it goes here.
LessonFits(c, r, t, g) ==
  /\ Live(c) /\ Live(r) /\ docs[r].fit
  /\ Teaches(t) /\ TeachesCourse(t, c)
  /\ g # None => Live(g) /\ docs[g].course = c /\ docs[g].teachers = {t}

CreateLesson(w, l, c, r, t, g) ==
  /\ LessonFits(c, r, t, g)
  /\ Inserts(w, l, [Blank EXCEPT !.course = c, !.room = r, !.teachers = {t},
                                 !.group = g])

\* Without a group the update leaves the stored one alone.
UpdateLesson(w, l, c, r, t, g) ==
  /\ LessonFits(c, r, t, g)
  /\ Saves(w, l, IF g = None
                 THEN [course |-> c, room |-> r, teachers |-> {t}]
                 ELSE [course |-> c, room |-> r, teachers |-> {t}, group |-> g])

\* Mutant: the attendance is not looked up.
RemoveLessonMarked(w, l) == Deletes(w, l)

RemoveLesson(w, l) ==
  /\ Referrers(Marks, l) = {}
  /\ Deletes(w, l)

-----------------------------------------------------------------------------
(* Attendance and payments *)

\* markAttendance of one student, when he has no record for the lesson yet;
\* otherwise the upsert writes no reference.
MarkAttendance(w, a, l) ==
  /\ Live(l)
  /\ Inserts(w, a, [Blank EXCEPT !.lesson = l])

\* PaymentsService.create.
CreatePayment(w, b, c, g) ==
  /\ Live(c) /\ Live(g)
  /\ Inserts(w, b, [Blank EXCEPT !.course = c, !.group = g])

\* delete, of one without transactions.
RemovePayment(w, b) == Deletes(w, b)

-----------------------------------------------------------------------------
(* UsersService *)

GrantTeacherRole(w, t) == Saves(w, t, [fit |-> TRUE])

\* Mutant: the schedule is not looked up.
TakeTeacherRoleFromLessons(w, t) ==
  /\ Referrers(Courses \cup Groups, t) = {}
  /\ Saves(w, t, [fit |-> FALSE])

\* updateRole to any other role.
TakeTeacherRole(w, t) ==
  /\ Referrers(Courses \cup Groups \cup Lessons, t) = {}
  /\ Saves(w, t, [fit |-> FALSE])

\* ensureUserHasNoReferences.
RemoveUser(w, t) ==
  /\ Referrers(Courses \cup Groups \cup Lessons, t) = {}
  /\ Deletes(w, t)

\* updateForActor with a role: nothing is looked up.
PutRole(w, t) == Live(t) /\ Plans(w, "put", t, [fit |-> FALSE])

-----------------------------------------------------------------------------
(* The database *)

\* An attendance record that another request has inserted meanwhile is
\* updated instead: (user, schedule) is unique.
Lands(r) ==
  IF r.op = "insert"
  THEN r.id \in Marks => Referrers(Marks, r.set.lesson) = {}
  ELSE Live(r.id)

Merge(d, set) == [f \in DOMAIN d |-> IF f \in DOMAIN set THEN set[f] ELSE d[f]]

\* x holds a reference to y once the write is done.
RefersTo(x, y) == docs'[x].state = "live" /\ y \in Refs(docs'[x])

\* A write is excused for what was written since its check, a PUT of a role
\* for all who refer to the user; a new look at a reference ends an excuse.
ExcusedBy(r) ==
  {p \in {q \in excused : \A y \in Refs(r.set) : q # {r.id, y}}
           \cup {{r.id, y} : y \in r.since \ {r.id}}
           \cup {{r.id, x} : x \in IF r.op = "put" THEN Referrers(Ids, r.id) ELSE {}} :
     \E x, y \in p : RefersTo(x, y)}

\* Every request under way that refers to the document written, or is about
\* one it refers to, has missed the write.
NoteWrite(w, id) ==
  request' = [v \in Workers |->
    IF v = w \/ request[v] = Idle THEN Idle
    ELSE IF id \in Refs(request[v].set) \/ RefersTo(id, request[v].id)
    THEN [request[v] EXCEPT !.since = @ \cup {id}]
    ELSE request[v]]

Commit(w) ==
  LET r == request[w] IN
  /\ r # Idle
  /\ IF Lands(r)
     THEN /\ docs' = [docs EXCEPT ![r.id] = Merge(@, r.set)]
          /\ excused' = ExcusedBy(r)
          /\ NoteWrite(w, r.id)
     ELSE /\ request' = [request EXCEPT ![w] = Idle]
          /\ UNCHANGED <<docs, excused>>

\* The request is cut off before its write.
Abort(w) ==
  /\ request[w] # Idle
  /\ request' = [request EXCEPT ![w] = Idle]
  /\ UNCHANGED <<docs, excused>>

-----------------------------------------------------------------------------

Handles(w) ==
  /\ request[w] = Idle
  /\ \/ \E c \in Courses, ts \in SUBSET Users :
          CreateCourse(w, c, ts) \/ UpdateCourse(w, c, ts)
     \/ \E c \in Courses : RemoveCourse(w, c)
     \/ \E g \in Groups, c \in Courses, t \in Users :
          CreateGroup(w, g, c, t) \/ UpdateGroup(w, g, c, t)
     \/ \E g \in Groups, c \in Courses : UpdateGroupCourse(w, g, c)
     \/ \E g \in Groups, t \in Users : UpdateGroupTeacher(w, g, t)
     \/ \E g \in Groups : RemoveGroup(w, g)
     \/ \E r \in Rooms : CreateRoom(w, r) \/ RemoveRoom(w, r)
     \/ \E r \in Rooms, available \in BOOLEAN : UpdateRoom(w, r, available)
     \/ \E l \in Lessons, c \in Courses, r \in Rooms, t \in Users,
          g \in Groups \cup {None} :
          CreateLesson(w, l, c, r, t, g) \/ UpdateLesson(w, l, c, r, t, g)
     \/ \E l \in Lessons : RemoveLesson(w, l)
     \/ \E a \in Marks, l \in Lessons : MarkAttendance(w, a, l)
     \/ \E b \in Bills, c \in Courses, g \in Groups : CreatePayment(w, b, c, g)
     \/ \E b \in Bills : RemovePayment(w, b)
     \/ \E t \in Users :
          \/ GrantTeacherRole(w, t) \/ TakeTeacherRole(w, t)
          \/ RemoveUser(w, t) \/ PutRole(w, t)

Next == \E w \in Workers : Handles(w) \/ Commit(w) \/ Abort(w)

Spec == Init /\ [][Next]_vars

-----------------------------------------------------------------------------

\* Which documents may refer to which.
MayRefer(x, y) ==
  \/ x \in Courses /\ y \in Users
  \/ x \in Groups /\ y \in Courses \cup Users
  \/ x \in Lessons /\ y \in Courses \cup Groups \cup Rooms \cup Users
  \/ x \in Marks /\ y \in Lessons
  \/ x \in Bills /\ y \in Courses \cup Groups

Fields == {"state"} \cup Links \cup {"teachers", "fit"}

Documents ==
  [state : {"unused", "live", "deleted"}, course : Courses \cup {None},
   group : Groups \cup {None}, room : Rooms \cup {None},
   lesson : Lessons \cup {None}, teachers : SUBSET Users, fit : BOOLEAN]

\* Values for some of the fields of a document, or for all.
IsPatch(set) ==
  /\ DOMAIN set \subseteq Fields
  /\ set = [f \in DOMAIN set |-> set[f]]
  /\ \E d \in Documents : \A f \in DOMAIN set : set[f] = d[f]

IsRequest(r) ==
  /\ r = [op |-> r.op, id |-> r.id, set |-> r.set, since |-> r.since]
  /\ r.id \in Ids /\ IsPatch(r.set) /\ r.since \subseteq Ids
  /\ \A y \in Refs(r.set) : MayRefer(r.id, y)
  /\ \/ r.op = "insert" /\ r.set \in Documents /\ r.set.state = "live" /\ r.id \notin Users
     \/ r.op = "delete" /\ r.set = Document("deleted", FALSE)
     \/ r.op = "save" /\ "state" \notin DOMAIN r.set
     \/ r.op = "put" /\ r.set = [fit |-> FALSE] /\ r.id \in Users

TypeOK ==
  /\ docs \in [Ids -> Documents]
  /\ \A x \in Ids : \A y \in Refs(docs[x]) : MayRefer(x, y)
  /\ excused \subseteq SUBSET Ids
  /\ request = [w \in Workers |-> request[w]]
  /\ \A w \in Workers : request[w] = Idle \/ IsRequest(request[w])

Checked == Ids \ Bills

\* With one request at a time no reference of a course, group, lesson or
\* attendance record ever dangles.  Payments are not included.
RefsLive == \A x \in Checked : Live(x) => \A y \in Refs(docs[x]) : Live(y)

\* No course, group, room, lesson or user disappears while a document refers
\* to it, whatever was created, moved and deleted before, unless the deletion
\* and the reference were under way at once.
RefsLiveUnlessRaced ==
  \A x \in Checked : Live(x) =>
    \A y \in Refs(docs[x]) : Live(y) \/ {x, y} \in excused

\* Whoever a course, group or lesson names as its teacher has that role,
\* unless it was taken from him by the general PUT of a user, or while the
\* document was being written.
TeachersTeach ==
  \A x \in Checked : Live(x) =>
    \A t \in docs[x].teachers : docs[t].fit \/ {x, t} \in excused

Withdraws(r) ==
  r.op = "delete" \/ (r.op = "save" /\ r.id \in Users /\ ~r.set.fit)

\* The inductive form: what a write refers to is there and fit, and what a
\* deletion takes away nobody refers to, but for what was written since.
CatalogInv ==
  /\ TypeOK
  /\ RefsLiveUnlessRaced
  /\ TeachersTeach
  /\ \A w \in Workers : request[w] # Idle =>
       LET r == request[w] IN
       /\ r.id \in Checked =>
            \A y \in Refs(r.set) \ r.since : Live(y) /\ (y \in Users => docs[y].fit)
       /\ Withdraws(r) => Referrers(Checked, r.id) \subseteq r.since

\* 'Course cannot be deleted while dependent groups, schedule entries, or
\* payments exist' (CoursesService.remove): a course with a payment stays.
PaidCoursesStay ==
  [][\A c \in Courses : Live(c) /\ Referrers(Bills, c) # {} => Live(c)']_vars
=============================================================================
