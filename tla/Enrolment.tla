------------------------------- MODULE Enrolment -------------------------------
(***************************************************************************)
(* Who is enrolled where: the standing of the students, the rosters of a   *)
(* course, its groups and its lessons, and the attendance, homework and    *)
(* grades of the students.  Rosters are lists that only the requests below *)
(* change; nothing carries a change from one to another, nor from or to    *)
(* the courseIds and groupIds of a student.                                *)
(*                                                                         *)
(* A request checks in one database call and writes in another.  That what *)
(* it names exists is in Catalog, who may make it in Scopes.               *)
(***************************************************************************)
EXTENDS Naturals, FiniteSets

CONSTANTS
  Students,
  Groups,   \* of one course
  Lessons,  \* of that course
  Workers,  \* requests in flight at the same time
  Keep,     \* a field the body leaves out
  None      \* no group

\* They are neither groups nor lessons.
ASSUME MarksAssumption ==
  /\ Keep \notin Groups \cup {None}
  /\ None \notin Groups \cup [group : Groups \cup {None}, students : SUBSET Students]

VARIABLES
  standing,  \* isActive and status of each student
  course,    \* how often each student is in the students of the course
  group,     \* the students of each group
  lesson,    \* group and students of each lesson, None before its creation
  work,      \* the last mark, homework and grade of each student
  request,   \* what each worker is about to write
  doubled,   \* students two overlapping requests have added
  reinstated, \* students made active by a PATCH that left them archived or the like
  dropped    \* lessons with a student whom a roster has dropped since

vars == <<standing, reinstated, course, group, lesson, work, request, doubled, dropped>>

-----------------------------------------------------------------------------

Over == {"inactive", "archived", "deleted"}
Statuses == {"active"} \cup Over

Standing(active, status) == [isActive |-> active, status |-> status]

Kinds == {"attendance", "homework", "grade"}

Marks == {"present", "absent"}
Scores == {"low", "high"}

Idle == [op |-> "idle"]

Init ==
  /\ standing = [s \in Students |-> Standing(TRUE, "active")]
  /\ course = [s \in Students |-> 0]
  /\ group = [g \in Groups |-> {}]
  /\ lesson = [l \in Lessons |-> None]
  /\ work = [s \in Students |-> [k \in Kinds |-> "none"]]
  /\ request = [w \in Workers |-> Idle]
  /\ doubled = {} /\ dropped = {} /\ reinstated = {}

OnCourse(c) == {s \in Students : c[s] > 0}

\* The students a lesson of group g may have.
Allowed(c, gs, g) == IF g = None THEN OnCourse(c) ELSE gs[g]

\* Enrolled in the course, or in the group of the lesson.
Enrolled(c, gs, les, l) ==
  OnCourse(c) \cup (IF les[l].group = None THEN {} ELSE gs[les[l].group])

Astray(c, gs, les) ==
  {p \in Lessons \X Students :
     /\ les[p[1]] # None
     /\ p[2] \in les[p[1]].students \ Enrolled(c, gs, les, p[1])}

-----------------------------------------------------------------------------
(* StudentsService *)

\* Mutant: isActive alone is stored.
PayloadAsSent(status, isActive, old) ==
  Standing(IF isActive # Keep THEN isActive
           ELSE IF status # Keep THEN status \notin Over ELSE old.isActive,
           IF status # Keep THEN status ELSE old.status)

\* buildPayload: a status decides isActive, whatever the body says of it;
\* without a status, inactive becomes one and active leaves the stored one.
Payload(status, isActive, old) ==
  IF status # Keep THEN Standing(status \notin Over, status)
  ELSE IF isActive = FALSE THEN Standing(FALSE, "inactive")
  ELSE Standing(IF isActive = Keep THEN old.isActive ELSE TRUE, old.status)

\* Requests that have looked at the student before.
NoteStanding(s) ==
  request' = [v \in Workers |->
    IF request[v].op = "work" /\ request[v].student = s
    THEN [request[v] EXCEPT !.changed = TRUE] ELSE request[v]]

Stands(s, new) ==
  /\ standing' = [standing EXCEPT ![s] = new]
  /\ NoteStanding(s)
  /\ UNCHANGED <<course, group, lesson, work, doubled, dropped>>

\* A PATCH; a POST stores the same for a student nobody knows of yet.
UpdateStudent(s, status, isActive) ==
  /\ Stands(s, Payload(status, isActive, standing[s]))
  /\ reinstated' = IF status # Keep \/ isActive = FALSE THEN reinstated \ {s}
                   ELSE IF isActive = TRUE /\ standing[s].status \in Over
                        THEN reinstated \cup {s} ELSE reinstated

\* The student stays on every roster.
SoftDelete(s) ==
  /\ Stands(s, Standing(FALSE, "archived"))
  /\ reinstated' = reinstated \ {s}

-----------------------------------------------------------------------------
(* CoursesService and GroupsService *)

\* A roster has become another: what that means for lessons stored and for
\* requests that have read it.
Rosters(w, c, gs) ==
  /\ course' = c /\ group' = gs
  /\ dropped' = Astray(c, gs, lesson)
                  \cap (dropped \cup {p \in Lessons \X Students :
                                        p \notin Astray(course, group, lesson)})
  /\ request' = [v \in Workers |->
       IF v = w THEN Idle
       ELSE CASE request[v].op = "add" ->
                   [request[v] EXCEPT !.since = @ \cup {s \in Students : c[s] > course[s]}]
              [] request[v].op = "lesson" ->
                   [request[v] EXCEPT !.since =
                      @ \cup (Allowed(course, group, request[v].group)
                                \ Allowed(c, gs, request[v].group))]
              [] OTHER -> request[v]]
  /\ UNCHANGED <<standing, reinstated, lesson, work>>

\* POST and PATCH of a course or a group: the list is replaced, once each.
SetCourseStudents(w, ss) ==
  /\ request[w] = Idle
  /\ Rosters(w, [s \in Students |-> IF s \in ss THEN 1 ELSE 0], group)
  /\ doubled' = {}

SetGroupStudents(w, g, ss) ==
  /\ request[w] = Idle
  /\ Rosters(w, course, [group EXCEPT ![g] = ss])
  /\ UNCHANGED doubled

\* Mutant: those who are there are added again.
NextIdsAll(ss) == ss

\* Those of ss who are not on the course yet.
NextIds(ss) == ss \ OnCourse(course)

\* addManyStudentsToCourse loads the course ...
AddStudents(w, ss) ==
  /\ request[w] = Idle
  /\ NextIds(ss) # {}
  /\ request' = [request EXCEPT ![w] =
                   [op |-> "add", students |-> NextIds(ss), since |-> {}]]
  /\ UNCHANGED <<standing, reinstated, course, group, lesson, work, doubled, dropped>>

\* ... and its save pushes the new ones, whatever the list is by then.
PushStudents(w) ==
  LET r == request[w] IN
  /\ r.op = "add"
  /\ Rosters(w, [s \in Students |-> IF s \in r.students THEN course[s] + 1 ELSE course[s]],
             group)
  /\ doubled' = doubled \cup (r.students \cap r.since)

-----------------------------------------------------------------------------
(* ScheduleService *)

Planned(l, g, stored, ss) ==
  [op |-> "lesson", lesson |-> l, group |-> g, stored |-> stored, students |-> ss,
   since |-> {}]

\* Without students a lesson takes those of its group.
StudentsOf(ss, g) ==
  IF ss = {} /\ g # None THEN group[g] ELSE ss

\* validateRelationsAndConflicts, as far as students go.
MayHave(ss, g) == ss \subseteq Allowed(course, group, g)

CreateLesson(w, l, g, ss) ==
  /\ request[w] = Idle
  /\ lesson[l] = None
  /\ \A v \in Workers : request[v].op = "lesson" => request[v].lesson # l
  /\ MayHave(StudentsOf(ss, g), g)
  /\ request' = [request EXCEPT ![w] = Planned(l, g, g, StudentsOf(ss, g))]
  /\ UNCHANGED <<standing, reinstated, course, group, lesson, work, doubled, dropped>>

\* An update loads the lesson and puts the body over it; null for the group
\* means none for the check, but is not stored.
LoadLesson(w, l, g, ss) ==
  LET d == lesson[l] IN
  /\ request[w] = Idle
  /\ d # None
  /\ request' = [request EXCEPT ![w] =
       [op |-> "load", lesson |-> l,
        group |-> IF g = Keep THEN d.group ELSE g,
        stored |-> IF g = None THEN Keep ELSE IF g # Keep THEN g
                   ELSE IF d.group = None THEN Keep ELSE d.group,
        students |-> IF ss = Keep THEN d.students ELSE ss]]
  /\ UNCHANGED <<standing, reinstated, course, group, lesson, work, doubled, dropped>>

\* Mutant: the students are thought to have been checked when they came.
CheckLessonNothing(w) ==
  LET r == request[w] IN
  /\ r.op = "load"
  /\ request' = [request EXCEPT ![w] =
                   Planned(r.lesson, r.group, r.stored, StudentsOf(r.students, r.group))]
  /\ UNCHANGED <<standing, reinstated, course, group, lesson, work, doubled, dropped>>

CheckLesson(w) ==
  LET r == request[w]
      ss == StudentsOf(r.students, r.group) IN
  /\ r.op = "load"
  /\ MayHave(ss, r.group)
  /\ request' = [request EXCEPT ![w] = Planned(r.lesson, r.group, r.stored, ss)]
  /\ UNCHANGED <<standing, reinstated, course, group, lesson, work, doubled, dropped>>

WriteLesson(w) ==
  LET r == request[w]
      g == IF r.stored = Keep THEN lesson[r.lesson].group ELSE r.stored IN
  /\ r.op = "lesson"
  /\ lesson' = [lesson EXCEPT ![r.lesson] = [group |-> g, students |-> r.students]]
  /\ dropped' = Astray(course, group, lesson')
                  \cap (dropped \cup ({r.lesson} \X r.since)
                          \cup {p \in Lessons \X Students : p[1] # r.lesson})
  /\ request' = [request EXCEPT ![w] = Idle]
  /\ UNCHANGED <<standing, reinstated, course, group, work, doubled>>

-----------------------------------------------------------------------------
(* AttendanceService, HomeworkService, GradesService *)

\* Mutant: the standing of the student is not looked at.
MayWorkAnyone(s) == TRUE

\* assertActorCanAccessStudent, for an actor who may.
MayWork(s) == standing[s].isActive

OnLesson(l, s) ==
  /\ lesson[l] # None
  /\ s \in lesson[l].students \cup (IF lesson[l].group = None THEN {} ELSE group[lesson[l].group])

\* 'stored': the record is changed, not made.
Enter(w, s, kind, entry, stored) ==
  /\ request[w] = Idle
  /\ MayWork(s)
  /\ stored => work[s][kind] # "none"
  /\ request' = [request EXCEPT ![w] =
       [op |-> "work", student |-> s, kind |-> kind, entry |-> entry, stored |-> stored,
        changed |-> FALSE]]
  /\ UNCHANGED <<standing, reinstated, course, group, lesson, work, doubled, dropped>>

\* Only attendance knows lessons.
MarkAttendance(w, l, s, entry) ==
  OnLesson(l, s) /\ Enter(w, s, "attendance", entry, FALSE)

CreateHomework(w, s) == Enter(w, s, "homework", "open", FALSE)
MarkComplete(w, s) == Enter(w, s, "homework", "done", TRUE)

AddGrade(w, s, score) == Enter(w, s, "grade", score, FALSE)
UpdateGrade(w, s, score) == Enter(w, s, "grade", score, TRUE)
RemoveGrade(w, s) == Enter(w, s, "grade", "none", TRUE)

\* A grade removed since is not found.
WriteWork(w) ==
  LET r == request[w] IN
  /\ r.op = "work"
  /\ r.stored => work[r.student][r.kind] # "none"
  /\ work' = [work EXCEPT ![r.student][r.kind] = r.entry]
  /\ request' = [request EXCEPT ![w] = Idle]
  /\ UNCHANGED <<standing, reinstated, course, group, lesson, doubled, dropped>>

\* Refused, or cut off.
End(w) ==
  /\ request[w] # Idle
  /\ request' = [request EXCEPT ![w] = Idle]
  /\ UNCHANGED <<standing, reinstated, course, group, lesson, work, doubled, dropped>>

-----------------------------------------------------------------------------

Next ==
  \/ \E s \in Students :
       \/ SoftDelete(s)
       \/ \E status \in Statuses \cup {Keep}, isActive \in {TRUE, FALSE, Keep} :
            UpdateStudent(s, status, isActive)
  \/ \E w \in Workers :
       \/ \E ss \in SUBSET Students :
            \/ SetCourseStudents(w, ss) \/ AddStudents(w, ss)
            \/ \E g \in Groups : SetGroupStudents(w, g, ss)
            \/ \E l \in Lessons, g \in Groups \cup {None} : CreateLesson(w, l, g, ss)
       \/ \E l \in Lessons, g \in Groups \cup {None, Keep}, ss \in {Keep} \cup SUBSET Students :
            LoadLesson(w, l, g, ss)
       \/ \E s \in Students :
            \/ \E l \in Lessons, entry \in Marks : MarkAttendance(w, l, s, entry)
            \/ \E score \in Scores : AddGrade(w, s, score) \/ UpdateGrade(w, s, score)
            \/ RemoveGrade(w, s) \/ CreateHomework(w, s) \/ MarkComplete(w, s)
       \/ PushStudents(w) \/ CheckLesson(w) \/ WriteLesson(w) \/ WriteWork(w) \/ End(w)

Spec == Init /\ [][Next]_vars

-----------------------------------------------------------------------------

\* A course lists a student once, unless two requests that add him overlap.
EnrolledOnce == \A s \in Students \ doubled : course[s] <= 1

\* 'All scheduled students must be enrolled in the related course or group':
\* whatever is created, moved to another group and edited at once, a lesson
\* has a student who is not only after a roster has dropped him.
LessonsOfTheEnrolled == Astray(course, group, lesson) \subseteq dropped

\* Whoever is listed as active can be given marks, homework and grades; the
\* converse fails, as an archived student may be made active and stay
\* archived.
ActiveStatusMeansActive ==
  \A s \in Students : standing[s].status = "active" => standing[s].isActive

\* '... cannot be changed for archived students': a mark, homework or grade of
\* one who is archived, inactive or deleted changes only if his standing changed
\* after the check, or if a PATCH has made him active and left that status: the
\* check asks for isActive alone, so the records of an archived student who is
\* active again do change.
ClosedRecordsStay ==
  [][\A s \in Students : work'[s] # work[s] /\ standing[s].status \in Over =>
       \/ s \in reinstated
       \/ \E w \in Workers : request[w].op = "work" /\ request[w].student = s
                             /\ request[w].changed]_vars
=============================================================================
