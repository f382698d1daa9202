---------------------------- MODULE EnrolmentProofs ----------------------------
(***************************************************************************)
(* What holds of Enrolment for any students, groups and lessons and any    *)
(* number of requests.  The properties become inductive once they speak of *)
(* what each request under way has read: what it will write was right then *)
(* and is wrong now only where an excuse has been noted.                   *)
(***************************************************************************)
EXTENDS Enrolment, TLAPS

Rows == SUBSET Students

AddRequests == [op : {"add"}, students : Rows, since : Rows]
LoadRequests == [op : {"load"}, lesson : Lessons, group : Groups \cup {None},
                 stored : Groups \cup {None, Keep}, students : Rows]
LessonRequests == [op : {"lesson"}, lesson : Lessons, group : Groups \cup {None},
                   stored : Groups \cup {None, Keep}, students : Rows, since : Rows]
WorkRequests == [op : {"work"}, student : Students, kind : Kinds,
                 entry : Marks \cup Scores \cup {"open", "done", "none"},
                 stored : BOOLEAN, changed : BOOLEAN]

Requests == {Idle} \cup AddRequests \cup LoadRequests \cup LessonRequests \cup WorkRequests

Types ==
  /\ standing \in [Students -> [isActive : BOOLEAN, status : Statuses]]
  /\ course \in [Students -> Nat]
  /\ group \in [Groups -> Rows]
  /\ lesson \in [Lessons -> {None} \cup [group : Groups \cup {None}, students : Rows]]
  /\ work \in [Students -> [Kinds -> Marks \cup Scores \cup {"open", "done", "none"}]]
  /\ request \in [Workers -> Requests]

\* Who is about to be added is not there yet, unless he was added meanwhile.
AddsNew(r, c) == r.op = "add" => \A s \in r.students \ r.since : c[s] = 0

\* A lesson gets the students of its roster, but for those dropped meanwhile.
PlansEnrolled(r, c, gs) ==
  r.op = "lesson" => r.students \ r.since \subseteq Allowed(c, gs, r.group)

\* The group students were checked against is stored; if none is, it was the
\* course, which is right for any group the lesson may have.
StoresChecked(r, les) ==
  r.op \in {"load", "lesson"} =>
    /\ r.stored = Keep => r.group = None /\ les[r.lesson] # None
    /\ r.stored # Keep => r.stored = r.group

\* Whose record is about to be written is active, or has changed since.
WorksOnActive(r, st) == r.op = "work" => r.changed \/ st[r.student].isActive

RequestsInv ==
  \A w \in Workers :
    /\ AddsNew(request[w], course)
    /\ PlansEnrolled(request[w], course, group)
    /\ StoresChecked(request[w], lesson)
    /\ WorksOnActive(request[w], standing)

EnrolmentInv ==
  /\ Types /\ RequestsInv
  /\ EnrolledOnce /\ LessonsOfTheEnrolled /\ ActiveStatusMeansActive

-----------------------------------------------------------------------------
(* Requests *)

\* The operation tells what kind of record a request is.
LEMMA KindOfRequest ==
  ASSUME NEW r \in Requests
  PROVE  /\ r.op = "add" => r \in AddRequests
         /\ r.op = "load" => r \in LoadRequests
         /\ r.op = "lesson" => r \in LessonRequests
         /\ r.op = "work" => r \in WorkRequests
BY DEF Requests, Idle, AddRequests, LoadRequests, LessonRequests, WorkRequests

LEMMA IdleIsSound ==
  /\ Idle \in Requests
  /\ AddsNew(Idle, course') /\ PlansEnrolled(Idle, course', group')
  /\ StoresChecked(Idle, lesson') /\ WorksOnActive(Idle, standing')
BY DEF Requests, Idle, AddsNew, PlansEnrolled, StoresChecked, WorksOnActive

LEMMA AddNoted ==
  ASSUME NEW r \in AddRequests, NEW X \in Rows
  PROVE  LET n == [r EXCEPT !.since = @ \cup X] IN
         /\ n \in AddRequests
         /\ n.op = "add" /\ n.students = r.students /\ n.since = r.since \cup X
BY DEF AddRequests, Rows

LEMMA LessonNoted ==
  ASSUME NEW r \in LessonRequests, NEW X \in Rows
  PROVE  LET n == [r EXCEPT !.since = @ \cup X] IN
         /\ n \in LessonRequests
         /\ n.op = "lesson" /\ n.students = r.students /\ n.since = r.since \cup X
         /\ n.group = r.group /\ n.stored = r.stored /\ n.lesson = r.lesson
BY DEF LessonRequests, Rows

LEMMA WorkNoted ==
  ASSUME NEW r \in WorkRequests
  PROVE  LET n == [r EXCEPT !.changed = TRUE] IN
         n \in WorkRequests /\ n.op = "work" /\ n.student = r.student /\ n.changed
BY DEF WorkRequests

\* One request moves on and nothing else does.
LEMMA OneRequestMoves ==
  ASSUME EnrolmentInv, NEW w \in Workers, NEW r \in Requests,
         request' = [request EXCEPT ![w] = r],
         UNCHANGED <<standing, reinstated, course, group, lesson, work, doubled, dropped>>,
         AddsNew(r, course), PlansEnrolled(r, course, group), StoresChecked(r, lesson),
         WorksOnActive(r, standing)
  PROVE  EnrolmentInv'
<1>1. Types'
  BY DEF EnrolmentInv, Types
<1>2. \A v \in Workers : request'[v] = IF v = w THEN r ELSE request[v]
  BY DEF EnrolmentInv, Types
<1>3. RequestsInv'
  BY <1>2 DEF EnrolmentInv, RequestsInv
<1>4. (EnrolledOnce /\ LessonsOfTheEnrolled /\ ActiveStatusMeansActive)'
  BY DEF EnrolmentInv, EnrolledOnce, LessonsOfTheEnrolled, ActiveStatusMeansActive
<1> QED
  BY <1>1, <1>3, <1>4 DEF EnrolmentInv

-----------------------------------------------------------------------------
(* StudentsService *)

LEMMA PayloadIsSound ==
  ASSUME NEW status \in Statuses \cup {Keep}, NEW isActive \in {TRUE, FALSE, Keep},
         NEW old \in [isActive : BOOLEAN, status : Statuses],
         old.status = "active" => old.isActive
  PROVE  LET new == Payload(status, isActive, old) IN
         /\ new \in [isActive : BOOLEAN, status : Statuses]
         /\ new.status = "active" => new.isActive
<1>1. CASE status # Keep
  BY <1>1 DEF Payload, Standing, Statuses, Over
<1>2. CASE status = Keep /\ isActive = FALSE
  BY <1>2 DEF Payload, Standing, Statuses, Over
<1>3. CASE status = Keep /\ isActive # FALSE /\ isActive = Keep
  BY <1>3 DEF Payload, Standing, Statuses, Over
<1>4. CASE status = Keep /\ isActive # FALSE /\ isActive # Keep
  BY <1>4 DEF Payload, Standing, Statuses, Over
<1> QED
  BY <1>1, <1>2, <1>3, <1>4

LEMMA StandsKeepsInv ==
  ASSUME EnrolmentInv, NEW s \in Students,
         NEW new \in [isActive : BOOLEAN, status : Statuses],
         new.status = "active" => new.isActive, Stands(s, new)
  PROVE  EnrolmentInv'
<1>1. /\ standing' = [standing EXCEPT ![s] = new]
      /\ UNCHANGED <<course, group, lesson, work, doubled, dropped>>
  BY DEF Stands
<1>2. \A t \in Students : standing'[t] = IF t = s THEN new ELSE standing[t]
  BY <1>1 DEF EnrolmentInv, Types
<1>3. \A v \in Workers :
        /\ request'[v] \in Requests
        /\ AddsNew(request'[v], course) /\ PlansEnrolled(request'[v], course, group)
        /\ StoresChecked(request'[v], lesson) /\ WorksOnActive(request'[v], standing')
  <2> SUFFICES ASSUME NEW v \in Workers
      PROVE  /\ request'[v] \in Requests
             /\ AddsNew(request'[v], course) /\ PlansEnrolled(request'[v], course, group)
             /\ StoresChecked(request'[v], lesson) /\ WorksOnActive(request'[v], standing')
    OBVIOUS
  <2>0. request[v] \in Requests
    BY DEF EnrolmentInv, Types
  <2>1. CASE request[v].op = "work" /\ request[v].student = s
    <3> DEFINE n == [request[v] EXCEPT !.changed = TRUE]
    <3>1. request'[v] = n
      BY <2>1 DEF Stands, NoteStanding
    <3>2. n \in WorkRequests /\ n.op = "work" /\ n.changed
      BY <2>0, <2>1, KindOfRequest, WorkNoted
    <3> HIDE DEF n
    <3> QED
      BY <3>1, <3>2 DEF Requests, AddsNew, PlansEnrolled, StoresChecked, WorksOnActive
  <2>2. CASE ~ (request[v].op = "work" /\ request[v].student = s)
    <3>1. request'[v] = request[v]
      BY <2>2 DEF Stands, NoteStanding
    <3>2. request[v].op = "work" => request[v].student \in Students
      BY <2>0, KindOfRequest DEF WorkRequests
    <3>3. WorksOnActive(request[v], standing')
      BY <1>2, <2>2, <3>2 DEF EnrolmentInv, RequestsInv, WorksOnActive
    <3> QED
      BY <2>0, <3>1, <3>3 DEF EnrolmentInv, RequestsInv
  <2> QED
    BY <2>1, <2>2
<1>4. request' \in [Workers -> Requests]
  BY <1>3 DEF Stands, NoteStanding
<1>5. Types'
  BY <1>1, <1>4 DEF EnrolmentInv, Types
<1>6. RequestsInv'
  BY <1>1, <1>3 DEF RequestsInv
<1>7. ActiveStatusMeansActive'
  BY <1>2 DEF EnrolmentInv, ActiveStatusMeansActive
<1>8. (EnrolledOnce /\ LessonsOfTheEnrolled)'
  BY <1>1 DEF EnrolmentInv, EnrolledOnce, LessonsOfTheEnrolled
<1> QED
  BY <1>5, <1>6, <1>7, <1>8 DEF EnrolmentInv

LEMMA StudentSteps ==
  ASSUME EnrolmentInv, NEW s \in Students,
         \/ SoftDelete(s)
         \/ \E status \in Statuses \cup {Keep}, isActive \in {TRUE, FALSE, Keep} :
              UpdateStudent(s, status, isActive)
  PROVE  EnrolmentInv'
<1>1. CASE SoftDelete(s)
  <2> DEFINE new == Standing(FALSE, "archived")
  <2>1. new \in [isActive : BOOLEAN, status : Statuses] /\ new.status # "active"
    BY DEF Standing, Statuses, Over
  <2>2. Stands(s, new)
    BY <1>1 DEF SoftDelete
  <2> HIDE DEF new
  <2> QED
    BY <2>1, <2>2, StandsKeepsInv
<1>2. CASE \E status \in Statuses \cup {Keep}, isActive \in {TRUE, FALSE, Keep} :
             UpdateStudent(s, status, isActive)
  <2>1. PICK status \in Statuses \cup {Keep}, isActive \in {TRUE, FALSE, Keep} :
          Stands(s, Payload(status, isActive, standing[s]))
    BY <1>2 DEF UpdateStudent
  <2> DEFINE new == Payload(status, isActive, standing[s])
  <2>2. /\ standing[s] \in [isActive : BOOLEAN, status : Statuses]
        /\ standing[s].status = "active" => standing[s].isActive
    BY DEF EnrolmentInv, Types, ActiveStatusMeansActive
  <2>3. new \in [isActive : BOOLEAN, status : Statuses] /\ (new.status = "active" => new.isActive)
    BY <2>2, PayloadIsSound
  <2> HIDE DEF new
  <2>4. Stands(s, new)
    BY <2>1 DEF new
  <2> QED
    BY <2>3, <2>4, StandsKeepsInv
<1> QED
  BY <1>1, <1>2

-----------------------------------------------------------------------------
(* CoursesService and GroupsService *)

LEMMA AllowedAreRows ==
  ASSUME NEW c, NEW gs \in [Groups -> Rows], NEW g \in Groups \cup {None}
  PROVE  Allowed(c, gs, g) \in Rows
BY DEF Allowed, OnCourse, Rows

\* What a change of rosters does to the requests under way.
LEMMA RostersKeepRequests ==
  ASSUME EnrolmentInv, NEW w \in Workers, NEW c \in [Students -> Nat],
         NEW gs \in [Groups -> Rows], Rosters(w, c, gs)
  PROVE  request' \in [Workers -> Requests] /\ RequestsInv'
<1>1. course' = c /\ group' = gs /\ UNCHANGED <<standing, reinstated, lesson>>
  BY DEF Rosters
<1>2. \A v \in Workers :
        /\ request'[v] \in Requests
        /\ AddsNew(request'[v], c) /\ PlansEnrolled(request'[v], c, gs)
        /\ StoresChecked(request'[v], lesson) /\ WorksOnActive(request'[v], standing)
  <2> SUFFICES ASSUME NEW v \in Workers
      PROVE  /\ request'[v] \in Requests
             /\ AddsNew(request'[v], c) /\ PlansEnrolled(request'[v], c, gs)
             /\ StoresChecked(request'[v], lesson) /\ WorksOnActive(request'[v], standing)
    OBVIOUS
  <2>0. /\ request[v] \in Requests
        /\ AddsNew(request[v], course) /\ PlansEnrolled(request[v], course, group)
        /\ StoresChecked(request[v], lesson) /\ WorksOnActive(request[v], standing)
    BY DEF EnrolmentInv, Types, RequestsInv
  <2>1. CASE v = w
    <3>1. request'[v] = Idle
      BY <2>1 DEF Rosters
    <3> QED
      BY <1>1, <3>1, IdleIsSound
  <2>2. CASE v # w /\ request[v].op = "add"
    <3> DEFINE X == {s \in Students : c[s] > course[s]}
               n == [request[v] EXCEPT !.since = @ \cup X]
    <3>1. request'[v] = n
      BY <2>2 DEF Rosters
    <3>2. request[v] \in AddRequests /\ X \in Rows
      BY <2>0, <2>2, KindOfRequest DEF Rows
    <3>3. /\ n \in AddRequests /\ n.op = "add"
          /\ n.students = request[v].students /\ n.since = request[v].since \cup X
      BY <3>2, AddNoted
    <3> HIDE DEF n
    <3>4. \A s \in n.students \ n.since : c[s] = 0
      <4> SUFFICES ASSUME NEW s \in n.students, s \notin n.since PROVE c[s] = 0
        OBVIOUS
      <4>1. s \in Students /\ ~ (c[s] > course[s]) /\ course[s] = 0
        BY <2>0, <2>2, <3>2, <3>3 DEF AddRequests, Rows, AddsNew
      <4> QED
        BY <4>1
    <3> QED
      BY <3>1, <3>3, <3>4 DEF Requests, AddsNew, PlansEnrolled, StoresChecked, WorksOnActive
  <2>3. CASE v # w /\ request[v].op = "lesson"
    <3> DEFINE X == Allowed(course, group, request[v].group) \ Allowed(c, gs, request[v].group)
               n == [request[v] EXCEPT !.since = @ \cup X]
    <3>1. request'[v] = n
      BY <2>3 DEF Rosters
    <3>2. request[v] \in LessonRequests
      BY <2>0, <2>3, KindOfRequest
    <3>3. request[v].group \in Groups \cup {None} /\ group \in [Groups -> Rows]
      BY <3>2 DEF LessonRequests, EnrolmentInv, Types
    <3>4. X \in Rows
      BY <3>3, AllowedAreRows DEF Rows
    <3>5. /\ n \in LessonRequests /\ n.op = "lesson" /\ n.group = request[v].group
          /\ n.students = request[v].students /\ n.since = request[v].since \cup X
          /\ n.stored = request[v].stored /\ n.lesson = request[v].lesson
      BY <3>2, <3>4, LessonNoted
    <3> HIDE DEF n
    <3>6. PlansEnrolled(n, c, gs)
      BY <2>0, <2>3, <3>5 DEF PlansEnrolled
    <3>7. StoresChecked(n, lesson)
      BY <2>0, <2>3, <3>5 DEF StoresChecked
    <3> QED
      BY <3>1, <3>5, <3>6, <3>7 DEF Requests, AddsNew, WorksOnActive
  <2>4. CASE v # w /\ request[v].op # "add" /\ request[v].op # "lesson"
    <3>1. request'[v] = request[v]
      BY <2>4 DEF Rosters
    <3> QED
      BY <2>0, <2>4, <3>1 DEF AddsNew, PlansEnrolled
  <2> QED
    BY <2>1, <2>2, <2>3, <2>4
<1>3. request' \in [Workers -> Requests]
  BY <1>2 DEF Rosters
<1> QED
  BY <1>1, <1>2, <1>3 DEF RequestsInv

LEMMA RostersKeepInv ==
  ASSUME EnrolmentInv, NEW w \in Workers, NEW c \in [Students -> Nat],
         NEW gs \in [Groups -> Rows], Rosters(w, c, gs), EnrolledOnce'
  PROVE  EnrolmentInv'
<1>1. Types'
  <2>1. request' \in [Workers -> Requests]
    BY RostersKeepRequests
  <2>2. course' = c /\ group' = gs /\ UNCHANGED <<standing, reinstated, lesson, work>>
    BY DEF Rosters
  <2> QED
    BY <2>1, <2>2 DEF EnrolmentInv, Types
<1>2. LessonsOfTheEnrolled'
  <2>1. Astray(c, gs, lesson) \subseteq Lessons \X Students
    BY DEF Astray
  <2> QED
    BY <2>1 DEF Rosters, EnrolmentInv, LessonsOfTheEnrolled
<1>3. ActiveStatusMeansActive'
  BY DEF Rosters, EnrolmentInv, ActiveStatusMeansActive
<1> QED
  BY <1>1, <1>2, <1>3, RostersKeepRequests DEF EnrolmentInv

LEMMA RosterSteps ==
  ASSUME EnrolmentInv, NEW w \in Workers, NEW ss \in Rows,
         SetCourseStudents(w, ss) \/ \E g \in Groups : SetGroupStudents(w, g, ss)
  PROVE  EnrolmentInv'
<1>1. CASE SetCourseStudents(w, ss)
  <2> DEFINE c == [s \in Students |-> IF s \in ss THEN 1 ELSE 0]
  <2>1. c \in [Students -> Nat] /\ \A s \in Students : c[s] <= 1
    OBVIOUS
  <2>2. Rosters(w, c, group) /\ group \in [Groups -> Rows]
    BY <1>1 DEF SetCourseStudents, EnrolmentInv, Types
  <2> HIDE DEF c
  <2>3. EnrolledOnce'
    BY <2>1, <2>2 DEF Rosters, EnrolledOnce
  <2> QED
    BY <2>1, <2>2, <2>3, RostersKeepInv
<1>2. CASE \E g \in Groups : SetGroupStudents(w, g, ss)
  <2>1. PICK g \in Groups : SetGroupStudents(w, g, ss)
    BY <1>2
  <2> DEFINE gs == [group EXCEPT ![g] = ss]
  <2>2. gs \in [Groups -> Rows] /\ course \in [Students -> Nat]
    BY DEF EnrolmentInv, Types
  <2>3. Rosters(w, course, gs) /\ UNCHANGED doubled
    BY <2>1 DEF SetGroupStudents
  <2> HIDE DEF gs
  <2>4. EnrolledOnce'
    BY <2>3 DEF Rosters, EnrolmentInv, EnrolledOnce
  <2> QED
    BY <2>2, <2>3, <2>4, RostersKeepInv
<1> QED
  BY <1>1, <1>2

LEMMA AddSteps ==
  ASSUME EnrolmentInv, NEW w \in Workers, NEW ss \in Rows, AddStudents(w, ss)
  PROVE  EnrolmentInv'
<1> DEFINE r == [op |-> "add", students |-> NextIds(ss), since |-> {}]
<1>1. /\ request' = [request EXCEPT ![w] = r]
      /\ UNCHANGED <<standing, reinstated, course, group, lesson, work, doubled, dropped>>
  BY DEF AddStudents
<1>2. r \in AddRequests
  BY DEF AddRequests, NextIds, Rows
<1>3. \A s \in NextIds(ss) : course[s] = 0
  BY DEF NextIds, OnCourse, Rows, EnrolmentInv, Types
<1>4. /\ r \in Requests /\ AddsNew(r, course) /\ PlansEnrolled(r, course, group)
      /\ StoresChecked(r, lesson) /\ WorksOnActive(r, standing)
  BY <1>2, <1>3 DEF Requests, AddsNew, PlansEnrolled, StoresChecked, WorksOnActive
<1> HIDE DEF r
<1> QED
  BY <1>1, <1>4, OneRequestMoves

LEMMA PushSteps ==
  ASSUME EnrolmentInv, NEW w \in Workers, PushStudents(w)
  PROVE  EnrolmentInv'
<1> DEFINE r == request[w]
           c == [s \in Students |-> IF s \in r.students THEN course[s] + 1 ELSE course[s]]
<1>1. /\ r.op = "add" /\ Rosters(w, c, group)
      /\ doubled' = doubled \cup (r.students \cap r.since)
  BY DEF PushStudents
<1>2. course \in [Students -> Nat] /\ group \in [Groups -> Rows] /\ c \in [Students -> Nat]
  BY DEF EnrolmentInv, Types
<1>3. \A s \in r.students \ r.since : course[s] = 0
  BY <1>1 DEF EnrolmentInv, RequestsInv, AddsNew
<1>4. ASSUME NEW s \in Students \ doubled' PROVE c[s] <= 1
  <2>1. CASE s \in r.students
    BY <1>1, <1>3, <2>1
  <2>2. CASE s \notin r.students
    BY <1>1, <2>2 DEF EnrolmentInv, EnrolledOnce
  <2> QED
    BY <2>1, <2>2
<1>5. EnrolledOnce'
  BY <1>1, <1>4 DEF Rosters, EnrolledOnce
<1> HIDE DEF c
<1> QED
  BY <1>1, <1>2, <1>5, RostersKeepInv

-----------------------------------------------------------------------------
(* ScheduleService *)

\* Whatever a lesson is planned with has been checked.
LEMMA PlannedIsSound ==
  ASSUME EnrolmentInv, NEW l \in Lessons, NEW g \in Groups \cup {None},
         NEW stored \in Groups \cup {None, Keep}, NEW ss \in Rows, MayHave(ss, g),
         stored = Keep => g = None /\ lesson[l] # None, stored # Keep => stored = g
  PROVE  LET r == Planned(l, g, stored, ss) IN
         /\ r \in Requests /\ AddsNew(r, course) /\ PlansEnrolled(r, course, group)
         /\ StoresChecked(r, lesson) /\ WorksOnActive(r, standing)
BY DEF Planned, MayHave, Requests, LessonRequests, Rows, AddsNew, PlansEnrolled, StoresChecked,
       WorksOnActive

LEMMA StudentsOfAreRows ==
  ASSUME EnrolmentInv, NEW ss \in Rows, NEW g \in Groups \cup {None}
  PROVE  StudentsOf(ss, g) \in Rows
BY DEF StudentsOf, EnrolmentInv, Types

LEMMA CreateSteps ==
  ASSUME EnrolmentInv, NEW w \in Workers, NEW l \in Lessons, NEW g \in Groups \cup {None},
         NEW ss \in Rows, CreateLesson(w, l, g, ss)
  PROVE  EnrolmentInv'
<1> DEFINE r == Planned(l, g, g, StudentsOf(ss, g))
<1>1. /\ request' = [request EXCEPT ![w] = r]
      /\ UNCHANGED <<standing, reinstated, course, group, lesson, work, doubled, dropped>>
      /\ MayHave(StudentsOf(ss, g), g)
  BY DEF CreateLesson
<1>2. g # Keep
  BY MarksAssumption
<1>3. /\ r \in Requests /\ AddsNew(r, course) /\ PlansEnrolled(r, course, group)
      /\ StoresChecked(r, lesson) /\ WorksOnActive(r, standing)
  BY <1>1, <1>2, StudentsOfAreRows, PlannedIsSound
<1> HIDE DEF r
<1> QED
  BY <1>1, <1>3, OneRequestMoves

LEMMA LoadSteps ==
  ASSUME EnrolmentInv, NEW w \in Workers, NEW l \in Lessons,
         NEW g \in Groups \cup {None, Keep}, NEW ss \in {Keep} \cup Rows, LoadLesson(w, l, g, ss)
  PROVE  EnrolmentInv'
<1> DEFINE d == lesson[l]
           og == IF g = Keep THEN d.group ELSE g
           os == IF g = None THEN Keep ELSE IF g # Keep THEN g
                 ELSE IF d.group = None THEN Keep ELSE d.group
           ot == IF ss = Keep THEN d.students ELSE ss
           r == [op |-> "load", lesson |-> l, group |-> og, stored |-> os, students |-> ot]
<1>1. /\ request' = [request EXCEPT ![w] = r]
      /\ UNCHANGED <<standing, reinstated, course, group, lesson, work, doubled, dropped>>
  BY DEF LoadLesson
<1>2. d.group \in Groups \cup {None} /\ d.students \in Rows /\ lesson[l] # None
  <2>1. d # None
    BY DEF LoadLesson
  <2>2. lesson[l] \in {None} \cup [group : Groups \cup {None}, students : Rows]
    BY DEF EnrolmentInv, Types
  <2> QED
    BY <2>1, <2>2
<1> HIDE DEF d
<1>3. /\ og \in Groups \cup {None} /\ os \in Groups \cup {None, Keep} /\ ot \in Rows
      /\ os = Keep => og = None /\ lesson[l] # None
      /\ os # Keep => os = og
  BY <1>2, MarksAssumption
<1> HIDE DEF og, os, ot
<1>4. r \in LoadRequests
  BY <1>3 DEF LoadRequests
<1>5. /\ r \in Requests /\ AddsNew(r, course) /\ PlansEnrolled(r, course, group)
      /\ StoresChecked(r, lesson) /\ WorksOnActive(r, standing)
  BY <1>3, <1>4 DEF Requests, AddsNew, PlansEnrolled, StoresChecked, WorksOnActive
<1> HIDE DEF r
<1> QED
  BY <1>1, <1>5, OneRequestMoves

LEMMA CheckSteps ==
  ASSUME EnrolmentInv, NEW w \in Workers, CheckLesson(w)
  PROVE  EnrolmentInv'
<1> DEFINE q == request[w]
           ss == StudentsOf(q.students, q.group)
           r == Planned(q.lesson, q.group, q.stored, ss)
<1>1. /\ q.op = "load" /\ MayHave(ss, q.group)
      /\ request' = [request EXCEPT ![w] = r]
      /\ UNCHANGED <<standing, reinstated, course, group, lesson, work, doubled, dropped>>
  BY DEF CheckLesson
<1>2. q \in LoadRequests /\ StoresChecked(q, lesson)
  BY <1>1, KindOfRequest DEF EnrolmentInv, Types, RequestsInv
<1>3. /\ q.lesson \in Lessons /\ q.group \in Groups \cup {None}
      /\ q.stored \in Groups \cup {None, Keep} /\ q.students \in Rows
      /\ q.stored = Keep => q.group = None /\ lesson[q.lesson] # None
      /\ q.stored # Keep => q.stored = q.group
  BY <1>1, <1>2 DEF LoadRequests, StoresChecked
<1>4. ss \in Rows
  BY <1>3, StudentsOfAreRows
<1> HIDE DEF q, ss
<1>5. /\ r \in Requests /\ AddsNew(r, course) /\ PlansEnrolled(r, course, group)
      /\ StoresChecked(r, lesson) /\ WorksOnActive(r, standing)
  BY <1>1, <1>3, <1>4, PlannedIsSound
<1> HIDE DEF r
<1> QED
  BY <1>1, <1>5, OneRequestMoves

LEMMA WriteLessonSteps ==
  ASSUME EnrolmentInv, NEW w \in Workers, WriteLesson(w)
  PROVE  EnrolmentInv'
<1> DEFINE r == request[w]
           g == IF r.stored = Keep THEN lesson[r.lesson].group ELSE r.stored
           d == [group |-> g, students |-> r.students]
<1>1. /\ r.op = "lesson"
      /\ lesson' = [lesson EXCEPT ![r.lesson] = d]
      /\ dropped' = Astray(course, group, lesson')
                      \cap (dropped \cup ({r.lesson} \X r.since)
                              \cup {p \in Lessons \X Students : p[1] # r.lesson})
      /\ request' = [request EXCEPT ![w] = Idle]
      /\ UNCHANGED <<standing, reinstated, course, group, work, doubled>>
  BY DEF WriteLesson
<1>2. r \in LessonRequests /\ StoresChecked(r, lesson) /\ PlansEnrolled(r, course, group)
  BY <1>1, KindOfRequest DEF EnrolmentInv, Types, RequestsInv
<1>3. /\ r.lesson \in Lessons /\ r.group \in Groups \cup {None} /\ r.students \in Rows
      /\ r.stored \in Groups \cup {None, Keep}
      /\ r.stored = Keep => r.group = None /\ lesson[r.lesson] # None
      /\ r.stored # Keep => r.stored = r.group
      /\ r.students \ r.since \subseteq Allowed(course, group, r.group)
  BY <1>1, <1>2 DEF LessonRequests, StoresChecked, PlansEnrolled
<1>4. lesson'[r.lesson].group = g /\ lesson'[r.lesson].students = r.students
  BY <1>1, <1>3 DEF EnrolmentInv, Types
<1>5. Allowed(course, group, r.group) \subseteq Enrolled(course, group, lesson', r.lesson)
  BY <1>3, <1>4 DEF Allowed, Enrolled
<1>6. LessonsOfTheEnrolled'
  <2> SUFFICES ASSUME NEW p \in Astray(course, group, lesson') PROVE p \in dropped'
    BY <1>1 DEF LessonsOfTheEnrolled
  <2>1. p \in Lessons \X Students /\ p = <<p[1], p[2]>>
        /\ p[2] \in lesson'[p[1]].students \ Enrolled(course, group, lesson', p[1])
    BY DEF Astray
  <2>2. CASE p[1] = r.lesson
    <3>1. p[2] \in r.since
      BY <1>3, <1>4, <1>5, <2>1, <2>2
    <3>2. p \in {r.lesson} \X r.since
      BY <2>1, <2>2, <3>1
    <3> QED
      BY <1>1, <3>2
  <2>3. CASE p[1] # r.lesson
    BY <1>1, <2>1, <2>3
  <2> QED
    BY <2>2, <2>3
<1>7. g \in Groups \cup {None}
  <2>1. lesson[r.lesson] \in {None} \cup [group : Groups \cup {None}, students : Rows]
    BY <1>3 DEF EnrolmentInv, Types
  <2> QED
    BY <1>3, <2>1
<1>8. lesson' \in [Lessons -> {None} \cup [group : Groups \cup {None}, students : Rows]]
  BY <1>1, <1>3, <1>7 DEF EnrolmentInv, Types
<1>9. \A l \in Lessons : lesson[l] # None => lesson'[l] # None
  BY <1>1, <1>3, <1>7, MarksAssumption DEF EnrolmentInv, Types, Rows
<1>10. request' \in [Workers -> Requests] /\ RequestsInv'
  <2>1. request' \in [Workers -> Requests]
    BY <1>1, IdleIsSound DEF EnrolmentInv, Types
  <2>2. \A v \in Workers : request'[v] = IF v = w THEN Idle ELSE request[v]
    BY <1>1 DEF EnrolmentInv, Types
  <2>3. \A v \in Workers : StoresChecked(request[v], lesson')
    <3> SUFFICES ASSUME NEW v \in Workers, request[v].op \in {"load", "lesson"}
        PROVE  StoresChecked(request[v], lesson')
      BY DEF StoresChecked
    <3>1. request[v].lesson \in Lessons
      BY KindOfRequest DEF EnrolmentInv, Types, LoadRequests, LessonRequests
    <3>2. StoresChecked(request[v], lesson)
      BY DEF EnrolmentInv, RequestsInv
    <3> QED
      BY <1>9, <3>1, <3>2 DEF StoresChecked
  <2> QED
    BY <1>1, <2>1, <2>2, <2>3, IdleIsSound DEF EnrolmentInv, RequestsInv
<1>11. Types'
  BY <1>1, <1>8, <1>10 DEF EnrolmentInv, Types
<1>12. (EnrolledOnce /\ ActiveStatusMeansActive)'
  BY <1>1 DEF EnrolmentInv, EnrolledOnce, ActiveStatusMeansActive
<1> QED
  BY <1>6, <1>10, <1>11, <1>12 DEF EnrolmentInv

-----------------------------------------------------------------------------
(* AttendanceService, HomeworkService, GradesService *)

LEMMA EnterSteps ==
  ASSUME EnrolmentInv, NEW w \in Workers, NEW s \in Students, NEW kind \in Kinds,
         NEW entry \in Marks \cup Scores \cup {"open", "done", "none"},
         NEW stored \in BOOLEAN, Enter(w, s, kind, entry, stored)
  PROVE  EnrolmentInv'
<1> DEFINE r == [op |-> "work", student |-> s, kind |-> kind, entry |-> entry,
                 stored |-> stored, changed |-> FALSE]
<1>1. /\ request' = [request EXCEPT ![w] = r] /\ standing[s].isActive
      /\ UNCHANGED <<standing, reinstated, course, group, lesson, work, doubled, dropped>>
  BY DEF Enter, MayWork
<1>2. r \in WorkRequests
  BY DEF WorkRequests
<1>3. /\ r \in Requests /\ AddsNew(r, course) /\ PlansEnrolled(r, course, group)
      /\ StoresChecked(r, lesson) /\ WorksOnActive(r, standing)
  BY <1>1, <1>2 DEF Requests, AddsNew, PlansEnrolled, StoresChecked, WorksOnActive
<1> HIDE DEF r
<1> QED
  BY <1>1, <1>3, OneRequestMoves

LEMMA WorkSteps ==
  ASSUME EnrolmentInv, NEW w \in Workers, NEW s \in Students,
         \/ \E l \in Lessons, entry \in Marks : MarkAttendance(w, l, s, entry)
         \/ \E score \in Scores : AddGrade(w, s, score) \/ UpdateGrade(w, s, score)
         \/ RemoveGrade(w, s) \/ CreateHomework(w, s) \/ MarkComplete(w, s)
  PROVE  EnrolmentInv'
<1>1. \E kind \in Kinds, entry \in Marks \cup Scores \cup {"open", "done", "none"},
         stored \in BOOLEAN : Enter(w, s, kind, entry, stored)
  <2>1. "attendance" \in Kinds /\ "homework" \in Kinds /\ "grade" \in Kinds
    BY DEF Kinds
  <2> QED
    BY <2>1 DEF MarkAttendance, AddGrade, UpdateGrade, RemoveGrade, CreateHomework, MarkComplete
<1> QED
  BY <1>1, EnterSteps

LEMMA WriteWorkSteps ==
  ASSUME EnrolmentInv, NEW w \in Workers, WriteWork(w)
  PROVE  EnrolmentInv'
<1>1. /\ request[w] \in WorkRequests
      /\ work' = [work EXCEPT ![request[w].student][request[w].kind] = request[w].entry]
      /\ request' = [request EXCEPT ![w] = Idle]
      /\ UNCHANGED <<standing, reinstated, course, group, lesson, doubled, dropped>>
  BY KindOfRequest DEF WriteWork, EnrolmentInv, Types
<1>2. work' \in [Students -> [Kinds -> Marks \cup Scores \cup {"open", "done", "none"}]]
  BY <1>1 DEF WorkRequests, EnrolmentInv, Types
<1>3. request' \in [Workers -> Requests]
  BY <1>1, IdleIsSound DEF EnrolmentInv, Types
<1>4. \A v \in Workers : request'[v] = IF v = w THEN Idle ELSE request[v]
  BY <1>1 DEF EnrolmentInv, Types
<1>5. RequestsInv'
  BY <1>1, <1>4, IdleIsSound DEF EnrolmentInv, RequestsInv
<1>6. Types'
  BY <1>1, <1>2, <1>3 DEF EnrolmentInv, Types
<1>7. (EnrolledOnce /\ LessonsOfTheEnrolled /\ ActiveStatusMeansActive)'
  BY <1>1 DEF EnrolmentInv, EnrolledOnce, LessonsOfTheEnrolled, ActiveStatusMeansActive
<1> QED
  BY <1>5, <1>6, <1>7 DEF EnrolmentInv

LEMMA EndSteps ==
  ASSUME EnrolmentInv, NEW w \in Workers, End(w)
  PROVE  EnrolmentInv'
<1>1. UNCHANGED <<standing, reinstated, course, group>> /\ request' = [request EXCEPT ![w] = Idle]
      /\ UNCHANGED <<standing, reinstated, course, group, lesson, work, doubled, dropped>>
  BY DEF End
<1> QED
  BY <1>1, IdleIsSound, OneRequestMoves

-----------------------------------------------------------------------------

LEMMA InitInv == Init => EnrolmentInv
<1> SUFFICES ASSUME Init PROVE EnrolmentInv
  OBVIOUS
<1>1. Types
  BY DEF Init, Types, Standing, Statuses, Over, Rows, Requests
<1>2. RequestsInv
  BY DEF Init, RequestsInv, Idle, AddsNew, PlansEnrolled, StoresChecked, WorksOnActive
<1>3. EnrolledOnce /\ LessonsOfTheEnrolled /\ ActiveStatusMeansActive
  BY DEF Init, EnrolledOnce, LessonsOfTheEnrolled, Astray, ActiveStatusMeansActive, Standing
<1> QED
  BY <1>1, <1>2, <1>3 DEF EnrolmentInv

LEMMA StepInv == EnrolmentInv /\ [Next]_vars => EnrolmentInv'
<1>1. ASSUME EnrolmentInv, Next PROVE EnrolmentInv'
  <2>1. \A ss \in SUBSET Students : ss \in Rows
    BY DEF Rows
  <2>2. \A ss \in {Keep} \cup SUBSET Students : ss \in {Keep} \cup Rows
    BY DEF Rows
  <2> QED
    BY <1>1, <2>1, <2>2, StudentSteps, RosterSteps, AddSteps, PushSteps, CreateSteps, LoadSteps,
       CheckSteps, WriteLessonSteps, WorkSteps, WriteWorkSteps, EndSteps DEF Next
<1>2. ASSUME EnrolmentInv, UNCHANGED vars PROVE EnrolmentInv'
  BY <1>2 DEF vars, EnrolmentInv, Types, RequestsInv, EnrolledOnce, LessonsOfTheEnrolled,
              ActiveStatusMeansActive
<1> QED
  BY <1>1, <1>2

THEOREM EnrolmentInvariant == Spec => []EnrolmentInv
BY InitInv, StepInv, PTL DEF Spec

\* Only overlapping requests enrol a student twice.
THEOREM NobodyEnrolledTwice == Spec => []EnrolledOnce
<1>1. EnrolmentInv => EnrolledOnce
  BY DEF EnrolmentInv
<1> QED
  BY <1>1, EnrolmentInvariant, PTL

\* Whatever is moved and edited at once, only a roster leaves somebody on a
\* lesson who is not enrolled.
THEOREM LessonsFollowRosters == Spec => []LessonsOfTheEnrolled
<1>1. EnrolmentInv => LessonsOfTheEnrolled
  BY DEF EnrolmentInv
<1> QED
  BY <1>1, EnrolmentInvariant, PTL

\* No sequence of edits leaves an active student whose records are closed.
THEOREM ActiveStudentsCanWork == Spec => []ActiveStatusMeansActive
<1>1. EnrolmentInv => ActiveStatusMeansActive
  BY DEF EnrolmentInv
<1> QED
  BY <1>1, EnrolmentInvariant, PTL

\* Only one kind of step writes records.
LEMMA OthersLeaveWork ==
  ASSUME Next, work' # work PROVE \E w \in Workers : WriteWork(w)
<1>1. \A s \in Students :
        /\ SoftDelete(s) => UNCHANGED work
        /\ \A status, isActive : UpdateStudent(s, status, isActive) => UNCHANGED work
  BY DEF SoftDelete, UpdateStudent, Stands
<1>2. \A w \in Workers : \A ss :
        /\ SetCourseStudents(w, ss) => UNCHANGED work
        /\ AddStudents(w, ss) => UNCHANGED work
        /\ \A g : SetGroupStudents(w, g, ss) => UNCHANGED work
  BY DEF SetCourseStudents, AddStudents, SetGroupStudents, Rosters
<1>3. \A w \in Workers : \A l, g, ss :
        (CreateLesson(w, l, g, ss) \/ LoadLesson(w, l, g, ss)) => UNCHANGED work
  BY DEF CreateLesson, LoadLesson
<1>4. \A w \in Workers, s \in Students :
        /\ \A l, entry : MarkAttendance(w, l, s, entry) => UNCHANGED work
        /\ \A score : (AddGrade(w, s, score) \/ UpdateGrade(w, s, score)) => UNCHANGED work
        /\ (RemoveGrade(w, s) \/ CreateHomework(w, s) \/ MarkComplete(w, s)) => UNCHANGED work
  BY DEF MarkAttendance, AddGrade, UpdateGrade, RemoveGrade, CreateHomework, MarkComplete, Enter
<1>5. \A w \in Workers :
        (PushStudents(w) \/ CheckLesson(w) \/ WriteLesson(w) \/ End(w)) => UNCHANGED work
  BY DEF PushStudents, Rosters, CheckLesson, WriteLesson, End
<1> QED
  BY <1>1, <1>2, <1>3, <1>4, <1>5 DEF Next

\* Who is active under a status that is over was reinstated.
ReinstatedInv ==
  \A s \in Students : standing[s].isActive /\ standing[s].status \in Over => s \in reinstated

LEMMA StudentsReinstated ==
  ASSUME EnrolmentInv, ReinstatedInv, NEW s \in Students,
         \/ SoftDelete(s)
         \/ \E status \in Statuses \cup {Keep}, isActive \in {TRUE, FALSE, Keep} :
              UpdateStudent(s, status, isActive)
  PROVE  ReinstatedInv'
<1>1. standing \in [Students -> [isActive : BOOLEAN, status : Statuses]]
  BY DEF EnrolmentInv, Types
<1>2. CASE SoftDelete(s)
  BY <1>1, <1>2 DEF SoftDelete, Stands, Standing, ReinstatedInv
<1>3. CASE \E status \in Statuses \cup {Keep}, isActive \in {TRUE, FALSE, Keep} :
             UpdateStudent(s, status, isActive)
  <2>1. PICK status \in Statuses \cup {Keep}, isActive \in {TRUE, FALSE, Keep} :
          UpdateStudent(s, status, isActive)
    BY <1>3
  <2> DEFINE new == Payload(status, isActive, standing[s])
  <2>2. /\ standing' = [standing EXCEPT ![s] = new]
        /\ reinstated' = IF status # Keep \/ isActive = FALSE THEN reinstated \ {s}
                         ELSE IF isActive = TRUE /\ standing[s].status \in Over
                              THEN reinstated \cup {s} ELSE reinstated
    BY <2>1 DEF UpdateStudent, Stands
  <2>3. new.isActive /\ new.status \in Over => s \in reinstated'
    <3>1. CASE status # Keep
      BY <3>1 DEF Payload, Standing
    <3>2. CASE status = Keep /\ isActive = FALSE
      BY <3>2 DEF Payload, Standing
    <3>3. CASE status = Keep /\ isActive # FALSE /\ isActive = TRUE
      BY <2>2, <3>3 DEF Payload, Standing
    <3>4. CASE status = Keep /\ isActive # FALSE /\ isActive # TRUE
      BY <2>2, <3>4 DEF Payload, Standing, ReinstatedInv
    <3> QED
      BY <3>1, <3>2, <3>3, <3>4
  <2> HIDE DEF new
  <2>4. \A t \in Students \ {s} : standing'[t] = standing[t] /\ (t \in reinstated => t \in reinstated')
    BY <1>1, <2>2
  <2>5. standing'[s] = new
    BY <1>1, <2>2
  <2> QED
    BY <2>3, <2>4, <2>5 DEF ReinstatedInv
<1> QED
  BY <1>2, <1>3

LEMMA OthersReinstateNobody ==
  ASSUME Next, ~ \E s \in Students :
           \/ SoftDelete(s)
           \/ \E status \in Statuses \cup {Keep}, isActive \in {TRUE, FALSE, Keep} :
                UpdateStudent(s, status, isActive)
  PROVE  UNCHANGED <<standing, reinstated>>
<1> DEFINE Kept == UNCHANGED <<standing, reinstated>>
<1>1. \A w \in Workers : \A ss :
        /\ SetCourseStudents(w, ss) => Kept
        /\ AddStudents(w, ss) => Kept
        /\ \A g : SetGroupStudents(w, g, ss) => Kept
  BY DEF SetCourseStudents, AddStudents, SetGroupStudents, Rosters
<1>2. \A w \in Workers : \A l, g, ss : (CreateLesson(w, l, g, ss) \/ LoadLesson(w, l, g, ss)) => Kept
  BY DEF CreateLesson, LoadLesson
<1>3. \A w \in Workers, s \in Students :
        /\ \A l, entry : MarkAttendance(w, l, s, entry) => Kept
        /\ \A score : (AddGrade(w, s, score) \/ UpdateGrade(w, s, score)) => Kept
        /\ (RemoveGrade(w, s) \/ CreateHomework(w, s) \/ MarkComplete(w, s)) => Kept
  BY DEF MarkAttendance, AddGrade, UpdateGrade, RemoveGrade, CreateHomework, MarkComplete, Enter
<1>4. \A w \in Workers :
        (PushStudents(w) \/ CheckLesson(w) \/ WriteLesson(w) \/ WriteWork(w) \/ End(w)) => Kept
  BY DEF PushStudents, Rosters, CheckLesson, WriteLesson, WriteWork, End
<1> HIDE DEF Kept
<1>5. Kept
  BY <1>1, <1>2, <1>3, <1>4 DEF Next
<1> QED
  BY <1>5 DEF Kept

LEMMA ReinstatedStep == EnrolmentInv /\ ReinstatedInv /\ [Next]_vars => ReinstatedInv'
<1> SUFFICES ASSUME EnrolmentInv, ReinstatedInv, [Next]_vars PROVE ReinstatedInv'
  OBVIOUS
<1>1. CASE UNCHANGED <<standing, reinstated>>
  BY <1>1 DEF ReinstatedInv
<1>2. CASE UNCHANGED vars
  BY <1>1, <1>2 DEF vars
<1> QED
  BY <1>1, <1>2, StudentsReinstated, OthersReinstateNobody

\* The records of a student who is archived, inactive or deleted change only if
\* his standing changed after the check, or if he was made active and left so.
THEOREM RecordsOfTheClosedStay == Spec => ClosedRecordsStay
<1>1. Init => ReinstatedInv
  BY DEF Init, ReinstatedInv, Standing, Over
<1>2. EnrolmentInv /\ ReinstatedInv /\ [Next]_vars =>
        [\A s \in Students : work'[s] # work[s] /\ standing[s].status \in Over =>
           \/ s \in reinstated
           \/ \E w \in Workers : request[w].op = "work" /\ request[w].student = s
                                 /\ request[w].changed]_vars
  <2> SUFFICES ASSUME EnrolmentInv, ReinstatedInv, Next, NEW s \in Students,
                      work'[s] # work[s], standing[s].status \in Over
      PROVE  \/ s \in reinstated
             \/ \E w \in Workers : request[w].op = "work" /\ request[w].student = s
                                   /\ request[w].changed
    OBVIOUS
  <2>1. PICK w \in Workers : WriteWork(w)
    BY OthersLeaveWork
  <2>2. /\ request[w].op = "work"
        /\ work' = [work EXCEPT ![request[w].student][request[w].kind] = request[w].entry]
    BY <2>1 DEF WriteWork
  <2>3. request[w].student = s
    BY <2>2 DEF EnrolmentInv, Types
  <2>4. WorksOnActive(request[w], standing)
    BY DEF EnrolmentInv, RequestsInv
  <2> QED
    BY <2>2, <2>3, <2>4 DEF WorksOnActive, ReinstatedInv
<1>3. Spec => []ReinstatedInv
  BY <1>1, ReinstatedStep, EnrolmentInvariant, PTL DEF Spec
<1> QED
  BY <1>2, <1>3, EnrolmentInvariant, PTL DEF Spec, ClosedRecordsStay
=============================================================================
