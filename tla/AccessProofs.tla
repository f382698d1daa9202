---------------------------- MODULE AccessProofs ----------------------------
(***************************************************************************)
(* Who is let in: theorems about Applications, Scopes and RateLimit, for   *)
(* any number of people, requests and servers, any limit and any window.   *)
(*                                                                         *)
(* What is listed can be opened and graded, but for what Scopes names.  It *)
(* follows from the types: documents name users who exist and students who *)
(* were created, and no id is both.  Of applications the invariant says    *)
(* what a handler knows of those it looked for, until others insert and    *)
(* decide.  Of the rate limit it says that the window and the count of a   *)
(* request tell it apart.                                                  *)
(***************************************************************************)
EXTENDS Scopes, Applications, RateLimit, FiniteSetTheorems, WellFoundedInduction, TLAPS

-----------------------------------------------------------------------------
(* Scopes: types *)

\* Who was created stays, so rosters keep their type when students change.
LEMMA RostersKeepTheirType ==
  ASSUME TypeOK, Known \subseteq Known', UNCHANGED <<course, group, lesson>>
  PROVE  /\ (course \in {None} \cup [teachers : SUBSET Users, students : SUBSET Known])'
         /\ (group \in [Groups -> {None} \cup [teacher : Users, students : SUBSET Known]])'
         /\ (lesson \in {None} \cup [teacher : Users, students : SUBSET Known,
                                     group : Groups \cup {None}])'
<1>1. \A S \in SUBSET Known : S \in SUBSET Known'
  OBVIOUS
<1>2. [teachers : SUBSET Users, students : SUBSET Known]
        \subseteq [teachers : SUBSET Users, students : SUBSET Known']
  BY <1>1
<1>3. [teacher : Users, students : SUBSET Known]
        \subseteq [teacher : Users, students : SUBSET Known']
  BY <1>1
<1>4. [teacher : Users, students : SUBSET Known, group : Groups \cup {None}]
        \subseteq [teacher : Users, students : SUBSET Known', group : Groups \cup {None}]
  BY <1>1
<1> QED
  BY <1>2, <1>3, <1>4 DEF TypeOK

\* A student who is written is there afterwards.
LEMMA WrittenIsKnown ==
  ASSUME TypeOK, NEW s \in Students, NEW d \in Standings,
         student' = [student EXCEPT ![s] = d]
  PROVE  Known \subseteq Known' /\ student' \in [Students -> {None} \cup Standings]
BY IdsAssumption DEF TypeOK, Known

\* Where only users and figures change, nobody disappears.
LEMMA SameStudents ==
  ASSUME UNCHANGED student PROVE Known' = Known
BY DEF Known

LEMMA FiledUnderType ==
  ASSUME TypeOK, NEW a \in Actors, NEW m \in Metadata
  PROVE  FiledUnder(a, m) \in Metadata
<1> DEFINE only == IsAdmin(a) /\ m.branch = None /\ Cardinality(user[a].branches) = 1
           b == CHOOSE x \in Branches : x \in user[a].branches
           filed == [m EXCEPT !.branch = b]
<1>1. CASE only
  <2>1. a \in Users /\ user[a].branches \in SUBSET Branches
    BY <1>1 DEF IsAdmin, Actors, TypeOK
  <2>2. \E x \in Branches : x \in user[a].branches
    BY <1>1, <2>1, FS_EmptySet
  <2>3. b \in Branches
    BY <2>2, Zenon
  <2> HIDE DEF b
  <2>4. filed \in Metadata
    BY <2>3 DEF Metadata
  <2> HIDE DEF filed
  <2>5. FiledUnder(a, m) = filed
    BY <1>1, Zenon DEF FiledUnder, filed, b
  <2> QED
    BY <2>4, <2>5
<1>2. CASE ~only
  <2>1. FiledUnder(a, m) = m
    BY <1>2, Zenon DEF FiledUnder
  <2> QED
    BY <2>1
<1> QED
  BY <1>1, <1>2

LEMMA InitTypeOK == Init => TypeOK
<1> SUFFICES ASSUME Init PROVE TypeOK
  OBVIOUS
<1>1. PICK active \in [Students -> BOOLEAN] : student =
        [s \in Students |-> IF account[s] = None THEN None
                           ELSE [branches |-> account[s], active |-> active[s]]]
  BY DEF Init
<1>2. ASSUME NEW s \in Students PROVE student[s] \in {None} \cup Standings
  <2>1. account[s] \in {None} \cup SUBSET Branches
    BY DEF Init
  <2>2. CASE account[s] = None
    BY <1>1, <2>2
  <2>3. CASE account[s] # None
    BY <1>1, <2>1, <2>3 DEF Standings
  <2> QED
    BY <2>2, <2>3
<1>3. student \in [Students -> {None} \cup Standings]
  BY <1>1, <1>2
<1> QED
  BY <1>3 DEF Init, TypeOK

LEMMA StatisticType ==
  ASSUME TypeOK, NEW a \in Actors,
         \/ \E m \in Metadata, s \in Known \cup {None} :
              CreateStatistic(a, m, s) \/ UpdateStatistic(a, m, s)
         \/ RemoveStatistic(a)
  PROVE  TypeOK'
<1>1. statistic' \in {None} \cup Metadata
  BY FiledUnderType DEF CreateStatistic, UpdateStatistic, RemoveStatistic
<1>2. UNCHANGED <<user, student, account, course, group, lesson>>
  BY DEF CreateStatistic, UpdateStatistic, RemoveStatistic
<1> QED
  BY <1>1, <1>2 DEF TypeOK, Known

LEMMA PeopleType ==
  ASSUME TypeOK, NEW a \in Actors, NEW branches \in SUBSET Branches,
         \/ \E u \in Users, role \in {"teacher", "admin"} : UpdateUser(a, u, role, branches)
         \/ \E s \in Students : CreateStudent(a, s, branches) \/ UpdateAccount(a, s, branches)
         \/ \E s \in Students, active \in BOOLEAN : UpdateStudent(a, s, branches, active)
  PROVE  TypeOK'
<1>4. CASE \E s \in Students : UpdateAccount(a, s, branches)
  BY <1>4 DEF UpdateAccount, TypeOK, Known
<1>1. CASE \E u \in Users, role \in {"teacher", "admin"} : UpdateUser(a, u, role, branches)
  BY <1>1 DEF UpdateUser, TypeOK, Known
<1>2. CASE \E s \in Students : CreateStudent(a, s, branches)
  <2>1. PICK s \in Students : CreateStudent(a, s, branches)
    BY <1>2
  <2> DEFINE d == [branches |-> IF IsAdmin(a) /\ branches = {} THEN user[a].branches
                                ELSE branches, active |-> TRUE]
  <2>2. IsAdmin(a) => user[a].branches \in SUBSET Branches
    BY DEF IsAdmin, Actors, TypeOK
  <2>3. d \in Standings
    BY <2>2 DEF Standings
  <2>4. student' = [student EXCEPT ![s] = d] /\ UNCHANGED <<user, account, course, group, lesson, statistic>>
    BY <2>1 DEF CreateStudent
  <2> HIDE DEF d
  <2>5. Known \subseteq Known' /\ student' \in [Students -> {None} \cup Standings]
    BY <2>3, <2>4, WrittenIsKnown
  <2> QED
    BY <2>4, <2>5, RostersKeepTheirType DEF TypeOK
<1>3. CASE \E s \in Students, active \in BOOLEAN : UpdateStudent(a, s, branches, active)
  <2>1. PICK s \in Students, active \in BOOLEAN : UpdateStudent(a, s, branches, active)
    BY <1>3
  <2> DEFINE d == [branches |-> branches, active |-> active]
  <2>2. d \in Standings
    BY DEF Standings
  <2>3. student' = [student EXCEPT ![s] = d] /\ UNCHANGED <<user, account, course, group, lesson, statistic>>
    BY <2>1 DEF UpdateStudent
  <2> HIDE DEF d
  <2>4. Known \subseteq Known' /\ student' \in [Students -> {None} \cup Standings]
    BY <2>2, <2>3, WrittenIsKnown
  <2> QED
    BY <2>3, <2>4, RostersKeepTheirType DEF TypeOK
<1> QED
  BY <1>1, <1>2, <1>3, <1>4

LEMMA RosterType ==
  ASSUME TypeOK, NEW roster \in SUBSET Known,
         \/ AddStudents(roster)
         \/ \E teachers \in SUBSET Users : SetCourse(teachers, roster)
         \/ \E t \in Users, g \in Groups : CreateGroup(g, t, roster) \/ UpdateGroup(g, t, roster)
         \/ \E t \in Users, g \in Groups \cup {None} : SetLesson(t, roster, g)
  PROVE  TypeOK'
<1>1. CASE AddStudents(roster)
  BY <1>1 DEF AddStudents, TypeOK, Known
<1>2. CASE \E teachers \in SUBSET Users : SetCourse(teachers, roster)
  BY <1>2 DEF SetCourse, TypeOK, Known
<1>3. CASE \E t \in Users, g \in Groups : CreateGroup(g, t, roster) \/ UpdateGroup(g, t, roster)
  <2>1. PICK t \in Users, g \in Groups :
          group' = [group EXCEPT ![g] = [teacher |-> t, students |-> roster]]
    BY <1>3 DEF CreateGroup, UpdateGroup
  <2>2. UNCHANGED <<user, student, account, course, lesson, statistic>>
    BY <1>3 DEF CreateGroup, UpdateGroup
  <2> QED
    BY <2>1, <2>2 DEF TypeOK, Known
<1>4. CASE \E t \in Users, g \in Groups \cup {None} : SetLesson(t, roster, g)
  <2>1. PICK t \in Users, g \in Groups \cup {None} : SetLesson(t, roster, g)
    BY <1>4
  <2> DEFINE ss == IF roster = {} /\ g # None THEN group[g].students ELSE roster
  <2>2. lesson' = [teacher |-> t, group |-> g, students |-> ss]
        /\ UNCHANGED <<user, student, account, course, group, statistic>>
    BY <2>1 DEF SetLesson
  <2>3. g # None => group[g] \in [teacher : Users, students : SUBSET Known]
    BY <2>1 DEF SetLesson, TypeOK
  <2>4. ss \in SUBSET Known
    BY <2>3
  <2> HIDE DEF ss
  <2> QED
    BY <2>2, <2>4, SameStudents DEF TypeOK
<1> QED
  BY <1>1, <1>2, <1>3, <1>4

LEMMA RemovalType ==
  ASSUME TypeOK, NEW a \in Actors,
         \/ RemoveCourse(a) \/ RemoveLesson(a)
         \/ \E g \in Groups : RemoveGroup(a, g)
  PROVE  TypeOK'
BY DEF RemoveCourse, RemoveLesson, RemoveGroup, TypeOK, Known

LEMMA MigrationType ==
  ASSUME TypeOK, DeleteAccounts PROVE TypeOK'
BY DEF DeleteAccounts, TypeOK, Known

\* Documents keep their types, and name users and students who exist.
THEOREM TypeCorrect == Spec => []TypeOK
<1>1. TypeOK /\ [Next]_vars => TypeOK'
  <2> SUFFICES ASSUME TypeOK, Next PROVE TypeOK'
    BY DEF vars, TypeOK, Known
  <2> QED
    BY StatisticType, PeopleType, RosterType, RemovalType, MigrationType DEF Next
<1> QED
  BY InitTypeOK, <1>1, PTL DEF Spec

-----------------------------------------------------------------------------
(* Lists and single documents *)

LEMMA AdminsAreUsers ==
  ASSUME TypeOK, NEW a \in Actors, IsAdmin(a)
  PROVE  a \in Users /\ user[a].branches \in SUBSET Branches /\ ~ SystemWide(a) /\ ~ IsTeacher(a)
BY DEF IsAdmin, IsTeacher, SystemWide, Actors, TypeOK

\* A user who is found is a teacher of a branch of the admin.
LEMMA ScopedTeacher ==
  ASSUME NEW a \in Users, NEW t \in Users, t \in ScopedUserIds(a)
  PROVE  IsTeacher(t) /\ Overlaps(a, user[t].branches)
BY IdsAssumption DEF ScopedUserIds, AccountOverlaps

\* A student is found by his account: he is of the branches too, or has left.
LEMMA ScopedStudents ==
  ASSUME NEW a \in Users, NEW roster \in SUBSET Students, roster \subseteq ScopedUserIds(a),
         LeftBehind(a, roster) = {}
  PROVE  \A s \in roster : Overlaps(a, student[s].branches)
BY DEF ScopedUserIds, LeftBehind

LEMMA GroupsAgree ==
  ASSUME TypeOK, NEW a \in Actors, NEW g \in Groups, GroupListed(a, g)
  PROVE  GroupReadable(a, g) \/ (IsAdmin(a) /\ LeftBehind(a, group[g].students) # {})
<1>1. group[g] \in [teacher : Users, students : SUBSET Known]
  BY DEF GroupListed, TypeOK
<1>2. CASE IsAdmin(a)
  <2>1. a \in Users /\ ~ SystemWide(a) /\ ~ IsTeacher(a)
    BY <1>2, AdminsAreUsers
  <2>2. group[g].teacher \in ScopedUserIds(a) /\ group[g].students \subseteq ScopedUserIds(a)
    BY <1>2, <2>1 DEF GroupListed
  <2>3. Overlaps(a, user[group[g].teacher].branches)
    BY <1>1, <2>1, <2>2, ScopedTeacher
  <2>4. ASSUME LeftBehind(a, group[g].students) = {} PROVE GroupReadable(a, g)
    <3>1. group[g].students \in SUBSET Students
      BY <1>1 DEF Known
    <3>2. \A s \in group[g].students : Overlaps(a, student[s].branches)
      BY <2>1, <2>2, <2>4, <3>1, ScopedStudents
    <3> QED
      BY <1>2, <2>3, <3>2 DEF GroupListed, GroupReadable, GroupWithinScope, WithinBranches
  <2> QED
    BY <1>2, <2>4
<1>3. CASE ~ IsAdmin(a)
  BY <1>3 DEF GroupListed, GroupReadable, GroupWithinScope
<1> QED
  BY <1>2, <1>3

\* What an admin may find in the list and be refused.
CourseRefused(a) ==
  \/ Cardinality(course.teachers) = 1
  \/ course.teachers \cup course.students = {}
  \/ Cardinality(course.teachers) > 1 /\ ~ WithinBranches(a, course.teachers, {})
  \/ LeftBehind(a, course.students) # {}

LEMMA CoursesAgree ==
  ASSUME TypeOK, NEW a \in Actors, CourseListed(a)
  PROVE  CourseReadable(a) \/ (IsAdmin(a) /\ CourseRefused(a))
<1>1. course \in [teachers : SUBSET Users, students : SUBSET Known]
  BY DEF CourseListed, TypeOK
<1>2. CASE IsAdmin(a)
  <2> SUFFICES ASSUME ~ CourseRefused(a) PROVE CourseReadable(a)
    BY <1>2
  <2>1. a \in Users /\ ~ SystemWide(a) /\ ~ IsTeacher(a)
    BY <1>2, AdminsAreUsers
  <2>2. course.students \subseteq ScopedUserIds(a) /\ course.students \in SUBSET Students
    BY <1>1, <1>2, <2>1 DEF CourseListed, Known
  <2>3. \A s \in course.students : Overlaps(a, student[s].branches)
    BY <2>1, <2>2, ScopedStudents DEF CourseRefused
  <2>4. \A t \in course.teachers : Overlaps(a, user[t].branches)
    <3>1. IsFiniteSet(course.teachers)
      BY <1>1, UsersAssumption, FS_Subset
    <3>2. Cardinality(course.teachers) \in Nat
      BY <3>1, FS_CardinalityType
    <3>3. CASE Cardinality(course.teachers) = 0
      BY <3>1, <3>3, FS_EmptySet
    <3>4. CASE Cardinality(course.teachers) > 1
      BY <3>4 DEF CourseRefused, WithinBranches
    <3> QED
      BY <3>2, <3>3, <3>4 DEF CourseRefused
  <2>5. Cardinality(course.teachers) # 1 /\ course.teachers \cup course.students # {}
    BY DEF CourseRefused
  <2>6. CourseWithinScope(a)
    BY <1>2, <2>3, <2>4, <2>5 DEF CourseWithinScope, WithinBranches
  <2> QED
    BY <2>5, <2>6 DEF CourseListed, CourseReadable
<1>3. CASE ~ IsAdmin(a)
  BY <1>3 DEF CourseListed, CourseReadable, CourseWithinScope
<1> QED
  BY <1>2, <1>3

LEMMA LessonsAgree ==
  ASSUME TypeOK, NEW a \in Actors, LessonListed(a)
  PROVE  LessonReadable(a) /\ RoomReadable(a)
<1>1. lesson \in [teacher : Users, students : SUBSET Known, group : Groups \cup {None}]
  BY DEF LessonListed, TypeOK
<1>2. CASE IsAdmin(a)
  <2>1. a \in Users /\ ~ SystemWide(a) /\ ~ IsTeacher(a)
    BY <1>2, AdminsAreUsers
  <2>2. lesson.teacher \in ScopedUserIds(a)
        /\ lesson.students \subseteq {s \in Known : Overlaps(a, student[s].branches)}
    BY <1>2, <2>1 DEF LessonListed
  <2>3. Overlaps(a, user[lesson.teacher].branches)
    BY <1>1, <2>1, <2>2, ScopedTeacher
  <2> QED
    BY <1>2, <2>2, <2>3 DEF LessonListed, LessonReadable, LessonWithinScope, WithinBranches,
                            RoomReadable, RoomVisible
<1>3. CASE ~ IsAdmin(a)
  BY <1>3 DEF LessonListed, LessonReadable, LessonWithinScope, RoomReadable, RoomVisible
<1> QED
  BY <1>2, <1>3

LEMMA LessonsOfOneAgree ==
  ASSUME TypeOK, NEW a \in Actors, NEW p \in Users \cup Known, LessonListedBy(a, p)
  PROVE  /\ \/ LessonReadable(a)
            \/ IsAdmin(a) /\ (OthersElsewhere(a, p) \/ LeftBehind(a, {p} \cap Known) # {})
         /\ RoomReadable(a) \/ (IsAdmin(a) /\ p = lesson.teacher /\ ~ IsTeacher(p))
<1>1. lesson \in [teacher : Users, students : SUBSET Known, group : Groups \cup {None}]
  BY DEF LessonListedBy, TypeOK
<1>2. CASE IsAdmin(a)
  <2>1. a \in Users /\ ~ SystemWide(a) /\ ~ IsTeacher(a)
    BY <1>2, AdminsAreUsers
  <2>2. AccountOverlaps(a, p) /\ lesson # None /\ (p = lesson.teacher \/ p \in lesson.students)
    BY <1>2, <2>1 DEF LessonListedBy
  <2>3. RoomReadable(a) \/ (p = lesson.teacher /\ ~ IsTeacher(p))
    <3> SUFFICES ASSUME ~ (p = lesson.teacher /\ ~ IsTeacher(p)) PROVE RoomReadable(a)
      OBVIOUS
    <3>1. p \in Users => p = lesson.teacher
      BY <1>1, <2>2, IdsAssumption DEF Known
    <3>2. p \in ScopedUserIds(a)
      BY <2>2, <3>1 DEF ScopedUserIds, Known
    <3> QED
      BY <1>2, <2>2, <3>2 DEF RoomReadable, RoomVisible
  <2>4. ASSUME ~ OthersElsewhere(a, p), LeftBehind(a, {p} \cap Known) = {}
        PROVE  LessonReadable(a)
    <3>1. p \in Users => Overlaps(a, user[p].branches)
      BY <2>2, IdsAssumption DEF AccountOverlaps
    <3>2. p \in Known => Overlaps(a, student[p].branches)
      BY <2>2, <2>4 DEF LeftBehind
    <3>3. Overlaps(a, user[lesson.teacher].branches)
      BY <1>1, <2>4, <3>1 DEF OthersElsewhere, WithinBranches
    <3>4. \A s \in lesson.students : Overlaps(a, student[s].branches)
      BY <1>1, <2>4, <3>2 DEF OthersElsewhere, WithinBranches
    <3> QED
      BY <1>2, <2>2, <3>3, <3>4 DEF LessonReadable, LessonWithinScope, WithinBranches
  <2> QED
    BY <1>2, <2>3, <2>4
<1>3. CASE ~ IsAdmin(a)
  BY <1>3 DEF LessonListedBy, LessonReadable, LessonWithinScope, RoomReadable, RoomVisible
<1> QED
  BY <1>2, <1>3

LEMMA StatisticsAgree ==
  ASSUME TypeOK, NEW a \in Actors
  PROVE  StatisticListed(a) <=> StatisticReadable(a)
<1>1. IsAdmin(a) => user[a].branches \in SUBSET Branches
  BY AdminsAreUsers
<1> QED
  BY <1>1, IdsAssumption DEF StatisticListed, StatisticReadable, GroupsOf, TypeOK, Metadata

LEMMA PaymentsAgree ==
  ASSUME NEW a \in Actors, NEW b \in Branches, NEW s \in Known
  PROVE  /\ DeliveryListed(a, b, s) <=> PaymentListed(a, b) \/ PaymentListedByStudent(a, s)
         /\ PaymentListedByStudent(a, s) =>
              PaymentReadable(a, b) \/ (IsAdmin(a) /\ b \notin user[a].branches)
BY DEF DeliveryListed, OfBranches, PaymentListed, PaymentListedByStudent, PaymentReadable

\* Whatever a list shows can be opened, but for the documents ListedIsReadable
\* names, which the code shows an admin in a list and refuses him by their id.
THEOREM ListsAndDocumentsAgree == Spec => []ListedIsReadable
<1>1. TypeOK => ListedIsReadable
  BY GroupsAgree, CoursesAgree, LessonsAgree, LessonsOfOneAgree, StatisticsAgree, PaymentsAgree
     DEF ListedIsReadable, CourseRefused
<1> QED
  BY <1>1, TypeCorrect, PTL

\* Of the students a teacher is shown, homework and grades can be entered, and
\* attendance but of those he has by a course alone.
THEOREM ServicesAgreeOnStudents == Spec => []ListedCanBeGraded
<1>1. TypeOK => ListedCanBeGraded
  <2> SUFFICES ASSUME TypeOK, NEW a \in Actors, NEW s \in Known, student[s].active
      PROVE  /\ StudentListed(a, s) =>
                  /\ HomeworkAccessible(a, s) /\ GradesAccessible(a, s)
                  /\ AttendanceAccessible(a, s)
                       \/ (IsTeacher(a) /\ s \in OfCourses(a) \ OfGroups(a))
             /\ LessonListed(a) /\ s \in lesson.students => AttendanceAccessible(a, s)
    BY DEF ListedCanBeGraded
  <2>1. StudentListed(a, s) => HomeworkAccessible(a, s) /\ GradesAccessible(a, s)
    BY DEF StudentListed, HomeworkAccessible, GradesAccessible, Accessible, StudentsOf,
           StudentsOfHomework, StudentsOfGrades
  <2>2. StudentListed(a, s) => AttendanceAccessible(a, s)
                                \/ (IsTeacher(a) /\ s \in OfCourses(a) \ OfGroups(a))
    BY DEF StudentListed, AttendanceAccessible, Accessible, StudentsOf, StudentsOfAttendance
  <2>3. LessonListed(a) /\ s \in lesson.students => AttendanceAccessible(a, s)
    BY DEF LessonListed, AttendanceAccessible, Accessible, StudentsOfAttendance, OfLessons, Known
  <2> QED
    BY <2>1, <2>2, <2>3
<1> QED
  BY <1>1, TypeCorrect, PTL

-----------------------------------------------------------------------------
(* Applications: what a handler may rely on *)

Sessions == [step : {"none", "name", "other"}, contact : People \cup {Absent}]
RequestDocs == [telegramId : People \cup {Absent},
                status : {"none", "pending"} \cup Verdicts, bot : BOOLEAN]
Fates == {"unsent", "open"} \cup Verdicts
Applicants == [step : {"find", "save", "announce", "reply"}, chat : People \cup {Absent},
               telegramId : People, id : Ids \cup {Absent}, late : BOOLEAN]
Deciders == [step : {"student", "handle", "edit", "tell"}, id : Ids, message : Messages,
             status : Verdicts]
Handlers == {Idle} \cup Applicants \cup Deciders

ApplyTypes ==
  /\ session \in [People -> Sessions]
  /\ requests \in [Ids -> RequestDocs]
  /\ \A i \in Stored : requests[i].telegramId \in People
  /\ messages \in [Ids -> [Messages -> Fates]]
  /\ handler \in [Updates -> Handlers]

\* i is the application of q that was inserted first.
First(q, i) == i \in Of(q) /\ \A j \in Of(q) : i <= j

\* What a handler may rely on.
HandlerRight(r) ==
  /\ r \in Applicants => /\ r.id # Absent => r.id \in Stored
                         /\ r.step \in {"announce", "reply"} => r.id # Absent
                         /\ r.step = "save" /\ r.id = Absent /\ ~r.late =>
                              \A i \in Stored : First(r.telegramId, i) => requests[i].status # "pending"
  /\ r \in Deciders => /\ r.id \in Stored
                       /\ r.step = "student" => r.status = "approved"
                       /\ r.step = "edit" => requests[r.id].status # "pending"

\* OldestPendingIsOnly, said of the first application instead of findOne's.
FirstIsOnly ==
  \A q \in People \ doubled : \A i \in Stored :
    First(q, i) /\ requests[i].status = "pending" => Of(q) = {i}

\* Ids are given out in order, messages and students are of stored applications,
\* and handlers are right.
ApplyInv ==
  /\ ApplyTypes
  /\ \E n \in Nat : Stored = 1..n
  /\ \A i \in Ids, m \in Messages : messages[i][m] # "unsent" => i \in Stored
  /\ enrolled \subseteq Stored
  /\ \A h \in Updates : HandlerRight(handler[h])
  /\ FirstIsOnly /\ PendingIsKnown /\ EnrolledIsHandled


\* Every set of natural numbers has a least one.
LEMMA LeastOf ==
  ASSUME NEW S \in SUBSET Nat, S # {}
  PROVE  \E i \in S : \A j \in S : i <= j
<1>1. PICK i \in S : \A j \in S : ~(<<j, i>> \in OpToRel(<, Nat))
  BY NatLessThanWellFounded, WFMin
<1>2. ASSUME NEW j \in S, j < i PROVE <<j, i>> \in OpToRel(<, Nat)
  BY <1>2 DEF OpToRel
<1>3. ASSUME NEW j \in S PROVE i <= j
  <2>1. ~(j < i)
    BY <1>1, <1>2, Zenon
  <2> QED
    BY <2>1
<1> QED
  BY <1>3

\* findOne without a sort finds the first one inserted.
LEMMA OldestIsFirst ==
  ASSUME NEW q, Of(q) # {}
  PROVE  First(q, Oldest(q)) /\ Oldest(q) \in Stored
<1>1. Of(q) \in SUBSET Nat
  BY DEF Of, Stored, Ids
<1>2. \E i \in Of(q) : \A j \in Of(q) : i <= j
  BY <1>1, LeastOf
<1>3. Oldest(q) \in Of(q) /\ \A j \in Of(q) : Oldest(q) <= j
  BY <1>2, Zenon DEF Oldest
<1> QED
  BY <1>3 DEF First, Of

\* There is one first application at most.
LEMMA FirstIsUnique ==
  ASSUME NEW q, NEW i, NEW j, First(q, i), First(q, j)
  PROVE  i = j
<1>1. i \in Nat /\ j \in Nat
  BY DEF First, Of, Stored, Ids
<1> QED
  BY <1>1 DEF First

\* The kinds of handlers are told apart by their steps.
LEMMA Kinds ==
  /\ \A r \in Applicants : r \notin Deciders /\ r # Idle
  /\ \A r \in Deciders : r \notin Applicants /\ r # Idle
  /\ Idle.step = "idle"
  /\ Idle \notin Applicants /\ Idle \notin Deciders
  /\ Absent \notin Ids
BY ApplicationsAssumption DEF Applicants, Deciders, Idle, Ids

LEMMA StepsOfKinds ==
  ASSUME NEW r \in Handlers
  PROVE  /\ r.step \in {"find", "save", "announce", "reply"} <=> r \in Applicants
         /\ r.step \in {"student", "handle", "edit", "tell"} <=> r \in Deciders
         /\ r.step = "idle" <=> r = Idle
BY DEF Applicants, Deciders, Idle, Handlers

\* A step of one handler that touches nothing but itself and perhaps sessions.
LEMMA HandlerStep ==
  ASSUME ApplyInv,
         UNCHANGED <<requests, messages, enrolled, doubled>>, cut \subseteq cut',
         session' \in [People -> Sessions],
         NEW h \in Updates, NEW r \in Handlers, Goes(h, r), HandlerRight(r),
         CutOff(handler[h]) \subseteq cut'
  PROVE  ApplyInv'
<1>1. /\ handler' \in [Updates -> Handlers]
      /\ \A g \in Updates : handler'[g] = IF g = h THEN r ELSE handler[g]
  BY DEF Goes, ApplyInv, ApplyTypes
<1>2. Stored' = Stored /\ \A q : Of(q)' = Of(q)
  BY DEF Stored, Of
<1>3. ApplyTypes' /\ FirstIsOnly'
  BY <1>1, <1>2 DEF ApplyInv, ApplyTypes, Handlers, Applicants, Deciders, FirstIsOnly, First
<1>4. \A g \in Updates : HandlerRight(handler[g])'
  BY <1>1, <1>2 DEF ApplyInv, HandlerRight, First
<1>7. Untold \subseteq Untold' /\ Unmarked \subseteq Unmarked'
  BY DEF Untold, Unmarked
<1>8. /\ \A i \in Ids \ Untold' : handler[h].step = "announce" => handler[h].id # i
      /\ \A i \in Ids \ Unmarked' : handler[h].step = "handle" /\ handler[h].status = "approved" =>
                                    handler[h].id # i
  BY DEF CutOff, Untold, Unmarked
<1>5. PendingIsKnown'
  <2> SUFFICES ASSUME NEW i \in Stored \ Untold', requests[i].status = "pending", requests[i].bot
               PROVE  \/ \E m \in Messages : messages[i][m] = "open"
                      \/ \E g \in Updates : handler'[g].step = "announce" /\ handler'[g].id = i
    BY <1>2 DEF PendingIsKnown
  <2>1. i \in Ids
    BY DEF Stored
  <2>2. \/ \E m \in Messages : messages[i][m] = "open"
        \/ \E g \in Updates : handler[g].step = "announce" /\ handler[g].id = i
    BY <1>7 DEF ApplyInv, PendingIsKnown
  <2> QED
    BY <1>1, <1>8, <2>1, <2>2
<1>6. EnrolledIsHandled'
  <2> SUFFICES ASSUME NEW i \in enrolled \ Unmarked', requests[i].status = "pending"
               PROVE  \E g \in Updates : handler'[g].step = "handle" /\ handler'[g].id = i /\ handler'[g].status = "approved"
    BY DEF EnrolledIsHandled
  <2>1. PICK g \in Updates : handler[g].step = "handle" /\ handler[g].id = i /\ handler[g].status = "approved"
    BY <1>7 DEF ApplyInv, EnrolledIsHandled
  <2>2. i \in Ids
    BY DEF ApplyInv, Stored
  <2> QED
    BY <1>1, <1>8, <2>1, <2>2
<1> QED
  BY <1>2, <1>3, <1>4, <1>5, <1>6 DEF ApplyInv

\* Who was cut off is known from `cut` alone.
LEMMA SameCut ==
  ASSUME UNCHANGED cut
  PROVE  Untold' = Untold /\ Unmarked' = Unmarked
BY DEF Untold, Unmarked

\* Decisions: applications keep their owner, and are pending no longer.
LEMMA DecisionEffect ==
  ASSUME ApplyInv, NEW i \in Stored, NEW s \in Verdicts,
         requests' = [requests EXCEPT ![i].status = s]
  PROVE  /\ requests' \in [Ids -> RequestDocs]
         /\ Stored' = Stored /\ \A q : Of(q)' = Of(q)
         /\ \A j \in Ids : /\ requests'[j].telegramId = requests[j].telegramId
                           /\ requests'[j].bot = requests[j].bot
                           /\ requests'[j].status = IF j = i THEN s ELSE requests[j].status
<1>1. i \in Ids /\ requests \in [Ids -> RequestDocs] /\ s \notin {"none", "pending"}
  BY DEF ApplyInv, ApplyTypes, Stored, Verdicts
<1>2. \A j \in Ids : requests[j] \in RequestDocs
  BY <1>1
<1> DEFINE d == [requests[i] EXCEPT !.status = s]
<1>3. /\ d \in RequestDocs /\ d.telegramId = requests[i].telegramId
      /\ d.bot = requests[i].bot /\ d.status = s
  BY <1>1, <1>2 DEF RequestDocs
<1>4. requests' = [requests EXCEPT ![i] = d]
  OBVIOUS
<1> HIDE DEF d
<1>5. requests' \in [Ids -> RequestDocs]
      /\ \A j \in Ids : requests'[j] = IF j = i THEN d ELSE requests[j]
  BY <1>1, <1>3, <1>4
<1>6. \A j \in Ids : /\ requests'[j].telegramId = requests[j].telegramId
                     /\ requests'[j].bot = requests[j].bot
                     /\ requests'[j].status = IF j = i THEN s ELSE requests[j].status
  BY <1>3, <1>5
<1>7. Stored' = Stored
  BY <1>1, <1>6 DEF Stored
<1>8. \A q : Of(q)' = Of(q)
  BY <1>6, <1>7 DEF Of, Stored
<1> QED
  BY <1>5, <1>6, <1>7, <1>8

\* A decision keeps the invariant, whichever handler, if any, took it.
LEMMA DecisionStep ==
  ASSUME ApplyInv, NEW i \in Stored, NEW s \in Verdicts,
         requests' = [requests EXCEPT ![i].status = s],
         UNCHANGED <<session, messages, enrolled, cut, doubled>>,
         handler' \in [Updates -> Handlers],
         \A g \in Updates : \/ handler'[g] = handler[g]
                            \/ /\ handler[g].step = "handle" /\ handler[g].id = i
                               /\ handler'[g].step = "edit" /\ handler'[g].id = i
  PROVE  ApplyInv'
<1>0. s # "pending" /\ s # "none" /\ i \in Ids
  BY DEF Verdicts, Stored
<1>a. /\ requests' \in [Ids -> RequestDocs]
      /\ Stored' = Stored /\ \A q : Of(q)' = Of(q)
      /\ \A j \in Ids : /\ requests'[j].telegramId = requests[j].telegramId
                        /\ requests'[j].bot = requests[j].bot
                        /\ requests'[j].status = IF j = i THEN s ELSE requests[j].status
  BY DecisionEffect
<1>b. Stored \subseteq Ids /\ \A j \in Stored : requests'[j].status = "pending" =>
                                requests[j].status = "pending" /\ j # i
  BY <1>0, <1>a DEF Stored
<1>c. \A q, j : First(q, j)' <=> First(q, j)
  BY <1>a DEF First
<1>1. ApplyTypes'
  BY <1>a, <1>b DEF ApplyInv, ApplyTypes, Handlers, Applicants, Deciders
<1>2. FirstIsOnly'
  BY <1>a, <1>b, <1>c DEF ApplyInv, FirstIsOnly
<1>3. ASSUME NEW g \in Updates PROVE HandlerRight(handler[g])'
  <2>1. CASE handler'[g] = handler[g]
    <3>1. HandlerRight(handler[g])
      BY DEF ApplyInv
    <3>2. ASSUME NEW r, HandlerRight(r) PROVE HandlerRight(r)'
      BY <1>a, <1>b, <1>c, <3>2 DEF HandlerRight
    <3> QED
      BY <2>1, <3>1, <3>2
  <2>2. CASE handler'[g].step = "edit" /\ handler'[g].id = i
    <3>1. handler'[g] \notin Applicants
      BY <2>2 DEF Applicants
    <3> QED
      BY <1>0, <1>a, <2>2, <3>1 DEF HandlerRight
  <2> QED
    BY <2>1, <2>2
<1>4. PendingIsKnown'
  <2> SUFFICES ASSUME NEW j \in Stored \ Untold', requests'[j].status = "pending", requests'[j].bot
               PROVE  \/ \E m \in Messages : messages[j][m] = "open"
                      \/ \E h \in Updates : handler'[h].step = "announce" /\ handler'[h].id = j
    BY <1>a DEF PendingIsKnown
  <2>1. requests[j].status = "pending" /\ requests[j].bot
    BY <1>a, <1>b
  <2> QED
    BY <2>1, SameCut DEF ApplyInv, PendingIsKnown
<1>5. EnrolledIsHandled'
  <2> SUFFICES ASSUME NEW j \in enrolled \ Unmarked', requests'[j].status = "pending"
               PROVE  \E h \in Updates : handler'[h].step = "handle" /\ handler'[h].id = j /\ handler'[h].status = "approved"
    BY DEF EnrolledIsHandled
  <2>1. j \in Stored
    BY DEF ApplyInv
  <2>2. requests[j].status = "pending" /\ j # i
    BY <1>b, <2>1
  <2> QED
    BY <2>2, SameCut DEF ApplyInv, EnrolledIsHandled
<1> QED
  BY <1>a, <1>1, <1>2, <1>3, <1>4, <1>5 DEF ApplyInv

\* Updates that only change sessions, and what the staff does to students.
LEMMA QuietStep ==
  ASSUME ApplyInv, session' \in [People -> Sessions],
         UNCHANGED <<requests, messages, handler, enrolled, cut, doubled>>
  PROVE  ApplyInv'
<1>1. Stored' = Stored /\ \A q : Of(q)' = Of(q)
  BY DEF Stored, Of
<1>2. ApplyTypes' /\ FirstIsOnly'
  BY <1>1 DEF ApplyInv, ApplyTypes, FirstIsOnly, First
<1>3. \A h \in Updates : HandlerRight(handler[h])'
  BY <1>1 DEF ApplyInv, HandlerRight, First
<1>4. PendingIsKnown' /\ EnrolledIsHandled'
  BY <1>1, SameCut DEF ApplyInv, PendingIsKnown, EnrolledIsHandled
<1> QED
  BY <1>1, <1>2, <1>3, <1>4 DEF ApplyInv

\* A message to the administrators is opened by the handler that announces its
\* application, or loses its buttons once the application is decided.
LEMMA MessageStep ==
  ASSUME ApplyInv,
         UNCHANGED <<session, requests, enrolled, cut, doubled>>,
         NEW i \in Stored, NEW m \in Messages, NEW f \in Fates \ {"unsent"},
         messages' = [messages EXCEPT ![i][m] = f],
         f = "open" \/ requests[i].status # "pending",
         NEW h \in Updates, NEW r \in Handlers, Goes(h, r), HandlerRight(r),
         handler[h].step # "handle", handler[h].step = "announce" => handler[h].id = i
  PROVE  ApplyInv'
<1>0. i \in Ids /\ messages \in [Ids -> [Messages -> Fates]]
  BY DEF Stored, ApplyInv, ApplyTypes
<1> DEFINE row == [messages[i] EXCEPT ![m] = f]
<1>1. /\ messages' \in [Ids -> [Messages -> Fates]]
      /\ \A j \in Ids, k \in Messages :
           messages'[j][k] = IF j = i /\ k = m THEN f ELSE messages[j][k]
  <2>1. messages' = [messages EXCEPT ![i] = row]
    OBVIOUS
  <2>2. messages[i] \in [Messages -> Fates]
    BY <1>0
  <2>3. /\ row \in [Messages -> Fates]
        /\ \A k \in Messages : row[k] = IF k = m THEN f ELSE messages[i][k]
    BY <2>2
  <2> HIDE DEF row
  <2> QED
    BY <1>0, <2>1, <2>3
<1>2. /\ handler' \in [Updates -> Handlers]
      /\ \A g \in Updates : handler'[g] = IF g = h THEN r ELSE handler[g]
  BY DEF Goes, ApplyInv, ApplyTypes
<1>3. Stored' = Stored /\ \A q : Of(q)' = Of(q)
  BY DEF Stored, Of
<1>4. ApplyTypes' /\ FirstIsOnly'
  BY <1>1, <1>2, <1>3 DEF ApplyInv, ApplyTypes, Fates, Handlers, Applicants, Deciders, FirstIsOnly, First
<1>5. \A g \in Updates : HandlerRight(handler[g])'
  BY <1>2, <1>3 DEF ApplyInv, HandlerRight, First
<1>6. PendingIsKnown'
  <2> SUFFICES ASSUME NEW j \in Stored \ Untold', requests[j].status = "pending", requests[j].bot
               PROVE  \/ \E k \in Messages : messages'[j][k] = "open"
                      \/ \E g \in Updates : handler'[g].step = "announce" /\ handler'[g].id = j
    BY <1>3 DEF PendingIsKnown
  <2>1. j \in Ids
    BY DEF Stored
  <2>2. CASE j = i
    BY <1>0, <1>1, <2>2
  <2>3. CASE j # i
    <3>1. \/ \E k \in Messages : messages[j][k] = "open"
          \/ \E g \in Updates : handler[g].step = "announce" /\ handler[g].id = j
      BY SameCut DEF ApplyInv, PendingIsKnown
    <3> QED
      BY <1>1, <1>2, <2>1, <2>3, <3>1
  <2> QED
    BY <2>2, <2>3
<1>7. EnrolledIsHandled'
  BY <1>2, SameCut DEF ApplyInv, EnrolledIsHandled
<1>8. \A j \in Ids, k \in Messages : messages'[j][k] # "unsent" => j \in Stored
  BY <1>1 DEF ApplyInv
<1> QED
  BY <1>3, <1>4, <1>5, <1>6, <1>7, <1>8 DEF ApplyInv

\* The student of an application is created by the handler that will decide it.
LEMMA StudentStep ==
  ASSUME ApplyInv, NEW h \in Updates, EnrolApplicant(h)
  PROVE  ApplyInv'
<1> DEFINE old == handler[h]
           r == [old EXCEPT !.step = "handle"]
<1>1. /\ old.step = "student" /\ Goes(h, r) /\ enrolled' = enrolled \cup {old.id}
      /\ UNCHANGED <<session, requests, messages, cut, doubled>>
  BY DEF EnrolApplicant
<1>2. old \in Deciders /\ HandlerRight(old) /\ old.id \in Stored
  BY <1>1, StepsOfKinds DEF ApplyInv, ApplyTypes, HandlerRight
<1>3. r \in Deciders /\ r.id = old.id /\ r.step = "handle" /\ r.status = "approved"
  BY <1>1, <1>2 DEF Deciders, HandlerRight
<1> HIDE DEF r
<1>4. HandlerRight(r)
  BY <1>2, <1>3, Kinds DEF HandlerRight
<1>5. /\ handler' \in [Updates -> Handlers]
      /\ \A g \in Updates : handler'[g] = IF g = h THEN r ELSE handler[g]
  BY <1>1, <1>3 DEF Goes, ApplyInv, ApplyTypes, Handlers
<1>6. Stored' = Stored /\ \A q : Of(q)' = Of(q)
  BY <1>1 DEF Stored, Of
<1>7. ApplyTypes' /\ FirstIsOnly'
  BY <1>1, <1>5, <1>6 DEF ApplyInv, ApplyTypes, Handlers, Applicants, Deciders, FirstIsOnly, First
<1>8. \A g \in Updates : HandlerRight(handler[g])'
  BY <1>1, <1>4, <1>5, <1>6 DEF ApplyInv, HandlerRight, First
<1>9. PendingIsKnown'
  BY <1>1, <1>5, <1>6, SameCut DEF ApplyInv, PendingIsKnown
<1>10. EnrolledIsHandled'
  <2> SUFFICES ASSUME NEW j \in enrolled' \ Unmarked', requests[j].status = "pending"
               PROVE  \E g \in Updates : handler'[g].step = "handle" /\ handler'[g].id = j /\ handler'[g].status = "approved"
    BY <1>1 DEF EnrolledIsHandled
  <2>1. CASE j = old.id
    BY <1>3, <1>5, <2>1
  <2>2. CASE j # old.id
    <3>1. PICK g \in Updates : handler[g].step = "handle" /\ handler[g].id = j /\ handler[g].status = "approved"
      BY <1>1, <2>2, SameCut DEF ApplyInv, EnrolledIsHandled
    <3>2. g # h
      BY <1>1, <3>1
    <3> QED
      BY <1>5, <3>1, <3>2
  <2> QED
    BY <2>1, <2>2
<1> QED
  BY <1>1, <1>2, <1>6, <1>7, <1>8, <1>9, <1>10 DEF ApplyInv

\* A restart cuts off the handlers that others relied on.
LEMMA RestartStep ==
  ASSUME ApplyInv, Restart
  PROVE  ApplyInv'
<1>1. /\ session' = [p \in People |-> Fresh] /\ handler' = [h \in Updates |-> Idle]
      /\ UNCHANGED <<requests, messages, enrolled, doubled>>
      /\ \A h \in Updates : CutOff(handler[h]) \subseteq cut'
      /\ cut \subseteq cut'
  BY DEF Restart
<1>2. Stored' = Stored /\ \A q : Of(q)' = Of(q)
  BY <1>1 DEF Stored, Of
<1>3. session' \in [People -> Sessions] /\ handler' \in [Updates -> Handlers]
  BY <1>1 DEF Fresh, Sessions, Handlers
<1>4. ApplyTypes' /\ FirstIsOnly'
  BY <1>1, <1>2, <1>3 DEF ApplyInv, ApplyTypes, Handlers, Applicants, Deciders, FirstIsOnly, First
<1>5. \A g \in Updates : HandlerRight(handler[g])'
  BY <1>1, Kinds DEF HandlerRight
<1>6. /\ Untold \subseteq Untold' /\ Unmarked \subseteq Unmarked'
      /\ \A h \in Updates, i \in Ids \ Untold' : ~ (handler[h].step = "announce" /\ handler[h].id = i)
      /\ \A h \in Updates, i \in Ids \ Unmarked' :
           ~ (handler[h].step = "handle" /\ handler[h].id = i /\ handler[h].status = "approved")
  BY <1>1 DEF CutOff, Untold, Unmarked
<1>7. PendingIsKnown'
  <2> SUFFICES ASSUME NEW i \in Stored \ Untold', requests[i].status = "pending", requests[i].bot
               PROVE  \E m \in Messages : messages[i][m] = "open"
    BY <1>1, <1>2 DEF PendingIsKnown
  <2>1. \/ \E m \in Messages : messages[i][m] = "open"
        \/ \E h \in Updates : handler[h].step = "announce" /\ handler[h].id = i
    BY <1>1, <1>6 DEF ApplyInv, PendingIsKnown
  <2>2. i \in Ids
    BY DEF Stored
  <2> QED
    BY <1>6, <2>1, <2>2
<1>8. EnrolledIsHandled'
  <2> SUFFICES ASSUME NEW i \in enrolled \ Unmarked', requests[i].status = "pending"
               PROVE  FALSE
    BY <1>1 DEF EnrolledIsHandled
  <2>1. \E h \in Updates : handler[h].step = "handle" /\ handler[h].id = i /\ handler[h].status = "approved"
    BY <1>1, <1>6 DEF ApplyInv, EnrolledIsHandled
  <2>2. i \in Ids
    BY DEF ApplyInv, Stored
  <2> QED
    BY <1>6, <2>1, <2>2
<1> QED
  BY <1>1, <1>2, <1>4, <1>5, <1>7, <1>8 DEF ApplyInv

\* A new application: the person's first if it is not late, and announced by
\* its handler if it came through the bot.
LEMMA InsertStep ==
  ASSUME ApplyInv, NEW h \in Updates, Insert(h),
         NEW k, k = NextId, NEW q, q = handler[h].telegramId
  PROVE  ApplyInv'
<1> DEFINE r == handler[h]
           d == [telegramId |-> q, status |-> "pending", bot |-> r.chat # Absent]
           s == AfterSave(r, k)
<1>1. /\ r.step = "save" /\ r.id = Absent /\ k \in Ids
      /\ requests' = [requests EXCEPT ![k] = d]
      /\ doubled' = IF r.late THEN doubled \cup {q} ELSE doubled
      /\ handler' = [g \in Updates |->
           IF g = h THEN s
           ELSE IF handler[g].step = "save" /\ handler[g].telegramId = q
           THEN [handler[g] EXCEPT !.late = TRUE]
           ELSE handler[g]]
      /\ UNCHANGED <<session, students, messages, enrolled, cut>>
  BY DEF Insert
<1>2. r \in Applicants /\ HandlerRight(r) /\ q \in People
  <2>1. r \in Handlers /\ HandlerRight(r)
    BY DEF ApplyInv, ApplyTypes
  <2>2. r \in Applicants
    BY <1>1, <2>1, StepsOfKinds
  <2> QED
    BY <2>1, <2>2 DEF Applicants
<1>3. PICK n \in Nat : Stored = 1..n
  BY DEF ApplyInv
<1>4. k = n + 1 /\ k \notin Stored
  <2>1. Cardinality(1..n) = n
    BY FS_Interval
  <2> QED
    BY <1>3, <2>1 DEF NextId
<1>5. d \in RequestDocs
  BY <1>2 DEF RequestDocs
<1>6. /\ requests' \in [Ids -> RequestDocs]
      /\ \A i \in Ids : requests'[i] = IF i = k THEN d ELSE requests[i]
  BY <1>1, <1>5 DEF ApplyInv, ApplyTypes
<1>7. d.telegramId = q /\ d.status = "pending" /\ d.bot = (r.chat # Absent)
  OBVIOUS
<1>8. /\ s # Idle => s \in Applicants /\ s.step = "announce" /\ s.id = k
      /\ r.chat # Absent => s # Idle
  BY <1>1, <1>2, Kinds DEF AfterSave, Applicants, Idle
<1> HIDE DEF d, s
<1>9. Stored' = Stored \cup {k} /\ Stored' = 1..(n + 1)
  <2>1. Stored' = Stored \cup {k}
    BY <1>1, <1>6, <1>7 DEF Stored
  <2> QED
    BY <1>3, <1>4, <2>1
<1>10. \A p : Of(p)' = IF p = q THEN Of(p) \cup {k} ELSE Of(p)
  <2>1. \A i \in Stored : requests'[i] = requests[i]
    BY <1>4, <1>6 DEF Stored
  <2>2. requests'[k].telegramId = q
    BY <1>1, <1>6, <1>7
  <2> QED
    BY <1>9, <2>1, <2>2 DEF Of
<1>11. /\ \A p, i : i \in Stored => (First(p, i)' <=> First(p, i))
       /\ \A p : First(p, k)' => p = q /\ Of(q) = {}
  <2>1. \A p : Of(p) \subseteq 1..n
    BY <1>3 DEF Of
  <2>2. ASSUME NEW p, NEW i \in Stored PROVE First(p, i)' <=> First(p, i)
    BY <1>3, <1>4, <1>10, <2>1 DEF First
  <2>3. ASSUME NEW p, First(p, k)' PROVE p = q /\ Of(q) = {}
    <3>1. p = q
      BY <1>4, <1>10, <2>3 DEF First, Of
    <3> QED
      BY <1>4, <1>10, <2>1, <2>3, <3>1 DEF First
  <2> QED
    BY <2>2, <2>3
<1>12. \A g \in Updates : /\ handler[g] \in Handlers /\ HandlerRight(handler[g])
  BY DEF ApplyInv, ApplyTypes
<1> DEFINE Waits(g) == handler[g].step = "save" /\ handler[g].telegramId = q
<1>13. ASSUME NEW g \in Updates, g # h, Waits(g)
       PROVE  /\ handler'[g] \in Applicants /\ handler'[g].step = "save" /\ handler'[g].late
              /\ handler'[g].id = handler[g].id /\ handler[g] \in Applicants
  <2>1. handler[g] \in Applicants
    BY <1>12, <1>13, StepsOfKinds
  <2>2. handler'[g] = [handler[g] EXCEPT !.late = TRUE]
    BY <1>1, <1>13
  <2> QED
    BY <1>13, <2>1, <2>2 DEF Applicants
<1>14. ASSUME NEW g \in Updates, g # h, ~Waits(g) PROVE handler'[g] = handler[g]
  BY <1>1, <1>14
<1>15. handler'[h] = s
  BY <1>1
<1>16. handler' \in [Updates -> Handlers]
  <2>1. \A g \in Updates : handler'[g] \in Handlers
    BY <1>8, <1>12, <1>13, <1>14, <1>15 DEF Handlers
  <2>2. handler' = [g \in Updates |-> handler'[g]]
    BY <1>1
  <2> QED
    BY <2>1, <2>2
<1> HIDE DEF Waits
<1>17. ASSUME NEW g \in Updates, handler[g].step # "save" PROVE handler'[g] = handler[g]
  BY <1>1, <1>14, <1>17 DEF Waits
<1>18. ApplyTypes'
  <2>1. \A i \in Stored' : requests'[i].telegramId \in People
    BY <1>2, <1>6, <1>7, <1>9 DEF ApplyInv, ApplyTypes, Stored
  <2> QED
    BY <1>1, <1>6, <1>16, <2>1 DEF ApplyInv, ApplyTypes
<1>19. ASSUME NEW g \in Updates PROVE HandlerRight(handler[g])'
  <2>1. CASE g = h
    <3>1. handler'[g] \notin Deciders
      BY <1>8, <1>15, <2>1, Kinds
    <3>2. handler'[g] \in Applicants =>
            handler'[g].step = "announce" /\ handler'[g].id = k /\ k # Absent
      BY <1>1, <1>8, <1>15, <2>1, Kinds
    <3> QED
      BY <1>9, <3>1, <3>2 DEF HandlerRight
  <2>2. CASE g # h /\ Waits(g)
    <3>1. handler'[g] \notin Deciders
      BY <1>13, <2>2, Kinds
    <3> QED
      BY <1>9, <1>12, <1>13, <2>2, <3>1 DEF HandlerRight
  <2>3. CASE g # h /\ ~Waits(g)
    <3>1. handler'[g] = handler[g] /\ HandlerRight(handler[g])
      BY <1>12, <1>14, <2>3
    <3>2. \A i \in Stored : i \in Ids /\ requests'[i] = requests[i]
      BY <1>4, <1>6 DEF Stored
    <3>3. CASE handler[g] \in Deciders
      BY <1>9, <3>1, <3>2, <3>3, Kinds DEF HandlerRight
    <3>4. CASE handler[g] \in Applicants
      <4>1. handler[g].step = "save" =>
              \A p : p = handler[g].telegramId => \A i \in Stored' : First(p, i)' =>
                i \in Stored /\ First(p, i)
        BY <1>9, <1>11, <2>3 DEF Waits
      <4>2. handler[g] \notin Deciders
        BY <3>4, Kinds
      <4>3. handler[g].id # Absent => handler[g].id \in Stored'
        BY <1>9, <3>1, <3>4 DEF HandlerRight
      <4>4. handler[g].step \in {"announce", "reply"} => handler[g].id # Absent
        BY <3>1, <3>4 DEF HandlerRight
      <4>5. ASSUME handler[g].step = "save", handler[g].id = Absent, ~handler[g].late,
                   NEW p, p = handler[g].telegramId, NEW i \in Stored', First(p, i)'
            PROVE  requests'[i].status # "pending"
        <5>1. i \in Stored /\ First(p, i)
          BY <4>1, <4>5
        <5>2. requests[i].status # "pending"
          BY <3>1, <3>4, <4>5, <5>1 DEF HandlerRight
        <5> QED
          BY <3>2, <5>1, <5>2
      <4> QED
        BY <3>1, <4>2, <4>3, <4>4, <4>5 DEF HandlerRight
    <3>5. CASE handler[g] = Idle
      BY <3>1, <3>5, Kinds DEF HandlerRight
    <3> QED
      BY <1>12, <3>3, <3>4, <3>5 DEF Handlers
  <2> QED
    BY <2>1, <2>2, <2>3
<1>20. FirstIsOnly'
  <2> SUFFICES ASSUME NEW p \in People \ doubled', NEW i \in Stored', First(p, i)',
                      requests'[i].status = "pending"
               PROVE  Of(p)' = {i}
    BY DEF FirstIsOnly
  <2>1. p \notin doubled
    BY <1>1
  <2>2. CASE i = k
    BY <1>10, <1>11, <2>2
  <2>3. CASE i # k
    <3>1. i \in Stored /\ First(p, i) /\ requests[i].status = "pending"
      BY <1>6, <1>9, <1>11, <2>3 DEF Stored
    <3>2. CASE p = q
      <4>1. ~r.late
        BY <1>1, <3>2
      <4> QED
        BY <1>1, <1>2, <3>1, <3>2, <4>1 DEF HandlerRight
    <3>3. CASE p # q
      BY <1>10, <2>1, <3>1, <3>3 DEF ApplyInv, FirstIsOnly
    <3> QED
      BY <3>2, <3>3
  <2> QED
    BY <2>2, <2>3
<1>21. PendingIsKnown'
  <2> SUFFICES ASSUME NEW i \in Stored' \ Untold', requests'[i].status = "pending", requests'[i].bot
               PROVE  \/ \E m \in Messages : messages[i][m] = "open"
                      \/ \E g \in Updates : handler'[g].step = "announce" /\ handler'[g].id = i
    BY <1>1 DEF PendingIsKnown
  <2>1. CASE i = k
    BY <1>1, <1>6, <1>7, <1>8, <1>15, <2>1
  <2>2. CASE i # k
    <3>1. i \in Stored /\ requests'[i] = requests[i]
      BY <1>6, <1>9, <2>2 DEF Stored
    <3>2. \/ \E m \in Messages : messages[i][m] = "open"
          \/ \E g \in Updates : handler[g].step = "announce" /\ handler[g].id = i
      BY <1>1, <3>1, SameCut DEF ApplyInv, PendingIsKnown
    <3> QED
      BY <1>17, <3>2
  <2> QED
    BY <2>1, <2>2
<1>22. EnrolledIsHandled'
  <2> SUFFICES ASSUME NEW i \in enrolled \ Unmarked', requests'[i].status = "pending"
               PROVE  \E g \in Updates : handler'[g].step = "handle" /\ handler'[g].id = i /\ handler'[g].status = "approved"
    BY <1>1 DEF EnrolledIsHandled
  <2>1. i \in Stored /\ requests'[i] = requests[i]
    BY <1>4, <1>6 DEF ApplyInv, Stored
  <2>2. PICK g \in Updates : handler[g].step = "handle" /\ handler[g].id = i /\ handler[g].status = "approved"
    BY <1>1, <2>1, SameCut DEF ApplyInv, EnrolledIsHandled
  <2> QED
    BY <1>17, <2>2
<1>23. enrolled' \subseteq Stored' /\ \A i \in Ids, m \in Messages :
         messages'[i][m] # "unsent" => i \in Stored'
  BY <1>1, <1>9 DEF ApplyInv
<1> QED
  BY <1>9, <1>18, <1>19, <1>20, <1>21, <1>22, <1>23 DEF ApplyInv

LEMMA AbsentOldest ==
  ASSUME NEW q, Of(q) = {} PROVE Oldest(q) = Absent
BY Zenon DEF Oldest

\* Having looked, a handler has the person's first application if it is
\* pending, and knows that it is not otherwise.
LEMMA FindStep ==
  ASSUME ApplyInv, NEW h \in Updates, Find(h)
  PROVE  ApplyInv'
<1> DEFINE old == handler[h]
<1>1. PICK i : i = Oldest(old.telegramId)
  OBVIOUS
<1>2. PICK id : id = IF i # Absent /\ requests[i].status = "pending" THEN i ELSE Absent
  OBVIOUS
<1> DEFINE r == [old EXCEPT !.step = "save", !.id = id]
<1>3. old.step = "find" /\ Goes(h, r) /\ UNCHANGED shared
  BY <1>1, <1>2 DEF Find
<1>4. old \in Applicants
  BY <1>3, StepsOfKinds DEF ApplyInv, ApplyTypes
<1>5. \A j : First(old.telegramId, j) => j = i /\ i # Absent
  <2> SUFFICES ASSUME NEW j, First(old.telegramId, j) PROVE j = i /\ i # Absent
    OBVIOUS
  <2>1. Of(old.telegramId) # {}
    BY DEF First
  <2>2. First(old.telegramId, i) /\ i \in Stored
    BY <1>1, <2>1, OldestIsFirst
  <2>3. j = i
    BY <2>2, FirstIsUnique
  <2> QED
    BY <2>2, <2>3, Kinds DEF Stored
<1>6. id # Absent => id \in Stored
  <2>1. CASE Of(old.telegramId) = {}
    BY <1>1, <1>2, <2>1, AbsentOldest
  <2>2. CASE Of(old.telegramId) # {}
    <3>1. i \in Stored
      BY <1>1, <2>2, OldestIsFirst
    <3> QED
      BY <1>2, <3>1
  <2> QED
    BY <2>1, <2>2
<1>7. id = Absent => \A j : First(old.telegramId, j) => requests[j].status # "pending"
  BY <1>2, <1>5
<1>8. /\ r \in Applicants /\ r.step = "save" /\ r.id = id
      /\ r.telegramId = old.telegramId
  BY <1>4, <1>6 DEF Applicants, Stored
<1> HIDE DEF r
<1>9. HandlerRight(r)
  <2>1. r \notin Deciders
    BY <1>8, Kinds
  <2> QED
    BY <1>6, <1>7, <1>8, <2>1 DEF HandlerRight
<1>10. r \in Handlers
  BY <1>8 DEF Handlers
<1>11. session' \in [People -> Sessions] /\ cut' = cut
       /\ UNCHANGED <<requests, messages, enrolled, doubled>>
  BY <1>3 DEF shared, ApplyInv, ApplyTypes
<1>12. CutOff(old) = {}
  BY <1>3 DEF CutOff
<1> QED
  BY <1>3, <1>9, <1>10, <1>11, <1>12, HandlerStep

\* A handler begins.
LEMMA StartStep ==
  ASSUME ApplyInv, NEW h \in Updates, NEW r \in Handlers, HandlerRight(r), Starts(h, r)
  PROVE  ApplyInv'
<1>1. handler[h].step = "idle" /\ Goes(h, r)
  BY Kinds DEF Starts, Goes
<1>2. session' \in [People -> Sessions] /\ cut' = cut
      /\ UNCHANGED <<requests, messages, enrolled, doubled>>
  BY DEF Starts, shared, ApplyInv, ApplyTypes
<1>3. CutOff(handler[h]) = {}
  BY <1>1 DEF CutOff
<1> QED
  BY <1>1, <1>2, <1>3, HandlerStep

\* An applicant's handler has looked at nothing yet.
LEMMA StartsApplying ==
  ASSUME ApplyInv, NEW h \in Updates, NEW p \in People,
         TapTelegramName(h, p) \/ TextName(h, p) \/ ApplyByHttp(h, p)
  PROVE  ApplyInv'
<1>1. PICK chat \in People \cup {Absent}, q \in People : Starts(h, Applying(chat, q))
  <2>1. session[p] \in Sessions
    BY DEF ApplyInv, ApplyTypes
  <2>2. session[p].contact # Absent => session[p].contact \in People
    BY <2>1 DEF Sessions
  <2> QED
    BY <2>2 DEF TapTelegramName, TextName, ApplyByHttp
<1>2. PICK r : r = Applying(chat, q)
  OBVIOUS
<1>3. r \in Applicants /\ r.step = "find" /\ r.id = Absent
  BY <1>2 DEF Applying, Applicants
<1>4. HandlerRight(r) /\ r \in Handlers
  BY <1>3, Kinds DEF HandlerRight, Handlers
<1> QED
  BY <1>1, <1>2, <1>4, StartStep

\* A message that has buttons is about a stored application.
LEMMA StartsDeciding ==
  ASSUME ApplyInv, NEW h \in Updates, NEW i \in Ids, NEW m \in Messages,
         TapApprove(h, i, m) \/ TapReject(h, i, m)
  PROVE  ApplyInv'
<1>1. PICK step \in {"student", "handle"}, s \in Verdicts :
        Starts(h, Deciding(i, m, step, s)) /\ (step = "student" => s = "approved")
  BY DEF TapApprove, TapReject, Verdicts
<1>2. PICK r : r = Deciding(i, m, step, s)
  OBVIOUS
<1>3. r \in Deciders /\ r.step # "edit" /\ r.id = i /\ (r.step = "student" => r.status = "approved")
  BY <1>1, <1>2 DEF Deciding, Deciders
<1>4. i \in Stored
  BY DEF TapApprove, TapReject, ApplyInv
<1>5. HandlerRight(r) /\ r \in Handlers
  BY <1>3, <1>4, Kinds DEF HandlerRight, Handlers
<1> QED
  BY <1>1, <1>2, <1>5, StartStep

\* Handlers that end, or go from what they saved to its announcement.
LEMMA EndStep ==
  ASSUME ApplyInv, NEW h \in Updates, SaveExisting(h) \/ Applied(h) \/ Tell(h) \/ Throw(h)
  PROVE  ApplyInv'
<1>0. /\ handler[h] \in Handlers /\ HandlerRight(handler[h])
      /\ session \in [People -> Sessions] /\ Fresh \in Sessions
      /\ Idle \in Handlers /\ HandlerRight(Idle)
  BY Kinds DEF ApplyInv, ApplyTypes, HandlerRight, Handlers, Fresh, Sessions
<1>1. CASE SaveExisting(h)
  <2>1. PICK r : r = AfterSave(handler[h], handler[h].id)
    OBVIOUS
  <2>2. /\ handler[h].step = "save" /\ handler[h].id # Absent
        /\ Goes(h, r) /\ UNCHANGED shared
    BY <1>1, <2>1 DEF SaveExisting
  <2>3. handler[h] \in Applicants /\ handler[h].id \in Stored
    BY <1>0, <2>2, StepsOfKinds DEF HandlerRight
  <2>4. r # Idle => r \in Applicants /\ r.step = "announce" /\ r.id = handler[h].id
    BY <2>1, <2>2, <2>3 DEF AfterSave, Applicants
  <2>5. r \in Handlers /\ HandlerRight(r)
    <3>1. CASE r = Idle
      BY <1>0, <3>1
    <3>2. CASE r # Idle
      <4>1. r \notin Deciders /\ r \in Applicants
        BY <2>4, <3>2, Kinds
      <4> QED
        BY <2>2, <2>3, <2>4, <3>2, <4>1 DEF HandlerRight, Handlers
    <3> QED
      BY <3>1, <3>2
  <2>6. CutOff(handler[h]) = {}
    BY <2>2 DEF CutOff
  <2> QED
    BY <1>0, <2>2, <2>5, <2>6, HandlerStep DEF shared
<1>2. CASE Applied(h)
  <2>1. session' \in [People -> Sessions]
    BY <1>0, <1>2 DEF Applied
  <2> QED
    BY <1>0, <1>2, <2>1, HandlerStep DEF Applied, CutOff
<1>3. CASE Tell(h)
  BY <1>0, <1>3, HandlerStep DEF Tell, shared, CutOff
<1>4. CASE Throw(h)
  <2>1. /\ cut \subseteq cut' /\ Goes(h, Idle)
        /\ UNCHANGED <<session, requests, messages, enrolled, doubled>>
        /\ CutOff(handler[h]) \subseteq cut'
    BY <1>4 DEF Throw
  <2> QED
    BY <1>0, <2>1, HandlerStep
<1> QED
  BY <1>1, <1>2, <1>3, <1>4

LEMMA AnnounceStep ==
  ASSUME ApplyInv, NEW h \in Updates, Announce(h)
  PROVE  ApplyInv'
<1> DEFINE old == handler[h]
           r == [old EXCEPT !.step = "reply"]
<1>1. PICK m \in Messages : messages' = [messages EXCEPT ![old.id][m] = "open"]
  BY DEF Announce
<1>2. /\ old.step = "announce" /\ Goes(h, r)
      /\ UNCHANGED <<session, requests, students, enrolled, cut, doubled>>
  BY DEF Announce
<1>3. old \in Applicants /\ HandlerRight(old)
  BY <1>2, StepsOfKinds DEF ApplyInv, ApplyTypes
<1>4. old.id # Absent /\ old.id \in Stored
  BY <1>2, <1>3 DEF HandlerRight
<1>5. r \in Applicants /\ r.step = "reply" /\ r.id = old.id
  BY <1>3 DEF Applicants
<1> HIDE DEF r
<1>6. r \in Handlers /\ HandlerRight(r)
  <2>1. r \notin Deciders
    BY <1>5, Kinds
  <2> QED
    BY <1>4, <1>5, <2>1 DEF HandlerRight, Handlers
<1>7. PICK i \in Stored : i = old.id
  BY <1>4
<1>8. "open" \in Fates \ {"unsent"}
  BY DEF Fates
<1> QED
  BY <1>1, <1>2, <1>6, <1>7, <1>8, MessageStep

LEMMA EditStep ==
  ASSUME ApplyInv, NEW h \in Updates, Edit(h)
  PROVE  ApplyInv'
<1> DEFINE old == handler[h]
           r == [old EXCEPT !.step = "tell"]
<1>1. /\ messages' = [messages EXCEPT ![old.id][old.message] = old.status]
      /\ old.step = "edit" /\ Goes(h, r)
      /\ UNCHANGED <<session, requests, students, enrolled, cut, doubled>>
  BY DEF Edit
<1>2. old \in Deciders /\ HandlerRight(old)
  BY <1>1, StepsOfKinds DEF ApplyInv, ApplyTypes
<1>3. old.id \in Stored /\ requests[old.id].status # "pending"
  BY <1>1, <1>2 DEF HandlerRight
<1>4. r \in Deciders /\ r.step = "tell" /\ r.id = old.id
  BY <1>2 DEF Deciders
<1> HIDE DEF r
<1>5. r \in Handlers /\ HandlerRight(r)
  <2>1. r \notin Applicants
    BY <1>4, Kinds
  <2> QED
    BY <1>3, <1>4, <2>1 DEF HandlerRight, Handlers
<1>6. PICK i \in Stored, m \in Messages, f \in Fates \ {"unsent"} :
        i = old.id /\ m = old.message /\ f = old.status
  BY <1>2, <1>3 DEF Deciders, Fates, Verdicts
<1> QED
  BY <1>1, <1>3, <1>5, <1>6, MessageStep

LEMMA HandleStep ==
  ASSUME ApplyInv, NEW h \in Updates, Handle(h)
  PROVE  ApplyInv'
<1> DEFINE old == handler[h]
           r == [old EXCEPT !.step = "edit"]
<1>1. /\ requests' = [requests EXCEPT ![old.id].status = old.status]
      /\ old.step = "handle" /\ handler' = [handler EXCEPT ![h] = r]
      /\ UNCHANGED <<session, students, messages, enrolled, cut, doubled>>
  BY DEF Handle, Goes
<1>2. old \in Deciders /\ HandlerRight(old)
  BY <1>1, StepsOfKinds DEF ApplyInv, ApplyTypes
<1>3. old.id \in Stored
  BY <1>2 DEF HandlerRight
<1>4. r \in Deciders /\ r.step = "edit" /\ r.id = old.id
  BY <1>2 DEF Deciders
<1> HIDE DEF r
<1>5. /\ handler' \in [Updates -> Handlers]
      /\ \A g \in Updates : handler'[g] = IF g = h THEN r ELSE handler[g]
  BY <1>1, <1>4 DEF ApplyInv, ApplyTypes, Handlers
<1>6. PICK i \in Stored, s \in Verdicts : i = old.id /\ s = old.status
  BY <1>2, <1>3 DEF Deciders
<1>7. \A g \in Updates : \/ handler'[g] = handler[g]
                         \/ /\ handler[g].step = "handle" /\ handler[g].id = i
                            /\ handler'[g].step = "edit" /\ handler'[g].id = i
  BY <1>1, <1>4, <1>5, <1>6
<1> QED
  BY <1>1, <1>5, <1>6, <1>7, DecisionStep

LEMMA HandleByHttpStep ==
  ASSUME ApplyInv, NEW i \in Ids, NEW s \in Verdicts, HandleByHttp(i, s)
  PROVE  ApplyInv'
<1>1. /\ i \in Stored /\ requests' = [requests EXCEPT ![i].status = s]
      /\ UNCHANGED <<session, students, messages, handler, enrolled, cut, doubled>>
  BY DEF HandleByHttp
<1>2. handler' \in [Updates -> Handlers] /\ \A g \in Updates : handler'[g] = handler[g]
  BY <1>1 DEF ApplyInv, ApplyTypes
<1> QED
  BY <1>1, <1>2, DecisionStep

\* What chats and the staff do in one step.
LEMMA PeopleStep ==
  ASSUME ApplyInv, NEW p \in People,
         \/ \E q \in People \cup {Absent} : Contact(p, q)
         \/ TapWriteName(p) \/ AskForSomethingElse(p) \/ SomethingElseDone(p)
         \/ StaffAddsId(p)
         \/ \E q \in People \cup {Absent} : StaffChangesId(p, q)
  PROVE  ApplyInv'
<1>0. session \in [People -> Sessions] /\ session[p] \in Sessions
  BY DEF ApplyInv, ApplyTypes
<1>1. CASE \E s \in Sessions : Answers(p, s)
  <2>1. session' \in [People -> Sessions]
    BY <1>0, <1>1 DEF Answers
  <2> QED
    BY <1>1, <2>1, QuietStep DEF Answers
<1>2. CASE StaffAddsId(p) \/ \E q \in People \cup {Absent} : StaffChangesId(p, q)
  BY <1>0, <1>2, QuietStep DEF StaffAddsId, StaffChangesId
<1>3. Fresh \in Sessions
  BY DEF Fresh, Sessions
<1>4. ASSUME NEW q \in People \cup {Absent}, Contact(p, q) PROVE \E s \in Sessions : Answers(p, s)
  <2>1. [Fresh EXCEPT !.contact = q] \in Sessions
    BY <1>3 DEF Sessions
  <2> QED
    BY <1>4, <2>1 DEF Contact
<1>5. \A step \in {"none", "name", "other"} : [session[p] EXCEPT !.step = step] \in Sessions
  BY <1>0 DEF Sessions
<1>6. TapWriteName(p) \/ AskForSomethingElse(p) \/ SomethingElseDone(p)
        => \E s \in Sessions : Answers(p, s)
  BY <1>3, <1>5 DEF TapWriteName, AskForSomethingElse, SomethingElseDone
<1> QED
  BY <1>1, <1>2, <1>4, <1>6

-----------------------------------------------------------------------------

LEMMA ApplyInitInv == ApplyInit => ApplyInv
<1> SUFFICES ASSUME ApplyInit PROVE ApplyInv
  OBVIOUS
<1>1. Stored = {} /\ Stored = 1..0
  BY DEF ApplyInit, Stored, NoRequest
<1>2. ApplyTypes
  BY <1>1 DEF ApplyInit, ApplyTypes, Sessions, Fresh, RequestDocs, NoRequest, Fates, Handlers
<1>3. \A h \in Updates : HandlerRight(handler[h])
  BY Kinds DEF ApplyInit, HandlerRight
<1>4. FirstIsOnly /\ PendingIsKnown /\ EnrolledIsHandled
  BY <1>1 DEF ApplyInit, FirstIsOnly, PendingIsKnown, EnrolledIsHandled
<1> QED
  BY <1>1, <1>2, <1>3, <1>4 DEF ApplyInv, ApplyInit

LEMMA ApplyNextInv ==
  ASSUME ApplyInv, [ApplyNext]_applyVars PROVE ApplyInv'
<1>1. CASE UNCHANGED applyVars
  BY <1>1, QuietStep DEF applyVars, ApplyInv, ApplyTypes
<1>2. ASSUME NEW h \in Updates, Continues(h) PROVE ApplyInv'
  BY <1>2, FindStep, InsertStep, EndStep, AnnounceStep, StudentStep, HandleStep, EditStep DEF Continues
<1>3. CASE \E i \in Ids, s \in Verdicts : HandleByHttp(i, s)
  BY <1>3, HandleByHttpStep
<1>4. CASE Restart
  BY <1>4, RestartStep
<1> QED
  BY <1>1, <1>2, <1>3, <1>4, PeopleStep, StartsApplying, StartsDeciding DEF ApplyNext

\* The inductive invariant: handlers know what they looked at, those who have
\* looked and found nothing pending are late or right, and ids are given out
\* in order.
THEOREM ApplicationsInvariant == ApplySpec => []ApplyInv
<1> QED
  BY ApplyInitInv, ApplyNextInv, PTL DEF ApplySpec

LEMMA OldestFromFirst ==
  ASSUME ApplyInv PROVE OldestPendingIsOnly
<1> SUFFICES ASSUME NEW q \in People \ doubled, NEW i, i = Oldest(q), i # Absent,
                    requests[i].status = "pending"
             PROVE  Of(q) = {i}
  BY Zenon DEF OldestPendingIsOnly
<1>1. Of(q) # {}
  BY AbsentOldest
<1>2. First(q, i) /\ i \in Stored
  BY <1>1, OldestIsFirst
<1> QED
  BY <1>2 DEF ApplyInv, FirstIsOnly

\* Applying again while an application is pending changes it and adds none
\* (PhoneRequestService.create), unless two were inserted at once.
THEOREM OnePendingEach == ApplySpec => []OldestPendingIsOnly
<1>1. ApplyInv => OldestPendingIsOnly
  BY OldestFromFirst
<1> QED
  BY <1>1, ApplicationsInvariant, PTL

\* Whoever applies in the bot, and however often, the administrators have a
\* message to decide it with, unless a handler was cut off just when it was to
\* send that message.
THEOREM PendingAreAnnounced == ApplySpec => []PendingIsKnown
<1>1. ApplyInv => PendingIsKnown
  BY DEF ApplyInv
<1> QED
  BY <1>1, ApplicationsInvariant, PTL

\* A student was created only from an application that is decided, or whose
\* handler is about to approve it, unless it was cut off between the two writes.
THEOREM StudentsAreDecided == ApplySpec => []EnrolledIsHandled
<1>1. ApplyInv => EnrolledIsHandled
  BY DEF ApplyInv
<1> QED
  BY <1>1, ApplicationsInvariant, PTL

-----------------------------------------------------------------------------
(* The rate limit *)

Buckets == [count : 0..(Most + 1), left : 0..Window]
Admissions == [age : Ages, place : Nat, count : 1..Most, opened : Nat]

\* A trace of a window is a counted request that waits, or one let through.
IsTrace(x) == x.opened \in Nat /\ x.count \in Nat

\* How late an admission may be after its count.
Lag(s) == IF s = Redis THEN Timeout ELSE 0

\* A trace that is 'age' old has got its count at most 'lag' before.
Dated(x, lag) ==
  /\ x.opened <= x.age + lag + Window - 1
  /\ x.count = 1 => x.opened <= x.age + lag

\* It is of the window its bucket is in, or of one that was over when that one
\* opened.
PlacedIn(b, x) ==
  IF b.left > 0
  THEN \/ x.opened = Window - b.left /\ x.count <= b.count
       \/ x.opened >= 2 * Window - b.left
  ELSE x.opened >= Window

\* Two windows do not overlap.
Apart(x, y) ==
  \/ x.opened = y.opened
  \/ x.opened >= y.opened + Window
  \/ y.opened >= x.opened + Window

\* The same count of the same window.
Alike(x, y) == x.opened = y.opened /\ x.count = y.count

SetRight(A, b, lag) ==
  \A t \in A : /\ Dated(t, lag) /\ PlacedIn(b, t)
               /\ \A u \in A : Apart(t, u) /\ (Alike(t, u) => t = u)

Awaiting == {r \in Requests : waiting[r].step = "counted"}

BucketsRight ==
  /\ \A s \in Stores : bucket[s].left > 0 => bucket[s].count > 0
  /\ bucket[Redis].left = 0 => bucket[Redis].count = 0

AdmittedRight == \A s \in Stores : SetRight(admitted[s], bucket[s], Lag(s))

WaitingRight ==
  \A r \in Awaiting :
    /\ Dated(waiting[r], 0) /\ PlacedIn(bucket[Redis], waiting[r])
    /\ \A t \in admitted[Redis] : Apart(waiting[r], t) /\ ~Alike(waiting[r], t)
    /\ \A q \in Awaiting : /\ Apart(waiting[r], waiting[q])
                           /\ Alike(waiting[r], waiting[q]) /\ Admits(waiting[r].count) => q = r

LimitInv == LimitTypes /\ BucketsRight /\ AdmittedRight /\ WaitingRight

-----------------------------------------------------------------------------

LEMMA Numbers ==
  /\ Window \in Nat /\ Window > 0 /\ Timeout \in Nat /\ Most \in Nat /\ Most > 0
  /\ Redis \in Stores /\ \A s \in Servers : s \in Stores /\ Lag(s) = 0
  /\ Lag(Redis) = Timeout
  /\ \A s \in Stores : Lag(s) \in Nat
BY RateLimitAssumption DEF Stores, Lag

\* Windows as numbers: how many times Window fits.
LEMMA Fits ==
  ASSUME NEW o \in Nat
  PROVE  /\ o \div Window \in Nat
         /\ Window * (o \div Window) <= o /\ o < Window * (o \div Window) + Window
BY Numbers

LEMMA Multiples ==
  ASSUME NEW a \in Nat, NEW b \in Nat, a > b
  PROVE  Window * a >= Window * b + Window
<1>1. PICK c \in Nat : a = b + 1 + c
  <2>1. a - b - 1 \in Nat /\ a = b + 1 + (a - b - 1)
    OBVIOUS
  <2> QED
    BY <2>1
<1>2. Window * c \in Nat
  BY Numbers
<1>3. Window * a = Window * b + Window + Window * c
  BY <1>1, Numbers
<1> QED
  BY <1>2, <1>3, Numbers

LEMMA FitsMonotone ==
  ASSUME NEW o \in Nat, NEW l \in Nat
  PROVE  /\ o <= l => o \div Window <= l \div Window
         /\ o <= l + Window => o \div Window <= l \div Window + 1
<1> DEFINE a == o \div Window
           b == l \div Window
<1>1. /\ a \in Nat /\ Window * a <= o
      /\ b \in Nat /\ l < Window * b + Window
  BY Fits
<1> HIDE DEF a, b
<1>2. Window * a \in Nat /\ Window * b \in Nat /\ Window * (b + 1) = Window * b + Window
  BY <1>1, Numbers
<1>3. ASSUME o <= l, a > b PROVE FALSE
  <2>1. Window * a >= Window * b + Window
    BY <1>1, <1>3, Multiples
  <2> QED
    BY <1>1, <1>2, <1>3, <2>1, Numbers
<1>4. ASSUME o <= l + Window, a > b + 1 PROVE FALSE
  <2>1. Window * a >= Window * (b + 1) + Window
    BY <1>1, <1>4, Multiples
  <2> QED
    BY <1>1, <1>2, <1>4, <2>1, Numbers
<1> QED
  BY <1>1, <1>3, <1>4 DEF a, b

LEMMA SameFit ==
  ASSUME NEW o \in Nat, NEW p \in Nat, o \div Window = p \div Window
  PROVE  o < p + Window /\ p < o + Window
<1> DEFINE a == o \div Window
<1>1. /\ a \in Nat /\ Window * a <= o /\ o < Window * a + Window
      /\ Window * a <= p /\ p < Window * a + Window
  BY Fits
<1> HIDE DEF a
<1>2. Window * a \in Nat
  BY <1>1, Numbers
<1> QED
  BY <1>1, <1>2, Numbers

\* The windows an admission can be of.
LEMMA WindowsOf ==
  ASSUME NEW s \in Stores PROVE Windows(s) = 2 + (Lag(s) + Window - 1) \div Window
<1>1. CASE s = Redis
  BY <1>1 DEF Windows, Lag
<1>2. CASE s # Redis
  <2> DEFINE a == (Window - 1) \div Window
  <2>1. Window - 1 \in Nat
    BY Numbers
  <2>2. a \in Nat /\ Window * a <= Window - 1
    BY <2>1, Fits
  <2> HIDE DEF a
  <2>3. a > 0 => Window * a >= Window * 0 + Window
    BY <2>2, Multiples
  <2>4. a = 0
    BY <2>2, <2>3, Numbers
  <2> QED
    BY <1>2, <2>4, Numbers DEF Windows, Lag, a
<1> QED
  BY <1>1, <1>2

\* Admissions are told apart by their windows and counts, and the oldest window
\* has lost the first of its own.
LEMMA AdmissionsCounted ==
  ASSUME NEW A \in SUBSET Admissions, NEW b, NEW lag \in Nat, SetRight(A, b, lag)
  PROVE  /\ IsFiniteSet(A)
         /\ Cardinality(A) < Most * (2 + (lag + Window - 1) \div Window)
<1> DEFINE l == lag + Window - 1
           k == l \div Window
           P == (0..(k + 1)) \X (1..Most)
           T == P \ {<<k + 1, 1>>}
           f == [t \in A |-> <<t.opened \div Window, t.count>>]
<1>1. l \in Nat /\ k \in Nat
  <2>1. l \in Nat
    BY Numbers
  <2> QED
    BY <2>1, Fits
<1>2. ASSUME NEW t \in A PROVE f[t] \in T
  <2>1. /\ t.opened \in Nat /\ t.count \in 1..Most /\ t.age \in Nat /\ t.age <= Window - 1
        /\ t.opened <= t.age + lag + Window - 1
        /\ t.count = 1 => t.opened <= t.age + lag
    BY Numbers DEF Admissions, Ages, SetRight, Dated
  <2>2. t.opened <= l + Window /\ (t.count = 1 => t.opened <= l)
    BY <2>1, Numbers
  <2> HIDE DEF l
  <2>3. t.opened \div Window \in Nat /\ t.opened \div Window <= k + 1
    BY <1>1, <2>1, <2>2, Fits, FitsMonotone
  <2>4. t.count = 1 => t.opened \div Window <= k
    BY <1>1, <2>1, <2>2, FitsMonotone
  <2>5. PICK w \in Nat : w = t.opened \div Window
    BY <2>3
  <2> HIDE DEF k
  <2>6. <<w, t.count>> \in P /\ <<w, t.count>> # <<k + 1, 1>>
    BY <1>1, <2>1, <2>3, <2>4, <2>5
  <2> QED
    BY <2>5, <2>6
<1>3. ASSUME NEW t \in A, NEW u \in A, f[t] = f[u] PROVE t = u
  <2>1. t.opened \div Window = u.opened \div Window /\ t.count = u.count
    BY <1>3
  <2>2. t.opened \in Nat /\ u.opened \in Nat
    BY DEF Admissions
  <2>3. t.opened < u.opened + Window /\ u.opened < t.opened + Window
    BY <2>1, <2>2, SameFit
  <2>4. Apart(t, u) /\ (Alike(t, u) => t = u)
    BY DEF SetRight
  <2>5. t.opened = u.opened
    BY <2>2, <2>3, <2>4, Numbers DEF Apart
  <2> QED
    BY <2>1, <2>4, <2>5 DEF Alike
<1>4. f \in Injection(A, T)
  <2>1. f \in [A -> T]
    BY <1>2
  <2>2. IsInjective(f)
    BY <1>3 DEF IsInjective
  <2> QED
    BY <2>1, <2>2 DEF Injection
<1> HIDE DEF f, k
<1>5. IsFiniteSet(P) /\ Cardinality(P) = (k + 2) * Most
  <2>1. /\ IsFiniteSet(0..(k + 1)) /\ Cardinality(0..(k + 1)) = k + 2
        /\ IsFiniteSet(1..Most) /\ Cardinality(1..Most) = Most
    <3>1. ASSUME NEW a \in Nat, NEW m \in Nat, a <= m + 1
          PROVE  IsFiniteSet(a..m) /\ Cardinality(a..m) = m - a + 1
      BY <3>1, FS_Interval
    <3>2. k + 1 \in Nat /\ Most \in Nat
      BY <1>1, Numbers
    <3> QED
      BY <1>1, <3>1, <3>2
  <2> QED
    BY <2>1, FS_Product
<1>6. <<k + 1, 1>> \in P
  BY <1>1, Numbers
<1> HIDE DEF P
<1>7. IsFiniteSet(T) /\ Cardinality(T) = (k + 2) * Most - 1
  BY <1>5, <1>6, FS_RemoveElement
<1> HIDE DEF T
<1>8. IsFiniteSet(A) /\ Cardinality(A) <= Cardinality(T)
  BY <1>4, <1>7, FS_Injection
<1>9. Cardinality(A) \in Nat /\ (k + 2) * Most \in Nat /\ (k + 2) * Most = Most * (2 + k)
  BY <1>1, <1>8, FS_CardinalityType, Numbers
<1> QED
  BY <1>7, <1>8, <1>9 DEF k

LEMMA ThroughIsBounded ==
  ASSUME LimitInv
  PROVE  /\ \A s \in Stores : IsFiniteSet(admitted[s])
         /\ SpanBounded
<1> SUFFICES ASSUME NEW s \in Stores
             PROVE  IsFiniteSet(admitted[s]) /\ Cardinality(admitted[s]) < Most * Windows(s)
  BY DEF SpanBounded
<1>1. admitted[s] \in SUBSET Admissions /\ SetRight(admitted[s], bucket[s], Lag(s))
  BY DEF LimitInv, LimitTypes, AdmittedRight, Admissions
<1>2. Lag(s) \in Nat
  BY Numbers
<1> QED
  BY <1>1, <1>2, AdmissionsCounted, WindowsOf

-----------------------------------------------------------------------------

\* An increment: what it counts is new, and old traces stay in their windows.
LEMMA Incremented ==
  ASSUME NEW b \in Buckets, b.left > 0 => b.count > 0, NEW c,
         \/ c = MemoryIncrement(b)
         \/ (b.left = 0 => b.count = 0) /\ c = RedisIncrement(b)
  PROVE  /\ c \in Buckets /\ c.left > 0 /\ c.count > 0 /\ (c.count = 1 => c.left = Window)
         /\ Window - c.left \in Nat
         /\ \A x : IsTrace(x) /\ PlacedIn(b, x) => PlacedIn(c, x)
         /\ \A x, y : /\ IsTrace(x) /\ PlacedIn(b, x)
                      /\ y.opened = Window - c.left /\ y.count = c.count
                      => /\ Apart(x, y) /\ Apart(y, x)
                         /\ Admits(c.count) => ~Alike(x, y) /\ ~Alike(y, x)
<1>1. /\ b.count \in 0..(Most + 1) /\ b.left \in 0..Window
      /\ Plus1(b.count) \in 1..(Most + 1) /\ (Plus1(b.count) = 1 => b.count = 0)
      /\ Plus1(b.count) >= b.count /\ (Admits(Plus1(b.count)) => Plus1(b.count) = b.count + 1)
      /\ Plus1(0) = 1
  BY Numbers DEF Buckets, Plus1, Admits
<1>2. CASE b.left > 0
  <2>1. c \in Buckets /\ c.left = b.left /\ c.count = Plus1(b.count) /\ c.count > 1
    BY <1>1, <1>2, Numbers DEF MemoryIncrement, RedisIncrement, Buckets
  <2> QED
    BY <1>1, <1>2, <2>1, Numbers DEF IsTrace, PlacedIn, Apart, Alike
<1>3. CASE b.left = 0
  <2>1. c \in Buckets /\ c.left = Window /\ c.count = 1
    BY <1>1, <1>3, Numbers DEF MemoryIncrement, RedisIncrement, Buckets
  <2> QED
    BY <1>1, <1>3, <2>1, Numbers DEF IsTrace, PlacedIn, Apart, Alike
<1> QED
  BY <1>1, <1>2, <1>3

LEMMA OneMore ==
  ASSUME NEW A, NEW t, NEW b, NEW lag, SetRight(A, b, lag), Dated(t, lag), PlacedIn(b, t),
         \A u \in A : Apart(t, u) /\ Apart(u, t) /\ ~Alike(t, u) /\ ~Alike(u, t)
  PROVE  SetRight(A \cup {t}, b, lag)
<1>1. Apart(t, t)
  BY DEF Apart
<1> QED
  BY <1>1 DEF SetRight

LEMMA OneThrough ==
  ASSUME LimitInv, NEW s \in Stores, NEW n \in 1..Most, NEW opened \in Nat,
         LetThrough(s, n, opened)
  PROVE  \E t \in Admissions :
           /\ t.age = 0 /\ t.count = n /\ t.opened = opened
           /\ admitted' \in [Stores -> SUBSET Admissions]
           /\ admitted'[s] = admitted[s] \cup {t}
           /\ \A z \in Stores \ {s} : admitted'[z] = admitted[z]
<1> DEFINE A == {t \in admitted[s] : t.age = 0}
<1>1. IsFiniteSet(admitted[s]) /\ A \in SUBSET admitted[s]
  BY ThroughIsBounded
<1>2. Cardinality(A) \in Nat
  BY <1>1, FS_Subset, FS_CardinalityType
<1>3. PICK place \in Nat : place = Cardinality(A)
  BY <1>2
<1> DEFINE t == [age |-> 0, place |-> place, count |-> n, opened |-> opened]
<1>4. admitted' = [admitted EXCEPT ![s] = admitted[s] \cup {t}]
  BY <1>3 DEF LetThrough
<1>5. t \in Admissions /\ t.age = 0 /\ t.count = n /\ t.opened = opened
  BY Numbers DEF Admissions, Ages
<1> HIDE DEF t
<1>6. admitted \in [Stores -> SUBSET Admissions]
  BY DEF LimitInv, LimitTypes, Admissions
<1> QED
  BY <1>4, <1>5, <1>6

LEMMA TracesTyped ==
  ASSUME LimitInv
  PROVE  /\ \A s \in Stores : /\ bucket[s] \in Buckets
                              /\ \A t \in admitted[s] : t \in Admissions /\ IsTrace(t)
         /\ \A r \in Awaiting : /\ r \in Requests /\ IsTrace(waiting[r])
                                /\ waiting[r] \in [step : {"counted"}, age : 0..Timeout,
                                                   count : 1..(Most + 1), opened : Nat]
<1>1. /\ \A s \in Stores : bucket[s] \in Buckets /\ admitted[s] \in SUBSET Admissions
  BY DEF LimitInv, LimitTypes, Buckets, Admissions
<1>2. \A t \in Admissions : IsTrace(t)
  BY Numbers DEF Admissions, IsTrace
<1>3. ASSUME NEW r \in Awaiting
      PROVE  /\ r \in Requests /\ IsTrace(waiting[r])
             /\ waiting[r] \in [step : {"counted"}, age : 0..Timeout,
                                count : 1..(Most + 1), opened : Nat]
  <2>1. r \in Requests /\ waiting[r].step = "counted"
    BY DEF Awaiting
  <2>2. waiting[r] \in [step : {"counted"}, age : 0..Timeout,
                        count : 1..(Most + 1), opened : Nat]
    BY <2>1 DEF LimitInv, LimitTypes, Unused, Ghost
  <2> QED
    BY <2>1, <2>2, Numbers DEF IsTrace
<1> QED
  BY <1>1, <1>2, <1>3

LEMMA OtherBucket ==
  ASSUME NEW A, NEW b, NEW c, NEW lag, SetRight(A, b, lag),
         \A t \in A : PlacedIn(b, t) => PlacedIn(c, t)
  PROVE  SetRight(A, c, lag)
BY DEF SetRight

\* Requests that begin to wait, or give up.
LEMMA QuietLimit ==
  ASSUME LimitInv, UNCHANGED <<provider, bucket, admitted>>,
         waiting' \in [Requests -> {Unused, Ghost}
                     \cup [step : {"sent"}, age : 0..Timeout]
                     \cup [step : {"counted"}, age : 0..Timeout, count : 1..(Most + 1),
                            opened : Nat]],
         \A r \in Awaiting' : r \in Awaiting /\ waiting'[r] = waiting[r]
  PROVE  LimitInv'
<1>1. LimitTypes'
  BY DEF LimitInv, LimitTypes
<1>2. BucketsRight' /\ AdmittedRight'
  BY DEF LimitInv, BucketsRight, AdmittedRight
<1>3. WaitingRight'
  BY DEF LimitInv, WaitingRight
<1> QED
  BY <1>1, <1>2, <1>3 DEF LimitInv

\* A request is counted in memory and perhaps goes through.
LEMMA GuardStep ==
  ASSUME LimitInv, NEW s \in Servers, Guard(s)
  PROVE  LimitInv'
<1>1. PICK b, c : b = bucket[s] /\ c = MemoryIncrement(b)
  OBVIOUS
<1>2. /\ s \in Stores /\ s # Redis /\ Redis \in Stores
      /\ b \in Buckets /\ (b.left > 0 => b.count > 0)
      /\ bucket \in [Stores -> Buckets]
  BY <1>1, Numbers, TracesTyped, RateLimitAssumption
     DEF LimitInv, BucketsRight, LimitTypes, Buckets
<1>3. bucket' = [bucket EXCEPT ![s] = c] /\ UNCHANGED <<provider, waiting>>
  BY <1>1 DEF Guard
<1>4. /\ c \in Buckets /\ c.left > 0 /\ c.count > 0 /\ (c.count = 1 => c.left = Window)
      /\ Window - c.left \in Nat
      /\ \A x : IsTrace(x) /\ PlacedIn(b, x) => PlacedIn(c, x)
      /\ \A x, y : /\ IsTrace(x) /\ PlacedIn(b, x)
                   /\ y.opened = Window - c.left /\ y.count = c.count
                   => /\ Apart(x, y) /\ Apart(y, x)
                      /\ Admits(c.count) => ~Alike(x, y) /\ ~Alike(y, x)
  BY <1>1, <1>2, Incremented
<1>5. /\ bucket' \in [Stores -> Buckets]
      /\ \A z \in Stores : bucket'[z] = IF z = s THEN c ELSE bucket[z]
  BY <1>2, <1>3, <1>4
<1>6. BucketsRight'
  BY <1>2, <1>4, <1>5 DEF LimitInv, BucketsRight
<1>7. SetRight(admitted[s], b, Lag(s)) /\ \A t \in admitted[s] : IsTrace(t) /\ PlacedIn(b, t)
  BY <1>1, <1>2, TracesTyped DEF LimitInv, AdmittedRight, SetRight
<1>8. SetRight(admitted[s], c, Lag(s))
  BY <1>4, <1>7, OtherBucket
<1>9. CASE Admits(c.count)
  <2>0. PICK n, o : n = c.count /\ o = Window - c.left
    OBVIOUS
  <2>1. LetThrough(s, n, o)
    BY <1>2, <1>5, <1>9, <2>0 DEF Guard
  <2>2. n \in 1..Most /\ o \in Nat
    BY <1>4, <1>9, <2>0, Numbers DEF Buckets, Admits
  <2>3. PICK t \in Admissions :
          /\ t.age = 0 /\ t.count = n /\ t.opened = o
          /\ admitted' \in [Stores -> SUBSET Admissions]
          /\ admitted'[s] = admitted[s] \cup {t}
          /\ \A z \in Stores \ {s} : admitted'[z] = admitted[z]
    BY <1>2, <2>1, <2>2, OneThrough
  <2>4. Dated(t, Lag(s)) /\ PlacedIn(c, t)
    BY <1>2, <1>4, <2>0, <2>3, Numbers DEF Dated, PlacedIn, Buckets
  <2>5. \A u \in admitted[s] : Apart(t, u) /\ Apart(u, t) /\ ~Alike(t, u) /\ ~Alike(u, t)
    BY <1>4, <1>7, <1>9, <2>0, <2>3
  <2>6. SetRight(admitted[s] \cup {t}, c, Lag(s))
    BY <1>8, <2>4, <2>5, OneMore
  <2>7. \A z \in Stores : SetRight(admitted'[z], bucket'[z], Lag(z))
    BY <1>2, <1>5, <2>3, <2>6 DEF LimitInv, AdmittedRight
  <2>8. AdmittedRight'
    BY <2>7 DEF AdmittedRight, Lag
  <2>9. WaitingRight'
    BY <1>2, <1>3, <1>5, <2>3 DEF LimitInv, WaitingRight, Awaiting
  <2>10. LimitTypes'
    BY <1>3, <1>5, <2>3 DEF LimitInv, LimitTypes, Buckets, Admissions
  <2> QED
    BY <1>6, <2>8, <2>9, <2>10 DEF LimitInv
<1>10. CASE ~Admits(c.count)
  <2>1. admitted' = admitted
    BY <1>2, <1>5, <1>10 DEF Guard
  <2>2. \A z \in Stores : SetRight(admitted'[z], bucket'[z], Lag(z))
    BY <1>2, <1>5, <1>8, <2>1 DEF LimitInv, AdmittedRight
  <2>3. AdmittedRight'
    BY <2>2 DEF AdmittedRight, Lag
  <2>4. WaitingRight'
    BY <1>2, <1>3, <1>5, <2>1 DEF LimitInv, WaitingRight, Awaiting
  <2>5. LimitTypes'
    BY <1>3, <1>5, <2>1 DEF LimitInv, LimitTypes, Buckets
  <2> QED
    BY <1>6, <2>3, <2>4, <2>5 DEF LimitInv
<1> QED
  BY <1>9, <1>10

LEMMA ServerRestartsStep ==
  ASSUME LimitInv, NEW s \in Servers, ServerRestarts(s)
  PROVE  LimitInv'
<1>1. s \in Stores /\ s # Redis /\ Redis \in Stores
  BY Numbers, RateLimitAssumption
<1>2. /\ bucket' = [bucket EXCEPT ![s] = Empty] /\ admitted' = [admitted EXCEPT ![s] = {}]
      /\ UNCHANGED <<provider, waiting>>
  BY DEF ServerRestarts
<1>3. bucket \in [Stores -> Buckets] /\ admitted \in [Stores -> SUBSET Admissions]
  BY DEF LimitInv, LimitTypes, Buckets, Admissions
<1>4. Empty \in Buckets /\ Empty.left = 0
  BY Numbers DEF Empty, Buckets
<1>5. /\ bucket' \in [Stores -> Buckets] /\ admitted' \in [Stores -> SUBSET Admissions]
      /\ \A z \in Stores : /\ bucket'[z] = IF z = s THEN Empty ELSE bucket[z]
                           /\ admitted'[z] = IF z = s THEN {} ELSE admitted[z]
  BY <1>2, <1>3, <1>4
<1>6. LimitTypes'
  BY <1>2, <1>5 DEF LimitInv, LimitTypes, Buckets, Admissions
<1>7. BucketsRight'
  BY <1>1, <1>4, <1>5 DEF LimitInv, BucketsRight
<1>8. \A z \in Stores : SetRight(admitted'[z], bucket'[z], Lag(z))
  BY <1>5 DEF LimitInv, AdmittedRight, SetRight
<1>9. AdmittedRight'
  BY <1>8 DEF AdmittedRight, Lag
<1>10. WaitingRight'
  BY <1>1, <1>2, <1>5 DEF LimitInv, WaitingRight, Awaiting
<1> QED
  BY <1>6, <1>7, <1>9, <1>10 DEF LimitInv

\* Redis counts a request: nothing goes through yet.
LEMMA RunStep ==
  ASSUME LimitInv, NEW r \in Requests, Run(r)
  PROVE  LimitInv'
<1>1. PICK b, c : b = bucket[Redis] /\ c = RedisIncrement(b)
  OBVIOUS
<1>2. /\ Redis \in Stores /\ b \in Buckets /\ (b.left > 0 => b.count > 0)
      /\ (b.left = 0 => b.count = 0) /\ bucket \in [Stores -> Buckets]
  BY <1>1, Numbers, TracesTyped DEF LimitInv, BucketsRight, LimitTypes, Buckets
<1>3. bucket' = [bucket EXCEPT ![Redis] = c] /\ UNCHANGED <<provider, admitted>>
  BY <1>1 DEF Run
<1>4. /\ c \in Buckets /\ c.left > 0 /\ c.count > 0 /\ (c.count = 1 => c.left = Window)
      /\ Window - c.left \in Nat
      /\ \A x : IsTrace(x) /\ PlacedIn(b, x) => PlacedIn(c, x)
      /\ \A x, y : /\ IsTrace(x) /\ PlacedIn(b, x)
                   /\ y.opened = Window - c.left /\ y.count = c.count
                   => /\ Apart(x, y) /\ Apart(y, x)
                      /\ Admits(c.count) => ~Alike(x, y) /\ ~Alike(y, x)
  BY <1>1, <1>2, Incremented
<1>5. /\ bucket' \in [Stores -> Buckets] /\ bucket'[Redis] = c
      /\ \A z \in Stores \ {Redis} : bucket'[z] = bucket[z]
  BY <1>2, <1>3, <1>4
<1>6. BucketsRight'
  BY <1>2, <1>4, <1>5 DEF LimitInv, BucketsRight
<1>7. /\ SetRight(admitted[Redis], b, Lag(Redis))
      /\ \A t \in admitted[Redis] : IsTrace(t) /\ PlacedIn(b, t)
      /\ \A q \in Awaiting : IsTrace(waiting[q]) /\ PlacedIn(b, waiting[q])
  BY <1>1, <1>2, TracesTyped DEF LimitInv, AdmittedRight, SetRight, WaitingRight
<1>8. SetRight(admitted[Redis], c, Lag(Redis))
  BY <1>4, <1>7, OtherBucket
<1>9. \A z \in Stores : SetRight(admitted'[z], bucket'[z], Lag(z))
  BY <1>3, <1>5, <1>8 DEF LimitInv, AdmittedRight
<1>10. AdmittedRight'
  BY <1>9 DEF AdmittedRight, Lag
<1> DEFINE Waits == {Unused, Ghost}
                     \cup [step : {"sent"}, age : 0..Timeout]
                     \cup [step : {"counted"}, age : 0..Timeout, count : 1..(Most + 1),
                            opened : Nat]
<1>11. waiting \in [Requests -> Waits] /\ waiting[r].step \in {"sent", "ghost"}
  BY DEF LimitInv, LimitTypes, Run
<1>12. CASE waiting[r] = Ghost
  <2>1. waiting' = [waiting EXCEPT ![r] = Unused]
    BY <1>12 DEF Run
  <2>2. waiting' \in [Requests -> Waits] /\ waiting'[r] = Unused
        /\ \A q \in Requests \ {r} : waiting'[q] = waiting[q]
    BY <1>11, <2>1
  <2>3. Awaiting' \subseteq Awaiting /\ \A q \in Awaiting' : waiting'[q] = waiting[q]
    BY <2>2 DEF Awaiting, Unused
  <2>4. WaitingRight'
    BY <1>3, <1>4, <1>5, <1>7, <2>3 DEF LimitInv, WaitingRight
  <2>5. LimitTypes'
    BY <1>3, <1>5, <2>2 DEF LimitInv, LimitTypes, Buckets
  <2> QED
    BY <1>6, <1>10, <2>4, <2>5 DEF LimitInv
<1>13. CASE waiting[r] # Ghost
  <2>1. waiting[r].step = "sent" /\ waiting[r].age \in 0..Timeout
    BY <1>11, <1>13 DEF Unused, Ghost
  <2>2. PICK x : x = Counted(waiting[r].age, c.count, Window - c.left)
    OBVIOUS
  <2>3. waiting' = [waiting EXCEPT ![r] = x]
    BY <1>2, <1>5, <1>13, <2>2 DEF Run
  <2>4. /\ x \in [step : {"counted"}, age : 0..Timeout, count : 1..(Most + 1), opened : Nat]
        /\ x.age = waiting[r].age /\ x.count = c.count /\ x.opened = Window - c.left
    BY <1>4, <2>1, <2>2, Numbers DEF Counted, Buckets
  <2>5. /\ waiting' \in [Requests -> Waits] /\ waiting'[r] = x
        /\ \A q \in Requests \ {r} : waiting'[q] = waiting[q]
    BY <1>11, <2>3, <2>4
  <2>6. /\ Awaiting' = Awaiting \cup {r} /\ r \notin Awaiting
        /\ \A q \in Awaiting : waiting'[q] = waiting[q]
    BY <2>1, <2>4, <2>5 DEF Awaiting
  <2>7. Dated(x, 0) /\ PlacedIn(c, x)
    BY <1>4, <2>1, <2>4, Numbers DEF Dated, PlacedIn, Buckets
  <2>8. \A t \in admitted[Redis] : Apart(x, t) /\ (Admits(x.count) => ~Alike(x, t))
    BY <1>4, <1>7, <2>4
  <2>9. \A t \in admitted[Redis] : Admits(t.count)
    BY <1>2, TracesTyped, Numbers DEF Admissions, Admits
  <2>10. \A t \in admitted[Redis] : ~Alike(x, t)
    BY <2>8, <2>9 DEF Alike
  <2>11. \A q \in Awaiting : /\ Apart(x, waiting[q]) /\ Apart(waiting[q], x)
                             /\ Admits(c.count) => ~Alike(x, waiting[q]) /\ ~Alike(waiting[q], x)
    BY <1>4, <1>7, <2>4
  <2>12. \A q \in Awaiting : Alike(waiting[q], x) => waiting[q].count = c.count
    BY <2>4 DEF Alike
  <2>13. ASSUME NEW q \in Awaiting'
         PROVE  /\ Dated(waiting'[q], 0) /\ PlacedIn(c, waiting'[q])
                /\ \A t \in admitted[Redis] : Apart(waiting'[q], t) /\ ~Alike(waiting'[q], t)
                /\ \A p \in Awaiting' :
                     /\ Apart(waiting'[q], waiting'[p])
                     /\ Alike(waiting'[q], waiting'[p]) /\ Admits(waiting'[q].count) => p = q
    <3>1. CASE q = r
      <4>1. Apart(x, x)
        BY DEF Apart
      <4> QED
        BY <2>4, <2>5, <2>6, <2>7, <2>8, <2>10, <2>11, <3>1, <4>1
    <3>2. CASE q # r
      <4>1. q \in Awaiting /\ waiting'[q] = waiting[q]
        BY <2>6, <3>2
      <4>2. /\ Dated(waiting[q], 0) /\ PlacedIn(c, waiting[q])
            /\ \A t \in admitted[Redis] : Apart(waiting[q], t) /\ ~Alike(waiting[q], t)
            /\ \A p \in Awaiting :
                 /\ Apart(waiting[q], waiting[p])
                 /\ Alike(waiting[q], waiting[p]) /\ Admits(waiting[q].count) => p = q
        BY <1>4, <1>7, <4>1 DEF LimitInv, WaitingRight
      <4>3. /\ Apart(waiting[q], x)
            /\ Alike(waiting[q], x) /\ Admits(waiting[q].count) => FALSE
        BY <2>11, <2>12, <4>1
      <4> QED
        BY <2>5, <2>6, <4>1, <4>2, <4>3
    <3> QED
      BY <3>1, <3>2
  <2>14. WaitingRight'
    BY <1>3, <1>5, <2>13 DEF WaitingRight
  <2>15. LimitTypes'
    BY <1>3, <1>5, <2>5 DEF LimitInv, LimitTypes, Buckets
  <2> QED
    BY <1>6, <1>10, <2>14, <2>15 DEF LimitInv
<1> QED
  BY <1>12, <1>13

\* A reply moves a trace from those that wait to those let through.
LEMMA ReplyStep ==
  ASSUME LimitInv, NEW r \in Requests, Reply(r)
  PROVE  LimitInv'
<1> DEFINE Waits == {Unused, Ghost}
                     \cup [step : {"sent"}, age : 0..Timeout]
                     \cup [step : {"counted"}, age : 0..Timeout, count : 1..(Most + 1),
                            opened : Nat]
<1>1. PICK x : x = waiting[r]
  OBVIOUS
<1>2. /\ r \in Awaiting /\ IsTrace(x) /\ Redis \in Stores
      /\ x \in [step : {"counted"}, age : 0..Timeout, count : 1..(Most + 1), opened : Nat]
  BY <1>1, TracesTyped, Numbers DEF Reply, Awaiting
<1>3. waiting \in [Requests -> Waits] /\ waiting' = [waiting EXCEPT ![r] = Unused]
      /\ UNCHANGED <<provider, bucket>>
  BY DEF LimitInv, LimitTypes, Reply
<1>4. waiting' \in [Requests -> Waits] /\ waiting'[r] = Unused
      /\ \A q \in Requests \ {r} : waiting'[q] = waiting[q]
  BY <1>3
<1>5. Awaiting' \subseteq Awaiting \ {r} /\ \A q \in Awaiting' : waiting'[q] = waiting[q]
  BY <1>4 DEF Awaiting, Unused
<1>6. CASE ~Admits(x.count)
  <2>1. admitted' = admitted
    BY <1>1, <1>6 DEF Reply
  <2> HIDE DEF Waits
  <2>2. \A q \in Awaiting' : q \in Awaiting /\ waiting'[q] = waiting[q]
    BY <1>5
  <2> USE DEF Waits
  <2> QED
    BY <1>3, <1>4, <2>1, <2>2, QuietLimit
<1>7. CASE Admits(x.count)
  <2>1. PICK n, o : n = x.count /\ o = x.opened
    OBVIOUS
  <2>2. LetThrough(Redis, n, o) /\ n \in 1..Most /\ o \in Nat
    BY <1>1, <1>2, <1>7, <2>1, Numbers DEF Reply, Admits
  <2>3. PICK t \in Admissions :
          /\ t.age = 0 /\ t.count = n /\ t.opened = o
          /\ admitted' \in [Stores -> SUBSET Admissions]
          /\ admitted'[Redis] = admitted[Redis] \cup {t}
          /\ \A z \in Stores \ {Redis} : admitted'[z] = admitted[z]
    BY <1>2, <2>2, OneThrough
  <2>4. /\ Dated(x, 0) /\ PlacedIn(bucket[Redis], x)
        /\ \A u \in admitted[Redis] : Apart(x, u) /\ ~Alike(x, u)
        /\ \A q \in Awaiting : /\ Apart(x, waiting[q])
                               /\ Alike(x, waiting[q]) /\ Admits(x.count) => q = r
    BY <1>1, <1>2 DEF LimitInv, WaitingRight
  <2>5. Dated(t, Lag(Redis)) /\ PlacedIn(bucket[Redis], t)
    BY <1>2, <2>1, <2>3, <2>4, Numbers DEF Dated, PlacedIn
  <2>6. \A u : /\ Apart(x, u) => Apart(t, u) /\ Apart(u, t)
               /\ ~Alike(x, u) => ~Alike(t, u) /\ ~Alike(u, t)
    BY <2>1, <2>3 DEF Apart, Alike
  <2>7. SetRight(admitted[Redis], bucket[Redis], Lag(Redis))
    BY <1>2 DEF LimitInv, AdmittedRight
  <2>8. SetRight(admitted[Redis] \cup {t}, bucket[Redis], Lag(Redis))
    BY <2>4, <2>5, <2>6, <2>7, OneMore
  <2>9. \A z \in Stores : SetRight(admitted'[z], bucket'[z], Lag(z))
    BY <1>3, <2>3, <2>8 DEF LimitInv, AdmittedRight
  <2>10. AdmittedRight'
    BY <2>9 DEF AdmittedRight, Lag
  <2>11. ASSUME NEW q \in Awaiting'
         PROVE  Apart(waiting[q], t) /\ ~Alike(waiting[q], t)
    <3>1. q \in Awaiting /\ q # r
      BY <1>5
    <3>2. Apart(x, waiting[q]) /\ ~Alike(x, waiting[q])
      BY <1>7, <2>4, <3>1
    <3> QED
      BY <2>6, <3>2
  <2>12. WaitingRight'
    BY <1>3, <1>5, <2>3, <2>11 DEF LimitInv, WaitingRight
  <2>13. LimitTypes'
    BY <1>3, <1>4, <2>3 DEF LimitInv, LimitTypes, Admissions
  <2>14. BucketsRight'
    BY <1>3 DEF LimitInv, BucketsRight
  <2> QED
    BY <2>10, <2>12, <2>13, <2>14 DEF LimitInv
<1> QED
  BY <1>6, <1>7

\* Asking, giving up and the loss of a command.
LEMMA WaitStep ==
  ASSUME LimitInv, NEW r \in Requests, Ask(r) \/ GivesUp(r) \/ Lost(r)
  PROVE  LimitInv'
<1> DEFINE Waits == {Unused, Ghost}
                     \cup [step : {"sent"}, age : 0..Timeout]
                     \cup [step : {"counted"}, age : 0..Timeout, count : 1..(Most + 1),
                            opened : Nat]
<1>1. PICK x \in {Sent(0), Ghost, Unused} : waiting' = [waiting EXCEPT ![r] = x]
  BY DEF Ask, GivesUp, Lost
<1>2. UNCHANGED <<provider, bucket, admitted>>
  BY DEF Ask, GivesUp, Lost
<1>3. x \in Waits /\ x.step # "counted"
  BY Numbers DEF Sent, Ghost, Unused
<1>4. waiting \in [Requests -> Waits]
  BY DEF LimitInv, LimitTypes
<1>5. waiting' \in [Requests -> Waits] /\ waiting'[r] = x
      /\ \A q \in Requests \ {r} : waiting'[q] = waiting[q]
  BY <1>1, <1>3, <1>4
<1>6. \A q \in Awaiting' : q \in Awaiting /\ waiting'[q] = waiting[q]
  BY <1>3, <1>5 DEF Awaiting
<1> QED
  BY <1>2, <1>5, <1>6, QuietLimit

\* What a tick makes of a bucket and of a trace.
Shorter(b, c) ==
  \/ b.left = 0 /\ c = b
  \/ /\ b.left > 0 /\ c.left = b.left - 1
     /\ c.left > 0 => c.count = b.count

Aged(x, y) == y.opened = x.opened + 1 /\ y.age = x.age + 1 /\ y.count = x.count

LEMMA AgedStays ==
  ASSUME NEW b \in Buckets, NEW c \in Buckets, Shorter(b, c), NEW lag \in Nat,
         NEW x, IsTrace(x), x.age \in Nat, NEW y, Aged(x, y)
  PROVE  /\ Dated(x, lag) => Dated(y, lag)
         /\ PlacedIn(b, x) => PlacedIn(c, y)
<1>1. /\ b.left \in Nat /\ b.left <= Window /\ b.count \in Nat
      /\ c.left \in Nat /\ c.left <= Window /\ c.count \in Nat
  BY Numbers DEF Buckets
<1>2. Dated(x, lag) => Dated(y, lag)
  BY Numbers DEF Dated, Aged, IsTrace
<1>3. PlacedIn(b, x) => PlacedIn(c, y)
  BY <1>1, Numbers DEF Shorter, PlacedIn, Aged, IsTrace
<1> QED
  BY <1>2, <1>3

LEMMA AgedTogether ==
  ASSUME NEW x, NEW y, IsTrace(x), Aged(x, y), NEW u, NEW v, IsTrace(u), Aged(u, v)
  PROVE  /\ Apart(x, u) => Apart(y, v)
         /\ Alike(y, v) => Alike(x, u)
BY Numbers DEF IsTrace, Aged, Apart, Alike

LEMMA LaterBucket ==
  ASSUME LimitInv, NEW s \in Stores
  PROVE  /\ Later(s) \in Buckets /\ Shorter(bucket[s], Later(s))
         /\ Later(s).left > 0 => Later(s).count > 0
         /\ s = Redis /\ Later(s).left = 0 => Later(s).count = 0
<1>1. PICK b : b = bucket[s]
  OBVIOUS
<1>2. /\ b \in Buckets /\ (b.left > 0 => b.count > 0)
      /\ s = Redis /\ b.left = 0 => b.count = 0
  BY <1>1, TracesTyped DEF LimitInv, BucketsRight
<1>3. CASE b.left = 0
  BY <1>1, <1>2, <1>3 DEF Later, Shorter
<1>4. CASE b.left # 0 /\ s = Redis /\ b.left = 1
  <2>1. Later(s) = Empty
    BY <1>1, <1>4 DEF Later
  <2> QED
    BY <1>1, <1>4, <2>1, Numbers DEF Empty, Buckets, Shorter
<1>5. CASE b.left # 0 /\ ~(s = Redis /\ b.left = 1)
  <2>1. Later(s) = [b EXCEPT !.left = b.left - 1]
    BY <1>1, <1>5 DEF Later
  <2>2. PICK c : c = [b EXCEPT !.left = b.left - 1]
    OBVIOUS
  <2>3. c \in Buckets /\ c.left = b.left - 1 /\ c.count = b.count /\ b.left > 0
    BY <1>2, <1>5, <2>2, Numbers DEF Buckets
  <2> QED
    BY <1>1, <1>2, <1>5, <2>1, <2>2, <2>3, Numbers DEF Buckets, Shorter
<1> QED
  BY <1>3, <1>4, <1>5

\* Time passes: windows and their traces age together.
LEMMA TickStep ==
  ASSUME LimitInv, Tick
  PROVE  LimitInv'
<1> DEFINE Waits == {Unused, Ghost}
                     \cup [step : {"sent"}, age : 0..Timeout]
                     \cup [step : {"counted"}, age : 0..Timeout, count : 1..(Most + 1),
                            opened : Nat]
<1>1. /\ bucket' = [s \in Stores |-> Later(s)]
      /\ admitted' = [s \in Stores |->
           {Older(t) : t \in {u \in admitted[s] : u.age < Window - 1}}]
      /\ UNCHANGED provider
  BY DEF Tick
<1>2. \A s \in Stores : /\ bucket'[s] = Later(s)
                        /\ bucket'[s] \in Buckets /\ Shorter(bucket[s], bucket'[s])
  BY <1>1, LaterBucket
<1>3. BucketsRight'
  BY <1>1, <1>2, LaterBucket, Numbers DEF BucketsRight
<1>4. ASSUME NEW s \in Stores, NEW y \in admitted'[s]
      PROVE  \E t \in admitted[s] : y = Older(t) /\ t.age < Window - 1
  BY <1>1
<1>5. ASSUME NEW t \in Admissions, t.age < Window - 1
      PROVE  Older(t) \in Admissions /\ Aged(t, Older(t)) /\ IsTrace(t) /\ t.age \in Nat
  <2>1. PICK a, p, n, o : /\ t = [age |-> a, place |-> p, count |-> n, opened |-> o]
                          /\ a \in Ages /\ p \in Nat /\ n \in 1..Most /\ o \in Nat
    BY DEF Admissions
  <2>2. Older(t) = [age |-> a + 1, place |-> p, count |-> n, opened |-> o + 1]
    <3>1. PICK m : m = [t EXCEPT !.age = @ + 1]
      OBVIOUS
    <3>2. m = [age |-> a + 1, place |-> p, count |-> n, opened |-> o]
      BY <2>1, <3>1
    <3>3. Older(t) = [m EXCEPT !.opened = @ + 1]
      BY <3>1 DEF Older
    <3> QED
      BY <3>2, <3>3
  <2> QED
    BY <1>5, <2>1, <2>2, Numbers DEF Admissions, Aged, IsTrace, Ages
<1>6. ASSUME NEW s \in Stores
      PROVE  SetRight(admitted'[s], bucket'[s], Lag(s)) /\ admitted'[s] \in SUBSET Admissions
  <2>1. SetRight(admitted[s], bucket[s], Lag(s)) /\ Lag(s) \in Nat /\ bucket[s] \in Buckets
    BY Numbers, TracesTyped DEF LimitInv, AdmittedRight
  <2>2. ASSUME NEW y \in admitted'[s]
        PROVE  /\ y \in Admissions /\ Dated(y, Lag(s)) /\ PlacedIn(bucket'[s], y)
               /\ \A v \in admitted'[s] : Apart(y, v) /\ (Alike(y, v) => y = v)
    <3>1. PICK t \in admitted[s] : y = Older(t) /\ t.age < Window - 1
      BY <1>4
    <3>2. y \in Admissions /\ Aged(t, y) /\ IsTrace(t) /\ t.age \in Nat
      BY <1>5, <3>1, TracesTyped
    <3>3. Dated(t, Lag(s)) /\ PlacedIn(bucket[s], t)
      BY <2>1, <3>1 DEF SetRight
    <3>4. Dated(y, Lag(s)) /\ PlacedIn(bucket'[s], y)
      BY <1>2, <2>1, <3>2, <3>3, AgedStays
    <3>5. ASSUME NEW v \in admitted'[s]
          PROVE  Apart(y, v) /\ (Alike(y, v) => y = v)
      <4>1. PICK u \in admitted[s] : v = Older(u) /\ u.age < Window - 1
        BY <1>4
      <4>2. Aged(u, v) /\ IsTrace(u)
        BY <1>5, <4>1, TracesTyped
      <4>3. Apart(t, u) /\ (Alike(t, u) => t = u)
        BY <2>1 DEF SetRight
      <4>4. Apart(y, v) /\ (Alike(y, v) => Alike(t, u))
        BY <3>2, <4>2, <4>3, AgedTogether
      <4> QED
        BY <3>1, <4>1, <4>3, <4>4
    <3> QED
      BY <3>2, <3>4, <3>5
  <2> QED
    BY <2>2 DEF SetRight
<1>7. AdmittedRight'
  BY <1>6 DEF AdmittedRight, Lag
<1>8. ASSUME NEW r \in Requests
      PROVE  /\ waiting'[r] \in Waits
             /\ r \in Awaiting' =>
                  r \in Awaiting /\ waiting[r].age \in Nat /\ Aged(waiting[r], waiting'[r])
  <2>1. waiting[r] \in Waits /\ InTime(r)
    BY DEF LimitInv, LimitTypes, Tick
  <2>2. waiting'[r] = CASE waiting[r].step = "sent" -> Sent(waiting[r].age + 1)
                        [] waiting[r].step = "counted" -> Older(waiting[r])
                        [] OTHER -> waiting[r]
    BY DEF Tick
  <2>3. CASE waiting[r].step = "sent"
    <3>1. waiting'[r] = Sent(waiting[r].age + 1)
      BY <2>2, <2>3
    <3>2. waiting[r].age \in 0..Timeout /\ waiting[r].age < Timeout
      BY <2>1, <2>3 DEF InTime, Unused, Ghost
    <3> QED
      BY <3>1, <3>2, Numbers DEF Sent, Awaiting
  <2>4. CASE waiting[r].step = "counted"
    <3>1. waiting'[r] = Older(waiting[r])
      BY <2>2, <2>4
    <3>2. PICK a, n, o :
            /\ waiting[r] = [step |-> "counted", age |-> a, count |-> n, opened |-> o]
            /\ a \in 0..Timeout /\ n \in 1..(Most + 1) /\ o \in Nat
      BY <2>1, <2>4 DEF Unused, Ghost
    <3>3. a < Timeout
      BY <2>1, <2>4, <3>2 DEF InTime
    <3>4. waiting'[r] = [step |-> "counted", age |-> a + 1, count |-> n, opened |-> o + 1]
      <4>1. PICK x, m : x = waiting[r] /\ m = [x EXCEPT !.age = @ + 1]
        OBVIOUS
      <4>2. m = [step |-> "counted", age |-> a + 1, count |-> n, opened |-> o]
        BY <3>2, <4>1
      <4>3. waiting'[r] = [m EXCEPT !.opened = @ + 1]
        BY <3>1, <4>1 DEF Older
      <4> QED
        BY <4>2, <4>3
    <3> QED
      BY <2>4, <3>2, <3>3, <3>4, Numbers DEF Awaiting, Aged
  <2>5. CASE waiting[r].step # "sent" /\ waiting[r].step # "counted"
    <3>1. waiting'[r] = waiting[r]
      BY <2>2, <2>5
    <3> QED
      BY <2>1, <2>5, <3>1 DEF Awaiting
  <2> QED
    BY <2>3, <2>4, <2>5
<1>9. waiting' \in [Requests -> Waits]
  <2>1. waiting' = [r \in Requests |-> waiting'[r]]
    BY DEF Tick
  <2> HIDE DEF Waits
  <2> QED
    BY <1>8, <2>1
<1>10. LimitTypes'
  <2>1. bucket' \in [Stores -> Buckets]
    BY <1>1, <1>2
  <2>2. admitted' \in [Stores -> SUBSET Admissions]
    BY <1>1, <1>6
  <2> QED
    BY <1>1, <1>9, <2>1, <2>2 DEF LimitInv, LimitTypes, Buckets, Admissions
<1>11. ASSUME NEW q \in Awaiting'
       PROVE  /\ q \in Awaiting /\ IsTrace(waiting[q]) /\ waiting[q].age \in Nat
              /\ Aged(waiting[q], waiting'[q])
  <2>1. q \in Requests
    BY DEF Awaiting
  <2> QED
    BY <1>8, <2>1, TracesTyped
<1>12. ASSUME NEW r \in Awaiting'
       PROVE  /\ Dated(waiting'[r], 0) /\ PlacedIn(bucket'[Redis], waiting'[r])
              /\ \A t \in admitted'[Redis] : Apart(waiting'[r], t) /\ ~Alike(waiting'[r], t)
              /\ \A q \in Awaiting' :
                   /\ Apart(waiting'[r], waiting'[q])
                   /\ Alike(waiting'[r], waiting'[q]) /\ Admits(waiting'[r].count) => q = r
  <2>1. PICK x, y : x = waiting[r] /\ y = waiting'[r]
    OBVIOUS
  <2>2. r \in Awaiting /\ IsTrace(x) /\ x.age \in Nat /\ Aged(x, y)
    BY <1>11, <2>1
  <2>3. /\ Dated(x, 0) /\ PlacedIn(bucket[Redis], x)
        /\ \A t \in admitted[Redis] : Apart(x, t) /\ ~Alike(x, t)
        /\ \A q \in Awaiting : /\ Apart(x, waiting[q])
                               /\ Alike(x, waiting[q]) /\ Admits(x.count) => q = r
    BY <2>1, <2>2 DEF LimitInv, WaitingRight
  <2>4. Redis \in Stores /\ bucket[Redis] \in Buckets
    BY Numbers, TracesTyped
  <2>5. Dated(y, 0) /\ PlacedIn(bucket'[Redis], y)
    BY <1>2, <2>2, <2>3, <2>4, AgedStays
  <2>6. ASSUME NEW v \in admitted'[Redis]
        PROVE  Apart(y, v) /\ ~Alike(y, v)
    <3>1. PICK u \in admitted[Redis] : v = Older(u) /\ u.age < Window - 1
      BY <1>4, <2>4
    <3>2. Aged(u, v) /\ IsTrace(u)
      BY <1>5, <2>4, <3>1, TracesTyped
    <3> QED
      BY <2>2, <2>3, <3>2, AgedTogether
  <2>7. ASSUME NEW q \in Awaiting'
        PROVE  Apart(y, waiting'[q]) /\ (Alike(y, waiting'[q]) /\ Admits(y.count) => q = r)
    <3>1. q \in Awaiting /\ IsTrace(waiting[q]) /\ Aged(waiting[q], waiting'[q])
      BY <1>11
    <3>2. /\ Apart(y, waiting'[q])
          /\ Alike(y, waiting'[q]) => Alike(x, waiting[q])
      BY <2>2, <2>3, <3>1, AgedTogether
    <3>3. y.count = x.count
      BY <2>2 DEF Aged
    <3> QED
      BY <2>3, <3>1, <3>2, <3>3
  <2> QED
    BY <2>1, <2>5, <2>6, <2>7
<1>13. WaitingRight'
  BY <1>12 DEF WaitingRight
<1> QED
  BY <1>3, <1>7, <1>10, <1>13 DEF LimitInv

LEMMA LimitInitially ==
  ASSUME LimitInit
  PROVE  LimitInv
<1>1. LimitTypes
  BY Numbers DEF LimitInit, LimitTypes, Empty, Unused
<1>2. BucketsRight
  BY Numbers DEF LimitInit, BucketsRight, Empty
<1>3. AdmittedRight
  BY DEF LimitInit, AdmittedRight, SetRight
<1>4. WaitingRight
  BY DEF LimitInit, WaitingRight, Awaiting, Unused
<1> QED
  BY <1>1, <1>2, <1>3, <1>4 DEF LimitInv

LEMMA LimitKept ==
  ASSUME LimitInv, [LimitNext]_limitVars
  PROVE  LimitInv'
<1>1. ASSUME NEW s \in Servers, Guard(s) \/ ServerRestarts(s) PROVE LimitInv'
  BY <1>1, GuardStep, ServerRestartsStep
<1>2. ASSUME NEW r \in Requests, Ask(r) \/ Run(r) \/ Reply(r) \/ GivesUp(r) \/ Lost(r)
      PROVE  LimitInv'
  BY <1>2, RunStep, ReplyStep, WaitStep
<1>3. CASE Tick
  BY <1>3, TickStep
<1>4. CASE UNCHANGED limitVars
  <2>1. UNCHANGED <<provider, bucket, waiting, admitted>>
    BY <1>4 DEF limitVars
  <2>2. \A r \in Awaiting' : r \in Awaiting /\ waiting'[r] = waiting[r]
    BY <2>1 DEF Awaiting
  <2> QED
    BY <2>1, <2>2, QuietLimit DEF LimitInv, LimitTypes
<1> QED
  BY <1>1, <1>2, <1>3, <1>4 DEF LimitNext

\* What a store has counted and let through in the windows that still matter
\* stays told apart: PublicRateLimitGuard.canActivate with either store, however
\* late the replies of Redis and however often a process restarts.
THEOREM LimitInvariant == LimitSpec => []LimitInv
<1>1. LimitInit => LimitInv
  BY LimitInitially
<1>2. LimitInv /\ [LimitNext]_limitVars => LimitInv'
  BY LimitKept
<1> QED
  BY <1>1, <1>2, PTL DEF LimitSpec

\* In no span as long as a window does a store let more requests through than
\* SpanBounded allows, for every publicAuthMax, windowMs and timeoutMs.
THEOREM SpansAreBounded == LimitSpec => []SpanBounded
<1>1. LimitInv => SpanBounded
  BY ThroughIsBounded
<1> QED
  BY <1>1, LimitInvariant, PTL
=============================================================================
