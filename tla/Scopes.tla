--------------------------------- MODULE Scopes ---------------------------------
(***************************************************************************)
(* Who sees what.  An owner sees everything, the admin of a branch what is *)
(* of his branches, a teacher what he teaches.  A course, a group and a    *)
(* lesson have no branch of their own: theirs are those of the people they *)
(* name, and those people move.                                            *)
(*                                                                         *)
(* Every service answers the question several times, with the queries of   *)
(* its lists and with a check for a single document, each in its own       *)
(* words.  Students were users once: the script that moved them copies     *)
(* their accounts and deletes these last, and some queries still look for  *)
(* students among the accounts.  A request is one step here; what          *)
(* overlapping requests do to accounts, references and rosters is in       *)
(* Accounts, Catalog and Enrolment.                                        *)
(***************************************************************************)
EXTENDS Naturals, FiniteSets

CONSTANTS
  Users,     \* teachers and admins
  Students,
  Branches,
  Groups,    \* of the one course
  Owner,     \* an owner: not bound to branches
  None       \* nothing there, or not named

Actors == Users \cup {Owner}

VARIABLES
  user,      \* role and branches of each user
  student,   \* branches and isActive of each student
  account,   \* branches of the account he still has among the users, of the same id
  course,    \* teachers and students of the course
  group,     \* teacher and students of each group
  lesson,    \* teacher, students and group of a lesson
  statistic  \* what the metadata of a figure name

vars == <<user, student, account, course, group, lesson, statistic>>

Standings == [branches : SUBSET Branches, active : BOOLEAN]

\* The collections draw their ids apart, and None is neither an id nor a document.
ASSUME IdsAssumption ==
  /\ Users \cap Students = {} /\ Owner \notin Users
  /\ None \notin Users \cup Groups \cup Branches \cup Standings
  /\ \A branches \in SUBSET Branches : branches # None

ASSUME UsersAssumption == IsFiniteSet(Users)

-----------------------------------------------------------------------------

Known == {s \in Students : student[s] # None}

Metadata == [branch : Branches \cup {None}, teacher : Users \cup {None},
             group : Groups \cup {None}]

TypeOK ==
  /\ user \in [Users -> [role : {"teacher", "admin"}, branches : SUBSET Branches]]
  /\ student \in [Students -> {None} \cup Standings]
  /\ account \in [Students -> {None} \cup SUBSET Branches]
  /\ course \in {None} \cup [teachers : SUBSET Users, students : SUBSET Known]
  /\ group \in [Groups -> {None} \cup [teacher : Users, students : SUBSET Known]]
  /\ lesson \in {None} \cup [teacher : Users, students : SUBSET Known,
                            group : Groups \cup {None}]
  /\ statistic \in {None} \cup Metadata

\* Whatever accounts of students the migration has found, it has written a
\* student of the same branches for each, and has yet to delete them.
Init ==
  /\ user \in [Users -> [role : {"teacher", "admin"}, branches : SUBSET Branches]]
  /\ account \in [Students -> {None} \cup SUBSET Branches]
  /\ \E active \in [Students -> BOOLEAN] : student =
       [s \in Students |-> IF account[s] = None THEN None
                          ELSE [branches |-> account[s], active |-> active[s]]]
  /\ course = None
  /\ group = [g \in Groups |-> None]
  /\ lesson = None
  /\ statistic = None

-----------------------------------------------------------------------------
(* actor-scope.ts; a user without branches has no scope at all *)

SystemWide(a) == a = Owner
IsAdmin(a) == a # Owner /\ user[a].role = "admin"
IsTeacher(a) == a # Owner /\ user[a].role = "teacher"

\* hasBranchOverlap.
Overlaps(a, branches) == user[a].branches \cap branches # {}

\* All of them are of a branch of the admin a.
WithinBranches(a, teachers, students) ==
  /\ \A t \in teachers : Overlaps(a, user[t].branches)
  /\ \A s \in students : Overlaps(a, student[s].branches)

\* Somebody with an account of a branch of the admin a.
AccountOverlaps(a, p) ==
  \/ p \in Users /\ Overlaps(a, user[p].branches)
  \/ p \in Students /\ account[p] # None /\ Overlaps(a, account[p])

\* getBranchScopedUserIds for teachers and students: both are looked for
\* among the accounts.
ScopedUserIds(a) ==
  {p \in Users \cup Students : AccountOverlaps(a, p) /\ (p \in Users => IsTeacher(p))}

-----------------------------------------------------------------------------
(* CoursesService *)

CourseListed(a) ==
  /\ course # None
  /\ \/ SystemWide(a)
     \/ IsTeacher(a) /\ a \in course.teachers
     \/ /\ IsAdmin(a) /\ ScopedUserIds(a) # {}
        /\ course.teachers = {} \/ course.teachers \cap ScopedUserIds(a) # {}
        /\ course.students \subseteq ScopedUserIds(a)

\* assertBranchAdminCanAccessCourse, for a document as it is stored.
CourseWithinScope(a) ==
  \/ SystemWide(a)
  \/ /\ IsAdmin(a)
     /\ course.teachers \cup course.students # {}
     /\ WithinBranches(a, course.teachers, course.students)

\* ... and for one as it is answered: mapCourseResponse names the teacher of
\* a course that has one a second time, so that there is one account too few.
CourseReadable(a) ==
  /\ course # None
  /\ \/ IsTeacher(a) /\ a \in course.teachers
     \/ CourseWithinScope(a) /\ (IsAdmin(a) => Cardinality(course.teachers) # 1)

-----------------------------------------------------------------------------
(* GroupsService *)

\* Mutant: only the teacher has to be of a branch of the admin.
GroupListedByTeacher(a, g) ==
  /\ group[g] # None
  /\ \/ SystemWide(a)
     \/ IsTeacher(a) /\ group[g].teacher = a
     \/ IsAdmin(a) /\ group[g].teacher \in ScopedUserIds(a)

GroupListed(a, g) ==
  /\ group[g] # None
  /\ \/ SystemWide(a)
     \/ IsTeacher(a) /\ group[g].teacher = a
     \/ /\ IsAdmin(a)
        /\ group[g].teacher \in ScopedUserIds(a)
        /\ group[g].students \subseteq ScopedUserIds(a)

\* assertBranchAdminCanAccessGroup, assertActorCanReadGroup.
GroupWithinScope(a, g) ==
  SystemWide(a) \/ (IsAdmin(a) /\ WithinBranches(a, {group[g].teacher}, group[g].students))

GroupReadable(a, g) ==
  group[g] # None /\ (GroupWithinScope(a, g) \/ (IsTeacher(a) /\ group[g].teacher = a))

-----------------------------------------------------------------------------
(* ScheduleService *)

LessonListed(a) ==
  /\ lesson # None
  /\ \/ SystemWide(a)
     \/ IsTeacher(a) /\ lesson.teacher = a
     \/ /\ IsAdmin(a)
        /\ lesson.teacher \in ScopedUserIds(a)
        /\ lesson.students \subseteq {s \in Known : Overlaps(a, student[s].branches)}

\* getScheduleByUserIdForActor: the lessons of p, for an admin who finds an
\* account of his branches behind the id.
LessonListedBy(a, p) ==
  /\ lesson # None
  /\ p = lesson.teacher \/ p \in lesson.students
  /\ \/ SystemWide(a)
     \/ IsTeacher(a) /\ p = a /\ p = lesson.teacher
     \/ IsAdmin(a) /\ AccountOverlaps(a, p)

\* assertBranchAdminCanAccessSchedule, assertActorCanReadSchedule.
LessonWithinScope(a) ==
  SystemWide(a) \/ (IsAdmin(a) /\ WithinBranches(a, {lesson.teacher}, lesson.students))

LessonReadable(a) ==
  lesson # None /\ (LessonWithinScope(a) \/ (IsTeacher(a) /\ lesson.teacher = a))

-----------------------------------------------------------------------------
(* RoomService *)

\* getVisibleRoomIdsForActor, for the room of the lesson.  Its list and its
\* check both ask it.
RoomVisible(a) ==
  /\ lesson # None
  /\ \/ IsTeacher(a) /\ lesson.teacher = a
     \/ /\ IsAdmin(a)
        /\ ({lesson.teacher} \cup lesson.students) \cap ScopedUserIds(a) # {}

RoomReadable(a) == SystemWide(a) \/ RoomVisible(a)

-----------------------------------------------------------------------------
(* PaymentsService, NotificationDeliveriesService, for a payment of branch b   *)
(* and student s.  The body names both, and nothing compares them.             *)

\* getAll; the reports have the same filter.
PaymentListed(a, b) == SystemWide(a) \/ (IsAdmin(a) /\ b \in user[a].branches)

\* getByStudent: who may see the student sees his payments.
PaymentListedByStudent(a, s) ==
  SystemWide(a) \/ (IsAdmin(a) /\ Overlaps(a, student[s].branches))

\* assertCanReadPayment, assertPaymentWithinScope.
PaymentReadable(a, b) == SystemWide(a) \/ (IsAdmin(a) /\ b \in user[a].branches)

\* branchScopeFilter, for a reminder of the payment to student s: the branch
\* of the one or of the other.
OfBranches(a, b, s) == b \in user[a].branches \/ Overlaps(a, student[s].branches)

DeliveryListed(a, b, s) == SystemWide(a) \/ (IsAdmin(a) /\ OfBranches(a, b, s))

-----------------------------------------------------------------------------
(* StudentsService, AttendanceService, HomeworkService, GradesService *)

OfCourses(t) == IF course # None /\ t \in course.teachers THEN course.students ELSE {}

OfGroups(t) == UNION {group[g].students : g \in {h \in Groups : group[h] # None
                                                               /\ group[h].teacher = t}}

OfLessons(t) == IF lesson # None /\ lesson.teacher = t THEN lesson.students ELSE {}

\* getTeacherVisibleStudentIds, as each service has it.
StudentsOf(t) == OfCourses(t) \cup OfGroups(t)
StudentsOfAttendance(t) == OfGroups(t) \cup OfLessons(t)
StudentsOfHomework(t) == OfCourses(t) \cup OfGroups(t) \cup OfLessons(t)

\* Mutant: grades forget the courses.
StudentsOfGradesUncoursed(t) == OfGroups(t) \cup OfLessons(t)

StudentsOfGrades(t) == OfCourses(t) \cup OfGroups(t) \cup OfLessons(t)

\* buildActorFilter, of the list and of a single student alike.
StudentListed(a, s) ==
  /\ student[s] # None
  /\ \/ SystemWide(a)
     \/ IsAdmin(a) /\ Overlaps(a, student[s].branches)
     \/ IsTeacher(a) /\ s \in StudentsOf(a)

\* assertActorCanAccessStudent, with those a teacher has there.
Accessible(a, s, taught) ==
  /\ student[s] # None /\ student[s].active
  /\ \/ SystemWide(a)
     \/ IsAdmin(a) /\ Overlaps(a, student[s].branches)
     \/ IsTeacher(a) /\ s \in taught

AttendanceAccessible(a, s) == Accessible(a, s, StudentsOfAttendance(a))
HomeworkAccessible(a, s) == Accessible(a, s, StudentsOfHomework(a))
GradesAccessible(a, s) == Accessible(a, s, StudentsOfGrades(a))

-----------------------------------------------------------------------------
(* StatisticsService; its routes are for owners and admins only so far *)

GroupsOf(t) == {g \in Groups : group[g] # None /\ group[g].teacher = t}

\* buildActorFilter.
StatisticListed(a) ==
  /\ statistic # None
  /\ \/ SystemWide(a)
     \/ IsAdmin(a) /\ statistic.branch \in user[a].branches
     \/ IsTeacher(a) /\ (statistic.teacher = a \/ statistic.group \in GroupsOf(a))

\* assertStatisticInActorScope.
StatisticReadable(a) ==
  /\ statistic # None
  /\ \/ SystemWide(a)
     \/ /\ IsAdmin(a)
        /\ statistic.branch # None /\ statistic.branch \in user[a].branches
     \/ /\ IsTeacher(a)
        /\ ~ (statistic.teacher # a /\ (statistic.group = None
                                         \/ statistic.group \notin GroupsOf(a)))

\* assertMetadataUsersWithinBranch: all are looked for among the accounts.
PeopleWithinBranch(a, m, s) ==
  /\ \A p \in {m.teacher, s} \ {None} : AccountOverlaps(a, p)
  /\ m.group # None =>
       /\ group[m.group] # None
       /\ \A p \in {group[m.group].teacher} \cup group[m.group].students : AccountOverlaps(a, p)

\* The branch an admin files under when he names none and has one only.
FiledUnder(a, m) ==
  IF IsAdmin(a) /\ m.branch = None /\ Cardinality(user[a].branches) = 1
  THEN [m EXCEPT !.branch = CHOOSE b \in Branches : b \in user[a].branches] ELSE m

OfTheBranch(a, m, s) ==
  SystemWide(a) \/ (IsAdmin(a) /\ m.branch \in user[a].branches /\ PeopleWithinBranch(a, m, s))

CreateStatistic(a, m, s) ==
  /\ statistic = None
  /\ OfTheBranch(a, FiledUnder(a, m), s)
  /\ statistic' = FiledUnder(a, m)
  /\ UNCHANGED <<user, student, account, course, group, lesson>>

\* Metadata replace those stored; the check that follows the write can only
\* refuse what an overlapping request has moved.
UpdateStatistic(a, m, s) ==
  /\ ~ IsTeacher(a) /\ StatisticReadable(a)
  /\ OfTheBranch(a, m, s)
  /\ statistic' = m
  /\ UNCHANGED <<user, student, account, course, group, lesson>>

RemoveStatistic(a) ==
  /\ ~ IsTeacher(a) /\ StatisticReadable(a)
  /\ statistic' = None
  /\ UNCHANGED <<user, student, account, course, group, lesson>>

-----------------------------------------------------------------------------
(* What moves people, and what names them *)

\* assertActorCanManageTarget, assertActorCanAssignBranches: an admin gives out
\* his own branches, and none to himself.
Assignable(a, p, held, branches) ==
  \/ SystemWide(a)
  \/ /\ IsAdmin(a) /\ a # p
     /\ Overlaps(a, held)
     /\ branches = held \/ (branches # {} /\ branches \subseteq user[a].branches)

\* updateForActor, updateRoleForActor.
UpdateUser(a, u, role, branches) ==
  /\ Assignable(a, u, user[u].branches, branches)
  /\ user' = [user EXCEPT ![u] = [role |-> role, branches |-> branches]]
  /\ UNCHANGED <<student, account, course, group, lesson, statistic>>

\* The same for the account of a student, whose role is left as it is: one that
\* is made a teacher would be a user and a student with one id.
UpdateAccount(a, s, branches) ==
  /\ account[s] # None
  /\ Assignable(a, s, account[s], branches)
  /\ account' = [account EXCEPT ![s] = branches]
  /\ UNCHANGED <<user, student, course, group, lesson, statistic>>

\* The migration ends.
DeleteAccounts ==
  /\ account' = [s \in Students |-> None]
  /\ UNCHANGED <<user, student, course, group, lesson, statistic>>

\* A student an admin creates is of branches of his; of all, if none is named.
CreateStudent(a, s, branches) ==
  /\ student[s] = None
  /\ SystemWide(a) \/ (IsAdmin(a) /\ user[a].branches # {} /\ branches \subseteq user[a].branches)
  /\ student' = [student EXCEPT ![s] =
       [branches |-> IF IsAdmin(a) /\ branches = {} THEN user[a].branches ELSE branches,
        active |-> TRUE]]
  /\ UNCHANGED <<user, account, course, group, lesson, statistic>>

\* update and softDelete: who sees a student may move him anywhere.
UpdateStudent(a, s, branches, active) ==
  /\ ~ IsTeacher(a) /\ StudentListed(a, s)
  /\ student' = [student EXCEPT ![s] = [branches |-> branches, active |-> active]]
  /\ UNCHANGED <<user, account, course, group, lesson, statistic>>

\* Courses, groups and lessons are created and edited by owners only
\* (assertActorCanMutateCourses and its like).
SetCourse(teachers, students) ==
  /\ \A t \in teachers : IsTeacher(t)
  /\ course' = [teachers |-> teachers, students |-> students]
  /\ UNCHANGED <<user, student, account, group, lesson, statistic>>

\* addManyStudentsToCourse.
AddStudents(students) ==
  /\ course # None
  /\ course' = [course EXCEPT !.students = @ \cup students]
  /\ UNCHANGED <<user, student, account, group, lesson, statistic>>

Teaches(t) ==
  /\ course # None
  /\ IsTeacher(t)
  /\ course.teachers = {} \/ t \in course.teachers

CreateGroup(g, t, students) ==
  /\ group[g] = None
  /\ Teaches(t)
  /\ group' = [group EXCEPT ![g] = [teacher |-> t, students |-> students]]
  /\ UNCHANGED <<user, student, account, course, lesson, statistic>>

\* A body with a teacher but without the course is not held against the course.
UpdateGroup(g, t, students) ==
  /\ group[g] # None
  /\ t = group[g].teacher \/ IsTeacher(t)
  /\ group' = [group EXCEPT ![g] = [teacher |-> t, students |-> students]]
  /\ UNCHANGED <<user, student, account, course, lesson, statistic>>

\* validateRelationsAndConflicts of a new lesson or of one merged with a body.
SetLesson(t, students, g) ==
  LET allowed == IF g = None THEN course.students ELSE group[g].students IN
  /\ Teaches(t)
  /\ g # None => group[g] # None /\ group[g].teacher = t
  /\ students \subseteq allowed
  /\ lesson' = [teacher |-> t, group |-> g,
                students |-> IF students = {} /\ g # None THEN group[g].students ELSE students]
  /\ UNCHANGED <<user, student, account, course, group, statistic>>

\* The routes for removal are open to admins, and what they see there is the
\* document as it is stored.
RemoveCourse(a) ==
  /\ course # None /\ CourseWithinScope(a)
  /\ lesson = None /\ \A g \in Groups : group[g] = None
  /\ course' = None
  /\ UNCHANGED <<user, student, account, group, lesson, statistic>>

RemoveGroup(a, g) ==
  /\ group[g] # None /\ GroupWithinScope(a, g)
  /\ lesson # None => lesson.group # g
  /\ group' = [group EXCEPT ![g] = None]
  /\ UNCHANGED <<user, student, account, course, lesson, statistic>>

RemoveLesson(a) ==
  /\ lesson # None /\ LessonWithinScope(a)
  /\ lesson' = None
  /\ UNCHANGED <<user, student, account, course, group, statistic>>

-----------------------------------------------------------------------------

Next ==
  \/ \E a \in Actors :
       \/ \E m \in Metadata, s \in Known \cup {None} :
            CreateStatistic(a, m, s) \/ UpdateStatistic(a, m, s)
       \/ \E branches \in SUBSET Branches :
            \/ \E u \in Users, role \in {"teacher", "admin"} : UpdateUser(a, u, role, branches)
            \/ \E s \in Students : CreateStudent(a, s, branches) \/ UpdateAccount(a, s, branches)
            \/ \E s \in Students, active \in BOOLEAN : UpdateStudent(a, s, branches, active)
       \/ RemoveStatistic(a) \/ RemoveCourse(a) \/ RemoveLesson(a)
       \/ \E g \in Groups : RemoveGroup(a, g)
  \/ DeleteAccounts
  \/ \E students \in SUBSET Known :
       \/ AddStudents(students)
       \/ \E teachers \in SUBSET Users : SetCourse(teachers, students)
       \/ \E t \in Users, g \in Groups : CreateGroup(g, t, students) \/ UpdateGroup(g, t, students)
       \/ \E t \in Users, g \in Groups \cup {None} : SetLesson(t, students, g)

Spec == Init /\ [][Next]_vars

-----------------------------------------------------------------------------

\* The students among these who left the branches of the admin a, while an
\* account of theirs is still of one.
LeftBehind(a, students) ==
  {s \in students : AccountOverlaps(a, s) /\ ~ Overlaps(a, student[s].branches)}

\* Somebody of the lesson other than p is of no branch of the admin a.
OthersElsewhere(a, p) ==
  ~ WithinBranches(a, {lesson.teacher} \ {p}, lesson.students \ {p})

\* Whatever a list shows can be opened, whoever has moved since it was written,
\* except by an admin:
\*  - a group or course with a student who left his branches but for an account;
\*  - a course of one teacher (see CourseReadable), of nobody, or whose other
\*    teacher is of no branch of his: one teacher suffices its list;
\*  - a lesson he finds by the id of one person and not among the lessons of his
\*    branches, when somebody else on it is elsewhere, or that person has left
\*    but for an account.
\* Of a figure the list shows exactly what can be opened, and of payments the
\* list of reminders exactly those that some list of payments shows; of these,
\* those of another branch, found by their student, cannot be opened.
\* The room of a lesson that is shown can be opened, unless the lesson was found
\* by a teacher who is none any more.
ListedIsReadable ==
  \A a \in Actors :
    /\ \A g \in Groups : GroupListed(a, g) =>
         \/ GroupReadable(a, g)
         \/ IsAdmin(a) /\ LeftBehind(a, group[g].students) # {}
    /\ CourseListed(a) =>
         \/ CourseReadable(a)
         \/ /\ IsAdmin(a)
            /\ \/ Cardinality(course.teachers) = 1
               \/ course.teachers \cup course.students = {}
               \/ Cardinality(course.teachers) > 1 /\ ~ WithinBranches(a, course.teachers, {})
               \/ LeftBehind(a, course.students) # {}
    /\ LessonListed(a) => LessonReadable(a) /\ RoomReadable(a)
    /\ \A p \in Users \cup Known : LessonListedBy(a, p) =>
         /\ \/ LessonReadable(a)
            \/ IsAdmin(a) /\ (OthersElsewhere(a, p) \/ LeftBehind(a, {p} \cap Known) # {})
         /\ RoomReadable(a) \/ (IsAdmin(a) /\ p = lesson.teacher /\ ~ IsTeacher(p))
    /\ StatisticListed(a) <=> StatisticReadable(a)
    /\ \A b \in Branches, s \in Known :
         /\ DeliveryListed(a, b, s) <=> PaymentListed(a, b) \/ PaymentListedByStudent(a, s)
         /\ PaymentListedByStudent(a, s) =>
              PaymentReadable(a, b) \/ (IsAdmin(a) /\ b \notin user[a].branches)

\* Four services count the students of a teacher, each on its own.  Of the
\* active students he is shown, homework and grades can be entered; attendance
\* of those of his groups and of the lessons he is shown, not of those he has
\* by a course alone.
ListedCanBeGraded ==
  \A a \in Actors : \A s \in Known : student[s].active =>
    /\ StudentListed(a, s) =>
         /\ HomeworkAccessible(a, s) /\ GradesAccessible(a, s)
         /\ AttendanceAccessible(a, s) \/ (IsTeacher(a) /\ s \in OfCourses(a) \ OfGroups(a))
    /\ LessonListed(a) /\ s \in lesson.students => AttendanceAccessible(a, s)
=============================================================================
