------------------------------- MODULE MCScopes -------------------------------
(* Instances of Scopes for TLC. *)
EXTENDS Scopes, TLC

\* Bounds: what no property compares is not there at the same time.  A figure is
\* neither beside a lesson, nor beside a course with students, nor there before
\* the migration has ended.  Until then a student is on a group, or on the course
\* or a lesson.  Whether a student is active is asked only before he is graded,
\* and nothing is claimed of one who is not: he has no account left, and is in
\* no document.
Apart ==
  /\ statistic # None =>
       /\ lesson = None
       /\ course # None => course.students = {}
       /\ \A s \in Students : account[s] = None
  /\ (\E s \in Students : account[s] # None) =>
       \A g \in Groups : group[g] # None =>
         lesson = None /\ (course # None => course.students = {})
  /\ \A s \in Known : ~ student[s].active =>
       /\ account[s] = None
       /\ course = None /\ lesson = None /\ statistic = None
       /\ \A g \in Groups : group[g] = None

Symmetry == Permutations(Users) \cup Permutations(Branches)
=============================================================================
