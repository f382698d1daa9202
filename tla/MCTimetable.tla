---------------------------- MODULE MCTimetable -----------------------------
(* Instances of Timetable for TLC. *)
EXTENDS Timetable, TLC

CONSTANTS r1, r2, t1, t2, g1, s1

Ask(room, teacher, group, students) ==
  [room |-> room, teacher |-> teacher, group |-> group, students |-> students]

\* The first two share a student, the last two everything but him, the first
\* and the last nothing.
MCAsks ==
  {Ask(r1, t1, None, {s1}), Ask(r2, t2, g1, {s1}), Ask(r2, t2, g1, {})}

Symmetry == Permutations(Lessons) \cup Permutations(Workers)
=============================================================================
