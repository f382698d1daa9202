---------------------------- MODULE MCEnrolment ----------------------------
(* Instances of Enrolment for TLC. *)
EXTENDS Enrolment, TLC

Symmetry == Permutations(Workers) \cup Permutations(Students) \cup Permutations(Groups)

NoWork ==
  /\ \A s \in Students, k \in Kinds : work[s][k] = "none"
  /\ \A w \in Workers : request[w].op # "work"

Unused(g) ==
  /\ group[g] = {}
  /\ \A l \in Lessons : lesson[l] # None => lesson[l].group # g
  /\ \A w \in Workers : request[w].op \in {"load", "lesson"} => request[w].group # g

\* Once there are marks, homework or grades, one group is left alone.
WorkWithOneGroup == NoWork \/ \E g \in Groups : Unused(g)
=============================================================================
