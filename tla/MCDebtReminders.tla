--------------------------- MODULE MCDebtReminders ---------------------------
(* Instances of DebtReminders for TLC. *)
EXTENDS DebtReminders, TLC

CONSTANTS p1, p2, f1, f2

\* Student and parent share a phone; a number of no use before a good one.
MCContacts ==
  [p \in Payments |-> IF p = p1 THEN <<f1, f1>> ELSE <<Unusable, f2>>]

Symmetry == Permutations(Servers)
=============================================================================
