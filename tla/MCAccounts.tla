------------------------------ MODULE MCAccounts ------------------------------
(* Instances of Accounts for TLC: bodies that name one thing at a time. *)
EXTENDS Accounts, TLC

Nothing == [role |-> Keep, status |-> Keep,
            contact |-> [c \in Contacts |-> Keep], branches |-> Keep]

MCAsks ==
  {Nothing}
    \cup {[Nothing EXCEPT !.role = x] : x \in {"owner", "admin"}}
    \cup {[Nothing EXCEPT !.status = s] : s \in {"blocked"}}
    \cup {[Nothing EXCEPT !.contact[c] = v] : c \in Contacts, v \in Values}
    \cup {[Nothing EXCEPT !.branches = b] : b \in {Branches}}

Symmetry == Permutations(Users) \cup Permutations(Workers)
=============================================================================
