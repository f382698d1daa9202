----------------------------- MODULE MCCatalog -----------------------------
(* Instances of Catalog for TLC. *)
EXTENDS Catalog, TLC, FiniteSets

Symmetry == Permutations(Workers)

\* Requests overlap only as long as there is no payment, nor one on its way.
PaymentsAlone ==
  \/ \A b \in Bills : docs[b].state = "unused"
                      /\ \A w \in Workers : request[w] = Idle \/ request[w].id # b
  \/ Cardinality({w \in Workers : request[w] # Idle}) <= 1
=============================================================================
