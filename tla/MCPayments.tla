----------------------------- MODULE MCPayments -----------------------------
EXTENDS Payments, TLC
CONSTANTS k1
MCPeriodEnd == [k \in Keys |-> 0]
Symmetry == Permutations(Ids) \cup Permutations(Workers)
MCBilling == [k \in Keys |-> IF k = k1 THEN 2 ELSE 0]
=============================================================================
