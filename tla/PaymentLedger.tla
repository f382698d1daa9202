---------------------------- MODULE PaymentLedger ----------------------------
(***************************************************************************)
(* What the payments collection promises about money, whatever order the   *)
(* requests of the staff and the nightly jobs run in.  An account is       *)
(* opened for a (student, course, month) that has none, takes deposits     *)
(* that are recorded for good, and is closed at most once.  How much of    *)
(* the recorded money is credited is left open between two bounds, because *)
(* two deposits that overlap credit only one of the amounts.  Nothing else *)
(* - freezing, editing, debt aging, monthly generation - moves money.      *)
(***************************************************************************)
EXTENDS Naturals

CONSTANTS Ids, Keys, None

VARIABLE account

Blank(s, k) ==
  [state |-> s, key |-> k, paidAmount |-> 0, entries |-> 0, ledger |-> 0]

\* The amounts range over Nat; they are read off the step.
Open(id, k) ==
  LET paid == account'[id].paidAmount IN
  /\ account[id].state = "unused"
  /\ \A other \in Ids : account[other].state = "live" => account[other].key # k
  /\ account' = [account EXCEPT ![id] =
       [state |-> "live", key |-> k, paidAmount |-> paid,
        entries |-> IF paid > 0 THEN 1 ELSE 0, ledger |-> paid]]

Deposit(id) ==
  LET amount == account'[id].ledger - account[id].ledger
      credit == account'[id].paidAmount
  IN /\ account[id].state = "live"
     /\ amount > 0
     /\ amount <= credit /\ credit <= account[id].ledger + amount
     /\ account' = [account EXCEPT ![id] =
          [state |-> "live", key |-> account[id].key, paidAmount |-> credit,
           entries |-> account[id].entries + 1,
           ledger |-> account[id].ledger + amount]]

Close(id) ==
  /\ account[id].state = "live"
  /\ account' = [account EXCEPT ![id] = Blank("deleted", account[id].key)]

Init == account = [id \in Ids |-> Blank("unused", None)]

Next ==
  \E id \in Ids :
    \/ \E k \in Keys : Open(id, k)
    \/ Deposit(id)
    \/ Close(id)

Spec == Init /\ [][Next]_account
=============================================================================
