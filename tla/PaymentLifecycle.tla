-------------------------- MODULE PaymentLifecycle --------------------------
(***************************************************************************)
(* The pure part of the payments code: what calculatePaymentLifecycle      *)
(* (payments/payment-lifecycle.util.ts) derives from a payment document,   *)
(* and the queries that select documents by what it derived.  A document   *)
(* here is any record with the fields these operators read; times and      *)
(* amounts are natural numbers.                                            *)
(***************************************************************************)
EXTENDS Naturals

\* The values of PaymentStatus.
Statuses == {"pending", "partial", "paid", "debt", "frozen", "overpaid"}

\* Mutant: the difference without Math.max.
ExcessUnclamped(a, b) == a - b

\* Math.max(0, a - b).
Excess(a, b) == IF a > b THEN a - b ELSE 0

\* Mutant: partial is tested before the due date, so a payment with some money
\* on it never becomes debt.
LifecycleStatusPartialFirst(p, t) ==
  IF p.isFrozen THEN "frozen"
  ELSE IF p.paidAmount > p.expectedAmount THEN "overpaid"
  ELSE IF p.paidAmount = p.expectedAmount THEN "paid"
  ELSE IF p.paidAmount > 0 THEN "partial"
  ELSE IF p.dueDate < t THEN "debt"
  ELSE "pending"

\* Mutant: the due date is tested first, whether or not anything is owed.
LifecycleStatusDueFirst(p, t) ==
  IF p.isFrozen THEN "frozen"
  ELSE IF p.dueDate < t THEN "debt"
  ELSE IF p.paidAmount > p.expectedAmount THEN "overpaid"
  ELSE IF p.paidAmount = p.expectedAmount THEN "paid"
  ELSE IF p.paidAmount > 0 THEN "partial"
  ELSE "pending"

\* The status of a document at time t; the order of the tests is the code's.
LifecycleStatus(p, t) ==
  IF p.isFrozen THEN "frozen"
  ELSE IF p.paidAmount > p.expectedAmount THEN "overpaid"
  ELSE IF p.paidAmount = p.expectedAmount THEN "paid"
  ELSE IF p.dueDate < t THEN "debt"
  ELSE IF p.paidAmount > 0 THEN "partial"
  ELSE "pending"

\* applyLifecycle: the three derived fields are overwritten, nothing else.
Recalculated(p, t) ==
  [p EXCEPT !.remainingAmount = Excess(p.expectedAmount, p.paidAmount),
            !.overpaidAmount  = Excess(p.paidAmount, p.expectedAmount),
            !.status          = LifecycleStatus(p, t)]

\* What still has to be paid, by the amounts alone.
Owes(p) == p.paidAmount < p.expectedAmount

\* Nothing is left to pay, and the status asks for nothing.
Settled(p) == p.remainingAmount = 0 /\ p.status \in {"paid", "overpaid", "frozen"}

\* Still frozen as PaymentsService.update sees it: without an end, or before it.
FreezeHolds(p, t, none) ==
  p.isFrozen /\ (p.freezeTo = none \/ t < p.freezeTo)

\* Mutant: partial payments are left out of the $match.
ListedAsDebtorUnpaid(p) ==
  p.remainingAmount > 0 /\ p.status \in {"pending", "debt"}

\* The $match of getDebtorsReport when no status is asked for.
ListedAsDebtor(p) ==
  p.remainingAmount > 0 /\ p.status \in {"pending", "partial", "debt"}

\* Mutant: only what the nightly job has marked is reminded of.
EligibleForReminderMarked(p, t) ==
  /\ p.status \notin {"paid", "frozen", "overpaid"}
  /\ ~p.isFrozen
  /\ p.remainingAmount > 0
  /\ p.status = "debt"

\* buildEligiblePaymentFilter: the payments a reminder is sent for.
EligibleForReminder(p, t) ==
  /\ p.status \notin {"paid", "frozen", "overpaid"}
  /\ ~p.isFrozen
  /\ p.remainingAmount > 0
  /\ p.status = "debt" \/ p.dueDate < t
=============================================================================
