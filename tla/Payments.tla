------------------------------ MODULE Payments ------------------------------
(***************************************************************************)
(* PaymentsService and its two background jobs over the payments           *)
(* collection.  Every handler of the service reads a document, decides,    *)
(* and writes in a later database call, so a request here is two steps:    *)
(* the handler's read, which computes the write it will issue, and the     *)
(* write, before which other requests may have run.  With one element in   *)
(* Workers the requests run one after the other.                           *)
(*                                                                         *)
(* A write is a patch: save() sends only the paths that differ from the    *)
(* document that was loaded, findByIdAndUpdate the fields it lists.  The   *)
(* paymentHistory array is its length (entries) and its sum (ledger); a    *)
(* push reaches the database as $push, relative to the stored array.       *)
(***************************************************************************)
EXTENDS PaymentLifecycle, FiniteSets

CONSTANTS
  Ids,        \* _ids a client may generate; never used twice
  Keys,       \* (studentId, courseId, year, month), the unique index
  Workers,    \* requests and job runs in flight at the same time
  Deposits,   \* amounts a caller pays in
  Prices,     \* expected amounts
  Times,      \* due dates and ends of freezes
  MaxTime,    \* bound on the clock
  MaxEntries, \* bound on the history a deposit still extends
  PeriodEnd,  \* end of the month of a key, the default due date
  Billing,    \* what resolveExpectedAmount returns for a key, 0 if skipped
  None        \* an unset optional field

ASSUME DepositsAssumption == Deposits \subseteq Nat \ {0}
ASSUME PricesAssumption == Prices \subseteq Nat \ {0}
ASSUME TimesAssumption == Times \subseteq Nat /\ None \notin Nat
ASSUME BoundsAssumption == MaxTime \in Nat /\ MaxEntries \in Nat
ASSUME PeriodEndAssumption == PeriodEnd \in [Keys -> Times]
ASSUME BillingAssumption == Billing \in [Keys -> Prices \cup {0}]
ASSUME KeysAssumption == None \notin Keys

VARIABLES
  payments,   \* the collection, by _id
  request,    \* what each worker has read and is about to write
  now         \* the clock the handlers read

vars == <<payments, request, now>>

-----------------------------------------------------------------------------
(* Documents and patches *)

Fields ==
  {"expectedAmount", "paidAmount", "remainingAmount", "overpaidAmount",
   "status", "isFrozen", "freezeTo", "dueDate"}

\* A document that is not in the collection: never inserted, or deleted.
Gone(s, k) ==
  [state |-> s, key |-> k, expectedAmount |-> 0, paidAmount |-> 0,
   remainingAmount |-> 0, overpaidAmount |-> 0, status |-> "pending",
   isFrozen |-> FALSE, freezeTo |-> None, dueDate |-> 0,
   entries |-> 0, ledger |-> 0]

Unused == Gone("unused", None)

Live(id) == payments[id].state = "live"

LiveIds == {id \in Ids : Live(id)}

\* findOne({studentId, courseId, year, month}).
Existing(k) == \E id \in LiveIds : payments[id].key = k

\* The document create and generateMonthlyPayments insert.
NewPayment(k, expected, paid, due) ==
  Recalculated(
    [state |-> "live", key |-> k, expectedAmount |-> expected,
     paidAmount |-> paid, remainingAmount |-> 0, overpaidAmount |-> 0,
     status |-> "pending", isFrozen |-> FALSE, freezeTo |-> None,
     dueDate |-> due, entries |-> IF paid > 0 THEN 1 ELSE 0, ledger |-> paid],
    now)

\* The paths save() finds modified.
Delta(loaded, edited) ==
  [f \in {g \in Fields : edited[g] # loaded[g]} |-> edited[f]]

\* The fields findByIdAndUpdate is given.
Listed(edited, fields) == [f \in fields |-> edited[f]]

\* The stored document after a patch.
Merge(p, set) == [f \in DOMAIN p |-> IF f \in DOMAIN set THEN set[f] ELSE p[f]]

\* Mutant: paymentHistory is assigned a new array instead of being pushed to.
PushedReplacing(p, amount) ==
  IF amount = 0 THEN p ELSE [p EXCEPT !.entries = 1, !.ledger = amount]

\* paymentHistory.push: save() sends it as $push.
Pushed(p, amount) ==
  IF amount = 0 THEN p
  ELSE [p EXCEPT !.entries = @ + 1, !.ledger = @ + amount]

-----------------------------------------------------------------------------
(* Requests *)

Idle == [op |-> "idle"]
Write(id, set, push) == [op |-> "write", id |-> id, set |-> set, push |-> push]
Remove(id) == [op |-> "delete", id |-> id]
Insert(id, doc, todo) ==
  [op |-> "insert", id |-> id, doc |-> doc, todo |-> todo]
Generate(todo) == [op |-> "generate", todo |-> todo]
Age(docs) == [op |-> "age", docs |-> docs]

\* The _id of a new document is generated by the client before the insert.
Fresh(id) ==
  /\ payments[id].state = "unused"
  /\ \A w \in Workers : request[w].op = "insert" => request[w].id # id

Goto(w, r) == request' = [request EXCEPT ![w] = r]

\* A handler of an existing payment: findById found it.
Loads(w, id) == request[w] = Idle /\ Live(id) /\ UNCHANGED <<payments, now>>

Init ==
  /\ payments = [id \in Ids |-> Unused]
  /\ request = [w \in Workers |-> Idle]
  /\ now = 0

\* create: checkDuplicatePayment passed; the insert is still to come.
ReadCreate(w, id, k, expected, paid, due) ==
  /\ request[w] = Idle
  /\ Fresh(id)
  /\ ~Existing(k)
  /\ Goto(w, Insert(id, NewPayment(k, expected, paid, due), {}))
  /\ UNCHANGED <<payments, now>>

\* addPayment rejects only a freeze with an end that is still ahead; any other
\* freeze is lifted on the way.
RejectsDeposit(p) == p.isFrozen /\ p.freezeTo # None /\ now < p.freezeTo

Thawed(p) == [p EXCEPT !.isFrozen = FALSE, !.freezeTo = None]

\* Mutant: the amounts are credited but the history entry is forgotten.
ReadAddPaymentUnrecorded(w, id, amount) ==
  LET p == payments[id]
      new == Recalculated([(IF p.isFrozen THEN Thawed(p) ELSE p)
                             EXCEPT !.paidAmount = @ + amount], now)
  IN /\ Loads(w, id)
     /\ p.entries < MaxEntries
     /\ ~RejectsDeposit(p)
     /\ Goto(w, Write(id, Delta(p, new), 0))

ReadAddPayment(w, id, amount) ==
  LET p == payments[id]
      new == Recalculated([(IF p.isFrozen THEN Thawed(p) ELSE p)
                             EXCEPT !.paidAmount = @ + amount], now)
  IN /\ Loads(w, id)
     /\ p.entries < MaxEntries
     /\ ~RejectsDeposit(p)
     /\ Goto(w, Write(id, Delta(p, new), amount))

\* freezePayment: the amounts stay as they are, the status becomes frozen.
ReadFreeze(w, id, until) ==
  LET p == payments[id]
      new == [p EXCEPT !.isFrozen = TRUE, !.freezeTo = until,
                       !.status = "frozen"]
  IN Loads(w, id) /\ Goto(w, Write(id, Delta(p, new), 0))

\* Mutant: the freeze is lifted but the lifecycle is not applied again.
ReadUnfreezeOnly(w, id) ==
  LET p == payments[id]
  IN /\ Loads(w, id)
     /\ p.isFrozen
     /\ Goto(w, Write(id, Delta(p, Thawed(p)), 0))

ReadUnfreeze(w, id) ==
  LET p == payments[id]
  IN /\ Loads(w, id)
     /\ p.isFrozen
     /\ Goto(w, Write(id, Delta(p, Recalculated(Thawed(p), now)), 0))

\* Mutant: remainingAmount is missing from updateData.
UpdatedFieldsNoRemaining ==
  {"expectedAmount", "overpaidAmount", "status", "dueDate"}

\* update with a new expected amount or due date; comments are not modelled.
UpdatedFields ==
  {"expectedAmount", "remainingAmount", "overpaidAmount", "status", "dueDate"}

Locked(p) == p.status \in {"paid", "debt"}

ReadUpdate(w, id, expected, due) ==
  LET p == payments[id]
      new == Recalculated([p EXCEPT !.expectedAmount = expected,
                                    !.dueDate = due], now)
  IN /\ Loads(w, id)
     /\ ~FreezeHolds(p, now, None)
     /\ ~Locked(p)
     /\ Goto(w, Write(id, Listed(new, UpdatedFields), 0))

\* delete refuses a payment with history; the deletion itself is unconditional.
ReadDelete(w, id) ==
  /\ Loads(w, id)
  /\ payments[id].entries = 0
  /\ Goto(w, Remove(id))

-----------------------------------------------------------------------------
(* The database call of a request *)

\* Mutant: the write is an upsert, which brings a deleted document back.
CommitWriteUpsert(w) ==
  LET r == request[w] IN
  /\ r.op = "write"
  /\ payments' = [payments EXCEPT ![r.id] =
                    Pushed(Merge([@ EXCEPT !.state = "live"], r.set), r.push)]
  /\ Goto(w, Idle)
  /\ UNCHANGED now

CommitWrite(w) ==
  LET r == request[w] IN
  /\ r.op = "write"
  /\ payments' = IF Live(r.id)
                 THEN [payments EXCEPT ![r.id] = Pushed(Merge(@, r.set), r.push)]
                 ELSE payments
  /\ Goto(w, Idle)
  /\ UNCHANGED now

CommitDelete(w) ==
  LET r == request[w] IN
  /\ r.op = "delete"
  /\ payments' = IF Live(r.id)
                 THEN [payments EXCEPT ![r.id] = Gone("deleted", @.key)]
                 ELSE payments
  /\ Goto(w, Idle)
  /\ UNCHANGED now

\* Mutant: there is no unique index.
CommitInsertUnindexed(w) ==
  LET r == request[w] IN
  /\ r.op = "insert"
  /\ payments' = [payments EXCEPT ![r.id] = r.doc]
  /\ Goto(w, IF r.todo = {} THEN Idle ELSE Generate(r.todo))
  /\ UNCHANGED now

\* The unique index refuses a second document with the key: create fails, the
\* generation counts a duplicateRace; both leave the collection alone.
CommitInsert(w) ==
  LET r == request[w] IN
  /\ r.op = "insert"
  /\ payments' = IF Existing(r.doc.key)
                 THEN payments ELSE [payments EXCEPT ![r.id] = r.doc]
  /\ Goto(w, IF r.todo = {} THEN Idle ELSE Generate(r.todo))
  /\ UNCHANGED now

\* A write conflict, a lost connection or a crash ends the request.  Nothing it
\* still had to write is written.
Abort(w) ==
  /\ request[w] # Idle
  /\ Goto(w, Idle)
  /\ UNCHANGED <<payments, now>>

-----------------------------------------------------------------------------
(* generateMonthlyPayments: for each pair a findOne and then an insert *)

\* The guard on the unused _ids is the bound on Ids, not a check of the code.
StartGeneration(w) ==
  /\ request[w] = Idle
  /\ Cardinality({id \in Ids : Fresh(id)}) >= Cardinality(Keys)
  /\ Goto(w, Generate(Keys))
  /\ UNCHANGED <<payments, now>>

\* A pair without a branch, a group or a price is skipped, like one that
\* already has its payment.
SkipPair(w, k) ==
  LET r == request[w] IN
  /\ r.op = "generate" /\ k \in r.todo
  /\ Existing(k) \/ Billing[k] = 0
  /\ Goto(w, IF r.todo = {k} THEN Idle ELSE Generate(r.todo \ {k}))
  /\ UNCHANGED <<payments, now>>

ReadPair(w, k, id) ==
  LET r == request[w] IN
  /\ r.op = "generate" /\ k \in r.todo
  /\ Fresh(id)
  /\ ~Existing(k) /\ Billing[k] # 0
  /\ Goto(w, Insert(id, NewPayment(k, Billing[k], 0, PeriodEnd[k]), r.todo \ {k}))
  /\ UNCHANGED <<payments, now>>

-----------------------------------------------------------------------------
(* recalculateDebtAging: one find, then a write for each document to change *)

StartAging(w) ==
  /\ request[w] = Idle
  /\ LiveIds # {}
  /\ Goto(w, Age([id \in LiveIds |-> payments[id]]))
  /\ UNCHANGED <<payments, now>>

AgingSkips(p) == p.isFrozen \/ p.status \in {"frozen", "paid", "overpaid"}

AgedFields == {"status", "remainingAmount", "overpaidAmount", "dueDate"}

AgeOne(w, id) ==
  LET r == request[w]
      p == r.docs[id]
      new == Recalculated(p, now)
      rest == DOMAIN r.docs \ {id}
  IN /\ r.op = "age" /\ id \in DOMAIN r.docs
     /\ payments' =
          IF Live(id) /\ ~AgingSkips(p) /\ new.status # p.status
          THEN [payments EXCEPT ![id] =
                  Merge(@, Listed(new, AgedFields))]
          ELSE payments
     /\ Goto(w, IF rest = {} THEN Idle ELSE Age([i \in rest |-> r.docs[i]]))
     /\ UNCHANGED now

-----------------------------------------------------------------------------

Tick == now < MaxTime /\ now' = now + 1 /\ UNCHANGED <<payments, request>>

Read(w) ==
  \/ \E id \in Ids, k \in Keys, e \in Prices, a \in Deposits \cup {0}, d \in Times :
       ReadCreate(w, id, k, e, a, d)
  \/ \E id \in Ids, a \in Deposits : ReadAddPayment(w, id, a)
  \/ \E id \in Ids, t \in Times \cup {None} : ReadFreeze(w, id, t)
  \/ \E id \in Ids : ReadUnfreeze(w, id)
  \/ \E id \in Ids, e \in Prices, d \in Times : ReadUpdate(w, id, e, d)
  \/ \E id \in Ids : ReadDelete(w, id)

Commit(w) == CommitWrite(w) \/ CommitDelete(w) \/ CommitInsert(w)

Job(w) ==
  \/ \E k \in Keys : SkipPair(w, k)
  \/ \E k \in Keys, id \in Ids : ReadPair(w, k, id)
  \/ \E id \in Ids : AgeOne(w, id)

Next ==
  \/ \E w \in Workers :
       Read(w) \/ Commit(w) \/ Abort(w) \/ StartGeneration(w) \/ StartAging(w) \/ Job(w)
  \/ Tick

Spec == Init /\ [][Next]_vars

\* The jobs are started by cron every day, a run is not cut short for ever, and
\* the database answers.
Fairness ==
  \A w \in Workers :
    /\ SF_vars(StartAging(w))
    /\ \A id \in Ids : SF_vars(AgeOne(w, id))
    /\ WF_vars(Commit(w))
    /\ WF_vars(Job(w))

FairSpec == Spec /\ Fairness

-----------------------------------------------------------------------------
(* Types *)

Doc ==
  [state : {"unused", "live", "deleted"}, key : Keys \cup {None},
   expectedAmount : Nat, paidAmount : Nat, remainingAmount : Nat,
   overpaidAmount : Nat, status : Statuses, isFrozen : BOOLEAN,
   freezeTo : Nat \cup {None}, dueDate : Nat, entries : Nat, ledger : Nat]

\* A patch writes some of the Fields, each with a value of its type.
IsPatch(set) ==
  /\ DOMAIN set \subseteq Fields
  /\ \A f \in DOMAIN set :
       /\ f \in {"expectedAmount", "paidAmount", "remainingAmount",
                  "overpaidAmount", "dueDate"} => set[f] \in Nat
       /\ f = "status" => set[f] \in Statuses
       /\ f = "isFrozen" => set[f] \in BOOLEAN
       /\ f = "freezeTo" => set[f] \in Nat \cup {None}

IsRequest(r) ==
  /\ r.op \in {"idle", "write", "delete", "insert", "generate", "age"}
  /\ r.op = "write" => r.id \in Ids /\ IsPatch(r.set) /\ r.push \in Nat
  /\ r.op = "delete" => r.id \in Ids
  /\ r.op = "insert" => /\ r.id \in Ids
                        /\ r.doc \in Doc /\ r.doc.state = "live"
                        /\ r.doc.key \in Keys /\ r.todo \subseteq Keys
  /\ r.op = "generate" => r.todo \subseteq Keys
  /\ r.op = "age" => /\ DOMAIN r.docs \subseteq Ids
                     /\ \A id \in DOMAIN r.docs : r.docs[id] \in Doc

TypeOK ==
  /\ payments \in [Ids -> Doc]
  /\ now \in Nat
  /\ DOMAIN request = Workers
  /\ request = [w \in Workers |-> request[w]]
  /\ \A w \in Workers : IsRequest(request[w])

-----------------------------------------------------------------------------
(* What holds whatever the interleaving *)

\* create and generateMonthlyPayments, checking at the same time, never leave
\* two payments of one student for the same course and month.
OnePaymentPerPeriod ==
  \A i, j \in LiveIds : payments[i].key = payments[j].key => i = j

\* No interleaving of deposits credits a payment with more money than its
\* paymentHistory records: an overlap can lose a credit, never invent one.
CreditBackedByLedger ==
  \A id \in LiveIds : payments[id].paidAmount <= payments[id].ledger

\* What makes the two inductive: a save under way credits no more than its
\* entry and the history stored by then can back, and an insert under way
\* holds an _id nobody else has.
SaveInFlight(r) ==
  /\ payments[r.id].state # "unused"
  /\ IF "paidAmount" \in DOMAIN r.set
     THEN /\ 0 < r.push /\ r.push <= r.set["paidAmount"]
          /\ Live(r.id) =>
               r.set["paidAmount"] <= payments[r.id].ledger + r.push
     ELSE r.push = 0

InsertInFlight(r) ==
  /\ payments[r.id].state = "unused"
  /\ r.doc.paidAmount = r.doc.ledger
  /\ r.doc.entries = IF r.doc.paidAmount > 0 THEN 1 ELSE 0

MoneyInv ==
  /\ CreditBackedByLedger
  /\ OnePaymentPerPeriod
  /\ \A w \in Workers :
       /\ request[w].op = "write" => SaveInFlight(request[w])
       /\ request[w].op = "insert" => InsertInFlight(request[w])
  /\ \A v, w \in Workers :
       request[v].op = "insert" /\ request[w].op = "insert"
         /\ request[v].id = request[w].id => v = w

Ledger ==
  INSTANCE PaymentLedger WITH
    account <- [id \in Ids |->
      [state |-> payments[id].state, key |-> payments[id].key,
       paidAmount |-> payments[id].paidAmount,
       entries |-> payments[id].entries, ledger |-> payments[id].ledger]]

\* The collection behaves as the abstract ledger: history is only appended to,
\* paidAmount moves only together with an entry, whatever stale document a
\* save, an update or the aging job writes from, and a deleted payment is not
\* brought back by a write that was still under way.
ImplementsLedger == Ledger!Spec

-----------------------------------------------------------------------------
(* What holds as long as no two requests overlap *)

\* The amounts of a document are those its history and its price dictate.
Balanced(p) ==
  /\ p.paidAmount = p.ledger
  /\ p.remainingAmount = Excess(p.expectedAmount, p.ledger)
  /\ p.overpaidAmount = Excess(p.ledger, p.expectedAmount)

\* Its status is what the lifecycle gave at some moment up to t.
StatusFollows(p, t) == \E s \in 0..t : p.status = LifecycleStatus(p, s)

\* The amounts stored by five different write paths stay those that the
\* history and the expected amount dictate.
AmountsAgree == \A id \in LiveIds : Balanced(payments[id])

\* The stored status is what the lifecycle gave at some moment up to now: only
\* the passing of the due date may make it out of date.
StatusAgrees == \A id \in LiveIds : StatusFollows(payments[id], now)

\* What makes the two inductive while there is one request: its write, done to
\* the document as it is stored, gives one with the right amounts and status;
\* the document it will insert is right; and the documents the aging job loaded
\* are those that are stored.
Written(r) == Pushed(Merge(payments[r.id], r.set), r.push)

RightRequest(r) ==
  /\ r.op = "write" =>
       /\ Live(r.id) /\ Balanced(Written(r)) /\ StatusFollows(Written(r), now)
  /\ r.op = "insert" => Balanced(r.doc) /\ StatusFollows(r.doc, now)
  /\ r.op = "age" =>
       \A id \in DOMAIN r.docs : Live(id) /\ r.docs[id] = payments[id]

SerialInv ==
  AmountsAgree /\ StatusAgrees /\ \A w \in Workers : RightRequest(request[w])

\* The debtors report lists a payment exactly when money is owed on it and it
\* is not frozen, although the query looks only at derived fields.
DebtorsReportExact ==
  \A id \in LiveIds :
    ListedAsDebtor(payments[id]) <=>
      Owes(payments[id]) /\ ~payments[id].isFrozen

\* Reminders go out exactly for the unfrozen payments that are past their due
\* date with money owed, whether or not the nightly job has marked them yet.
RemindersReachDebtors ==
  \A id \in LiveIds :
    LET p == payments[id] IN
    EligibleForReminder(p, now) <=> Owes(p) /\ ~p.isFrozen /\ p.dueDate < now

\* What is left to pay never grows, and a payment that is settled, also one that
\* is overpaid or frozen, is not asked for again, whatever the order of freezes,
\* deposits, edits, thaws and agings: unless an update raises its expected
\* amount, for a settled one above what the history records.
StaysSettled(before, after) ==
  /\ after.expectedAmount <= before.expectedAmount =>
       after.remainingAmount <= before.remainingAmount
  /\ Settled(before) /\ after.expectedAmount <= before.ledger => Settled(after)

SettledStaysSettled ==
  [][\A id \in Ids :
       Live(id) /\ Live(id)' => StaysSettled(payments[id], payments'[id])]_vars

\* An unfrozen payment that is past its due date and not fully paid is sooner
\* or later marked as debt, unless what makes it overdue ends first.
Overdue(id) ==
  LET p == payments[id] IN Live(id) /\ Owes(p) /\ p.dueDate < now /\ ~p.isFrozen

OverdueBecomesDebt ==
  \A id \in Ids : Overdue(id) ~> (~Overdue(id) \/ payments[id].status = "debt")
=============================================================================
