--------------------------- MODULE PaymentsProofs ---------------------------
(***************************************************************************)
(* What holds of Payments for any number of documents, keys, requests in   *)
(* flight, amounts and dates: its types, the bound of every credit by the  *)
(* recorded history, the uniqueness of a payment per month, and that the   *)
(* collection implements PaymentLedger.  While requests do not overlap, it *)
(* also holds that amounts and status follow the history, so that report   *)
(* and reminders find the debtors, and that settled payments stay settled. *)
(***************************************************************************)
EXTENDS Payments, TLAPS

-----------------------------------------------------------------------------
(* The lifecycle function *)

LEMMA StatusType ==
  ASSUME NEW p, NEW t PROVE LifecycleStatus(p, t) \in Statuses
BY DEF LifecycleStatus, Statuses

LEMMA ExcessType ==
  ASSUME NEW a \in Nat, NEW b \in Nat PROVE Excess(a, b) \in Nat
BY DEF Excess

\* applyLifecycle keeps a document a document and leaves the money alone.
LEMMA RecalculatedType ==
  ASSUME NEW p \in Doc, NEW t
  PROVE  /\ Recalculated(p, t) \in Doc
         /\ Recalculated(p, t).paidAmount = p.paidAmount
BY StatusType, ExcessType DEF Recalculated, Doc

\* calculatePaymentLifecycle balances the books of a payment: what was paid and
\* is still owed is what was expected and paid too much, and a payment is never
\* in debt and overpaid at once.
THEOREM LifecycleBalances ==
  ASSUME NEW p \in Doc, NEW t \in Nat
  PROVE  LET q == Recalculated(p, t) IN
         /\ q.paidAmount + q.remainingAmount = q.expectedAmount + q.overpaidAmount
         /\ q.remainingAmount = 0 \/ q.overpaidAmount = 0
BY DEF Recalculated, Excess, Doc

\* "calculation is idempotent": applying the lifecycle twice at the same time
\* is applying it once.
THEOREM LifecycleIdempotent ==
  ASSUME NEW p \in Doc, NEW t \in Nat
  PROVE  Recalculated(Recalculated(p, t), t) = Recalculated(p, t)
<1> DEFINE q == Recalculated(p, t)
<1>1. /\ q.isFrozen = p.isFrozen /\ q.paidAmount = p.paidAmount
      /\ q.expectedAmount = p.expectedAmount /\ q.dueDate = p.dueDate
  BY DEF Recalculated, Doc
<1>2. LifecycleStatus(q, t) = LifecycleStatus(p, t)
  BY <1>1 DEF LifecycleStatus
<1> QED
  BY <1>1, <1>2, StatusType, ExcessType DEF Recalculated, Doc

-----------------------------------------------------------------------------
(* Patches *)

\* The patch save() computes is well typed.
LEMMA DeltaType ==
  ASSUME NEW p \in Doc, NEW q \in Doc
  PROVE  /\ IsPatch(Delta(p, q))
         /\ "paidAmount" \in DOMAIN Delta(p, q) <=> p.paidAmount # q.paidAmount
         /\ p.paidAmount # q.paidAmount =>
              Delta(p, q)["paidAmount"] = q.paidAmount
BY DEF Delta, IsPatch, Fields, Doc

\* So is the one given to findByIdAndUpdate.
LEMMA ListedType ==
  ASSUME NEW q \in Doc, NEW S \in SUBSET Fields
  PROVE  IsPatch(Listed(q, S)) /\ DOMAIN Listed(q, S) = S
BY DEF Listed, IsPatch, Fields, Doc

\* Merging a patch keeps the identity and the history of the stored document,
\* and changes paidAmount only if the patch holds it.
LEMMA MergeType ==
  ASSUME NEW p \in Doc, NEW g, IsPatch(g)
  PROVE  /\ Merge(p, g) \in Doc
         /\ Merge(p, g).state = p.state
         /\ Merge(p, g).key = p.key
         /\ Merge(p, g).entries = p.entries
         /\ Merge(p, g).ledger = p.ledger
         /\ Merge(p, g).paidAmount =
              IF "paidAmount" \in DOMAIN g THEN g["paidAmount"] ELSE p.paidAmount
BY DEF Merge, IsPatch, Fields, Doc

\* Adding to the history keeps everything else, the credit included.
LEMMA PushedType ==
  ASSUME NEW p \in Doc, NEW a \in Nat
  PROVE  /\ Pushed(p, a) \in Doc
         /\ Pushed(p, a).state = p.state
         /\ Pushed(p, a).key = p.key
         /\ Pushed(p, a).paidAmount = p.paidAmount
         /\ Pushed(p, a).ledger = p.ledger + a
         /\ Pushed(p, a).entries = IF a = 0 THEN p.entries ELSE p.entries + 1
<1>1. CASE a = 0
  BY <1>1 DEF Pushed, Doc
<1>2. CASE a # 0
  <2> DEFINE n == p.entries + 1
             m == p.ledger + a
             one == [p EXCEPT !.entries = n]
             both == [one EXCEPT !.ledger = m]
  <2>1. n \in Nat /\ m \in Nat
    BY DEF Doc
  <2>2. Pushed(p, a) = both
    BY <1>2 DEF Pushed, Doc
  <2>3. /\ one \in Doc /\ one.entries = n /\ one.ledger = p.ledger
        /\ one.state = p.state /\ one.key = p.key
        /\ one.paidAmount = p.paidAmount
    <3> HIDE DEF n, m
    <3> QED
      BY <2>1 DEF Doc
  <2>4. /\ both \in Doc /\ both.ledger = m /\ both.entries = one.entries
        /\ both.state = one.state /\ both.key = one.key
        /\ both.paidAmount = one.paidAmount
    <3> HIDE DEF n, m, one
    <3> QED
      BY <2>1, <2>3 DEF Doc
  <2> HIDE DEF one, both
  <2> QED
    BY <1>2, <2>2, <2>3, <2>4
<1> QED
  BY <1>1, <1>2

LEMMA GoneType ==
  ASSUME NEW k \in Keys \cup {None}, NEW s \in {"unused", "deleted"}
  PROVE  Gone(s, k) \in Doc /\ Gone(s, k).state = s /\ Gone(s, k).key = k
BY DEF Gone, Doc, Statuses

LEMMA NewPaymentType ==
  ASSUME NEW k \in Keys, NEW e \in Nat, NEW a \in Nat, NEW d \in Nat
  PROVE  LET doc == NewPayment(k, e, a, d) IN
         /\ doc \in Doc /\ doc.state = "live" /\ doc.key = k
         /\ doc.paidAmount = a /\ doc.ledger = a
         /\ doc.entries = IF a > 0 THEN 1 ELSE 0
<1> DEFINE base == [state |-> "live", key |-> k, expectedAmount |-> e,
     paidAmount |-> a, remainingAmount |-> 0, overpaidAmount |-> 0,
     status |-> "pending", isFrozen |-> FALSE, freezeTo |-> None,
     dueDate |-> d, entries |-> IF a > 0 THEN 1 ELSE 0, ledger |-> a]
<1>1. base \in Doc
  BY DEF Doc, Statuses
<1>2. NewPayment(k, e, a, d) = Recalculated(base, now)
  BY DEF NewPayment
<1>3. /\ Recalculated(base, now).state = base.state
      /\ Recalculated(base, now).key = base.key
      /\ Recalculated(base, now).ledger = base.ledger
      /\ Recalculated(base, now).entries = base.entries
  BY DEF Recalculated
<1> QED
  BY <1>1, <1>2, <1>3, RecalculatedType

-----------------------------------------------------------------------------
(* Type correctness *)

\* What a worker does to its request, for the proofs of single steps.
LEMMA GotoType ==
  ASSUME TypeOK, NEW w \in Workers, NEW r, Goto(w, r), IsRequest(r)
  PROVE  /\ DOMAIN request' = Workers
         /\ request' = [v \in Workers |-> request'[v]]
         /\ \A v \in Workers : IsRequest(request'[v])
         /\ \A v \in Workers : request'[v] = IF v = w THEN r ELSE request[v]
BY DEF Goto, TypeOK

LEMMA IdleType == IsRequest(Idle)
BY DEF IsRequest, Idle

LEMMA WriteType ==
  ASSUME NEW id \in Ids, NEW g, IsPatch(g), NEW a \in Nat
  PROVE  IsRequest(Write(id, g, a))
BY DEF IsRequest, Write

LEMMA InsertType ==
  ASSUME NEW id \in Ids, NEW d \in Doc, d.state = "live", d.key \in Keys,
         NEW S \in SUBSET Keys
  PROVE  IsRequest(Insert(id, d, S))
BY DEF IsRequest, Insert

LEMMA GenerateType ==
  ASSUME NEW S \in SUBSET Keys PROVE IsRequest(Generate(S))
BY DEF IsRequest, Generate

LEMMA AgeType ==
  ASSUME NEW docs, DOMAIN docs \subseteq Ids,
         \A id \in DOMAIN docs : docs[id] \in Doc
  PROVE  IsRequest(Age(docs))
BY DEF IsRequest, Age

\* The handlers that read a document leave a well-typed patch behind.
LEMMA ReadType ==
  ASSUME TypeOK, NEW w \in Workers, Read(w)
  PROVE  \E r : IsRequest(r) /\ Goto(w, r) /\ UNCHANGED <<payments, now>>
<1> USE DepositsAssumption, PricesAssumption, TimesAssumption
<1>0. \A id \in Ids : payments[id] \in Doc
  BY DEF TypeOK
<1>1. ASSUME NEW id \in Ids, NEW k \in Keys, NEW e \in Prices,
             NEW a \in Deposits \cup {0}, NEW d \in Times,
             ReadCreate(w, id, k, e, a, d)
      PROVE  \E r : IsRequest(r) /\ Goto(w, r) /\ UNCHANGED <<payments, now>>
  <2>1. e \in Nat /\ a \in Nat /\ d \in Nat
    OBVIOUS
  <2>2. IsRequest(Insert(id, NewPayment(k, e, a, d), {}))
    BY <2>1, NewPaymentType, InsertType
  <2> QED
    BY <1>1, <2>2 DEF ReadCreate
<1>2. ASSUME NEW id \in Ids, NEW a \in Deposits, ReadAddPayment(w, id, a)
      PROVE  \E r : IsRequest(r) /\ Goto(w, r) /\ UNCHANGED <<payments, now>>
  <2> DEFINE p == payments[id]
             base == IF p.isFrozen THEN Thawed(p) ELSE p
             paid == [base EXCEPT !.paidAmount = @ + a]
  <2>1. base \in Doc
    BY <1>0 DEF Thawed, Doc
  <2>2. paid \in Doc
    BY <2>1 DEF Doc
  <2>3. IsRequest(Write(id, Delta(p, Recalculated(paid, now)), a))
    BY <1>0, <2>2, RecalculatedType, DeltaType, WriteType
  <2> QED
    BY <1>2, <2>3 DEF ReadAddPayment, Loads
<1>3. ASSUME NEW id \in Ids, NEW t \in Times \cup {None}, ReadFreeze(w, id, t)
      PROVE  \E r : IsRequest(r) /\ Goto(w, r) /\ UNCHANGED <<payments, now>>
  <2> DEFINE new == [payments[id] EXCEPT !.isFrozen = TRUE, !.freezeTo = t,
                                         !.status = "frozen"]
  <2>1. new \in Doc
    BY <1>0 DEF Doc, Statuses
  <2>2. IsRequest(Write(id, Delta(payments[id], new), 0))
    BY <1>0, <2>1, DeltaType, WriteType
  <2> QED
    BY <1>3, <2>2 DEF ReadFreeze, Loads
<1>4. ASSUME NEW id \in Ids, ReadUnfreeze(w, id)
      PROVE  \E r : IsRequest(r) /\ Goto(w, r) /\ UNCHANGED <<payments, now>>
  <2> DEFINE new == Recalculated(Thawed(payments[id]), now)
  <2>1. Thawed(payments[id]) \in Doc
    BY <1>0 DEF Thawed, Doc
  <2>2. IsRequest(Write(id, Delta(payments[id], new), 0))
    BY <1>0, <2>1, RecalculatedType, DeltaType, WriteType
  <2> QED
    BY <1>4, <2>2 DEF ReadUnfreeze, Loads
<1>5. ASSUME NEW id \in Ids, NEW e \in Prices, NEW d \in Times,
             ReadUpdate(w, id, e, d)
      PROVE  \E r : IsRequest(r) /\ Goto(w, r) /\ UNCHANGED <<payments, now>>
  <2> DEFINE terms == [payments[id] EXCEPT !.expectedAmount = e, !.dueDate = d]
  <2>1. terms \in Doc
    BY <1>0 DEF Doc
  <2>2. IsRequest(Write(id, Listed(Recalculated(terms, now), UpdatedFields), 0))
    BY <2>1, RecalculatedType, ListedType, WriteType DEF Fields, UpdatedFields
  <2> QED
    BY <1>5, <2>2 DEF ReadUpdate, Loads
<1>6. ASSUME NEW id \in Ids, ReadDelete(w, id)
      PROVE  \E r : IsRequest(r) /\ Goto(w, r) /\ UNCHANGED <<payments, now>>
  BY <1>6 DEF ReadDelete, Loads, Remove, IsRequest
<1> QED
  BY <1>1, <1>2, <1>3, <1>4, <1>5, <1>6 DEF Read

\* A patched document of the collection is a document.
LEMMA StoredType ==
  ASSUME TypeOK, NEW id, NEW d \in Doc
  PROVE  [payments EXCEPT ![id] = d] \in [Ids -> Doc]
BY DEF TypeOK

\* The price and the due date that the generation looks up.
LEMMA ConfiguredType ==
  ASSUME NEW k \in Keys PROVE Billing[k] \in Nat /\ PeriodEnd[k] \in Nat
<1>1. PeriodEnd[k] \in Nat
  BY PeriodEndAssumption, TimesAssumption
<1> DEFINE b == Billing[k]
<1>2. b \in Prices \cup {0}
  BY BillingAssumption
<1> HIDE DEF b
<1>3. b \in Nat
  BY <1>2, PricesAssumption
<1> QED
  BY <1>1, <1>3 DEF b

\* Every step of a worker keeps the types.
LEMMA StepType ==
  ASSUME TypeOK, NEW w \in Workers,
         \/ Read(w) \/ Commit(w) \/ Abort(w)
         \/ StartGeneration(w) \/ StartAging(w) \/ Job(w)
  PROVE  TypeOK'
<1> USE PricesAssumption, TimesAssumption, PeriodEndAssumption, BillingAssumption
<1> DEFINE r == request[w]
<1>0. IsRequest(r) /\ payments \in [Ids -> Doc] /\ now \in Nat
  BY DEF TypeOK
<1>1. ASSUME payments' \in [Ids -> Doc], now' = now,
             NEW q, IsRequest(q), Goto(w, q)
      PROVE  TypeOK'
  <2>1. now' \in Nat
    BY <1>0, <1>1
  <2> QED
    BY <1>1, <2>1, GotoType DEF TypeOK, IsRequest, IsPatch, Doc, Fields
<1>2. CASE Read(w)
  BY <1>0, <1>1, <1>2, ReadType
<1>3. CASE CommitWrite(w)
  <2>1. Live(r.id) => Pushed(Merge(payments[r.id], r.set), r.push) \in Doc
    BY <1>0, <1>3, MergeType, PushedType DEF IsRequest, CommitWrite
  <2>2. payments' \in [Ids -> Doc]
    BY <1>0, <1>3, <2>1, StoredType DEF CommitWrite
  <2> QED
    BY <1>1, <1>3, <2>2, IdleType DEF CommitWrite
<1>4. CASE CommitDelete(w)
  <2>1. Live(r.id) => Gone("deleted", payments[r.id].key) \in Doc
    BY <1>0, <1>4, GoneType DEF IsRequest, CommitDelete, Doc
  <2>2. payments' \in [Ids -> Doc]
    BY <1>0, <1>4, <2>1, StoredType DEF CommitDelete
  <2> QED
    BY <1>1, <1>4, <2>2, IdleType DEF CommitDelete
<1>5. CASE CommitInsert(w)
  <2>1. payments' \in [Ids -> Doc]
    BY <1>0, <1>5, StoredType DEF CommitInsert, IsRequest
  <2>2. IsRequest(IF r.todo = {} THEN Idle ELSE Generate(r.todo))
    BY <1>0, <1>5, IdleType, GenerateType DEF CommitInsert, IsRequest
  <2> QED
    BY <1>1, <1>5, <2>1, <2>2 DEF CommitInsert
<1>6. CASE Abort(w)
  BY <1>0, <1>1, <1>6, IdleType DEF Abort
<1>7. CASE StartGeneration(w)
  BY <1>0, <1>1, <1>7, GenerateType DEF StartGeneration
<1>8. CASE StartAging(w)
  <2>1. IsRequest(Age([id \in LiveIds |-> payments[id]]))
    BY <1>0, AgeType DEF LiveIds
  <2> QED
    BY <1>0, <1>1, <1>8, <2>1 DEF StartAging
<1>9. ASSUME NEW k \in Keys, SkipPair(w, k)
      PROVE  TypeOK'
  <2>1. IsRequest(IF r.todo = {k} THEN Idle ELSE Generate(r.todo \ {k}))
    BY <1>0, <1>9, IdleType, GenerateType DEF SkipPair, IsRequest
  <2> QED
    BY <1>0, <1>1, <1>9, <2>1 DEF SkipPair
<1>10. ASSUME NEW k \in Keys, NEW id \in Ids, ReadPair(w, k, id)
       PROVE  TypeOK'
  <2> DEFINE doc == NewPayment(k, Billing[k], 0, PeriodEnd[k])
  <2>1. Billing[k] \in Nat /\ PeriodEnd[k] \in Nat
    BY ConfiguredType
  <2>2. r.todo \ {k} \in SUBSET Keys
    BY <1>0, <1>10 DEF ReadPair, IsRequest
  <2>3. doc \in Doc /\ doc.state = "live" /\ doc.key = k
    BY <2>1, NewPaymentType
  <2>4. IsRequest(Insert(id, doc, r.todo \ {k}))
    <3> HIDE DEF doc, r
    <3> QED
      BY <2>2, <2>3, InsertType
  <2> QED
    BY <1>0, <1>1, <1>10, <2>4 DEF ReadPair
<1>11. ASSUME NEW id \in Ids, AgeOne(w, id)
       PROVE  TypeOK'
  <2> DEFINE rest == DOMAIN r.docs \ {id}
             left == [i \in rest |-> r.docs[i]]
             patch == Listed(Recalculated(r.docs[id], now), AgedFields)
  <2>1. r.docs[id] \in Doc
    BY <1>0, <1>11 DEF AgeOne, IsRequest
  <2>2. IsPatch(patch)
    BY <2>1, RecalculatedType, ListedType DEF AgedFields, Fields
  <2>3. Live(id) => Merge(payments[id], patch) \in Doc
    BY <1>0, <2>2, MergeType
  <2>4. payments' \in [Ids -> Doc]
    BY <1>0, <1>11, <2>3, StoredType DEF AgeOne
  <2>5. IsRequest(IF rest = {} THEN Idle ELSE Age(left))
    BY <1>0, <1>11, IdleType, AgeType DEF AgeOne, IsRequest
  <2> QED
    BY <1>1, <1>11, <2>4, <2>5 DEF AgeOne
<1> QED
  BY <1>2, <1>3, <1>4, <1>5, <1>6, <1>7, <1>8, <1>9, <1>10, <1>11
     DEF Commit, Job

\* Every document, every patch and every snapshot that a request carries across
\* a database call is well typed in every reachable state.
THEOREM TypeCorrect == Spec => []TypeOK
<1>1. Init => TypeOK
  <2> SUFFICES ASSUME Init PROVE TypeOK
    OBVIOUS
  <2>1. payments \in [Ids -> Doc]
    BY GoneType DEF Init, Unused
  <2> QED
    BY <2>1, IdleType DEF Init, TypeOK
<1>2. TypeOK /\ [Next]_vars => TypeOK'
  <2>1. CASE UNCHANGED vars
    BY <2>1 DEF vars, TypeOK, IsRequest, IsPatch, Doc, Fields
  <2>2. CASE Tick
    BY <2>2 DEF Tick, TypeOK, IsRequest, IsPatch, Doc, Fields
  <2> QED
    BY <2>1, <2>2, StepType DEF Next
<1> QED
  BY <1>1, <1>2, PTL DEF Spec

-----------------------------------------------------------------------------
(* Credits and history *)

\* A step of worker w that leaves the collection alone keeps the invariant if
\* the request it goes on with is backed.
LEMMA QuietMoney ==
  ASSUME TypeOK, MoneyInv, NEW w \in Workers, NEW r, Goto(w, r),
         payments' = payments,
         r.op = "write" => SaveInFlight(r),
         r.op = "insert" => /\ InsertInFlight(r)
                            /\ \A v \in Workers \ {w} :
                                 request[v].op = "insert" => request[v].id # r.id
  PROVE  MoneyInv'
<1>1. \A v \in Workers : request'[v] = IF v = w THEN r ELSE request[v]
  BY DEF Goto, TypeOK
<1>2. CreditBackedByLedger' /\ OnePaymentPerPeriod'
  BY DEF MoneyInv, CreditBackedByLedger, OnePaymentPerPeriod, LiveIds, Live
<1>3. ASSUME NEW v \in Workers
      PROVE  /\ request'[v].op = "write" => SaveInFlight(request[v])'
             /\ request'[v].op = "insert" => InsertInFlight(request[v])'
  BY <1>1 DEF MoneyInv, SaveInFlight, InsertInFlight, Live
<1>4. ASSUME NEW u \in Workers, NEW v \in Workers,
             request'[u].op = "insert", request'[v].op = "insert",
             request'[u].id = request'[v].id
      PROVE  u = v
  BY <1>1, <1>4 DEF MoneyInv
<1> QED
  BY <1>2, <1>3, <1>4 DEF MoneyInv

\* The requests of the others stay backed when one document changes: the
\* history never shrinks while it is live, and only the owner of an _id turns
\* it from unused to live.
LEMMA OthersBacked ==
  ASSUME TypeOK, MoneyInv, NEW v \in Workers, request'[v] = request[v],
         payments' \in [Ids -> Doc], NEW i \in Ids,
         \A id \in Ids \ {i} : payments'[id] = payments[id],
         \/ payments'[i] = payments[i]
         \/ /\ Live(i)
            /\ payments'[i].state # "unused"
            /\ payments'[i].state = "live" =>
                 payments[i].ledger <= payments'[i].ledger
         \/ /\ payments[i].state = "unused"
            /\ request[v].op = "insert" => request[v].id # i
  PROVE  /\ request'[v].op = "write" => SaveInFlight(request[v])'
         /\ request'[v].op = "insert" => InsertInFlight(request[v])'
<1> DEFINE r == request[v]
<1>0. IsRequest(r) /\ payments \in [Ids -> Doc]
  BY DEF TypeOK
<1>1. ASSUME r.op = "write" PROVE SaveInFlight(request[v])'
  <2>1. r.id \in Ids /\ r.push \in Nat /\ SaveInFlight(r) /\ IsPatch(r.set)
    BY <1>0, <1>1 DEF IsRequest, MoneyInv
  <2>2. "paidAmount" \in DOMAIN r.set => r.set["paidAmount"] \in Nat
    BY <2>1 DEF IsPatch
  <2>3. payments[r.id].ledger \in Nat
    BY <1>0, <2>1 DEF Doc
  <2>4. CASE r.id # i
    BY <2>1, <2>4 DEF SaveInFlight, Live
  <2>5. CASE r.id = i /\ payments'[i] = payments[i]
    BY <2>1, <2>5 DEF SaveInFlight, Live
  <2>6. CASE /\ r.id = i /\ Live(i) /\ payments'[i].state # "unused"
             /\ payments'[i].state = "live" =>
                  payments[i].ledger <= payments'[i].ledger
    <3>1. CASE payments'[i].state = "live"
      <4>1. payments[i].ledger <= payments'[i].ledger
        BY <2>6, <3>1
      <4>2. payments'[i].ledger \in Nat
        BY DEF Doc
      <4>3. ASSUME NEW c \in Nat, NEW l \in Nat, NEW m \in Nat, NEW n \in Nat,
                   l <= m, c <= l + n
            PROVE  c <= m + n
        BY <4>3
      <4>4. "paidAmount" \in DOMAIN r.set =>
              r.set["paidAmount"] <= payments'[i].ledger + r.push
        BY <2>1, <2>2, <2>3, <2>6, <4>1, <4>2, <4>3 DEF SaveInFlight, Live
      <4> QED
        BY <2>1, <2>6, <4>4 DEF SaveInFlight, Live
    <3>2. CASE payments'[i].state # "live"
      BY <2>1, <2>6, <3>2 DEF SaveInFlight, Live
    <3> QED
      BY <3>1, <3>2
  <2> QED
    BY <2>1, <2>4, <2>5, <2>6 DEF SaveInFlight
<1>2. ASSUME r.op = "insert" PROVE InsertInFlight(request[v])'
  <2>1. r.id \in Ids /\ InsertInFlight(r)
    BY <1>0, <1>2 DEF IsRequest, MoneyInv
  <2>2. payments'[r.id].state = "unused"
    BY <1>2, <2>1 DEF InsertInFlight, Live
  <2> QED
    BY <2>1, <2>2 DEF InsertInFlight
<1> QED
  BY <1>1, <1>2

\* When the owner of a request finishes it with a change to document i, all that
\* is left to show is about that document.
LEMMA CommittedMoney ==
  ASSUME TypeOK, MoneyInv, NEW w \in Workers, NEW r, Goto(w, r),
         r.op \notin {"write", "insert"},
         payments' \in [Ids -> Doc], NEW i \in Ids,
         \A id \in Ids \ {i} : payments'[id] = payments[id],
         \/ payments'[i] = payments[i]
         \/ /\ Live(i)
            /\ payments'[i].state # "unused"
            /\ payments'[i].state = "live" =>
                 /\ payments[i].ledger <= payments'[i].ledger
                 /\ payments'[i].key = payments[i].key
                 /\ payments'[i].paidAmount <= payments'[i].ledger
         \/ /\ payments[i].state = "unused"
            /\ request[w].op = "insert" /\ request[w].id = i
            /\ payments'[i].paidAmount <= payments'[i].ledger
            /\ ~Existing(payments'[i].key)
  PROVE  MoneyInv'
<1>1. \A v \in Workers : request'[v] = IF v = w THEN r ELSE request[v]
  BY DEF Goto, TypeOK
<1>2. CreditBackedByLedger'
  BY DEF MoneyInv, CreditBackedByLedger, LiveIds, Live
<1>3. OnePaymentPerPeriod'
  BY DEF MoneyInv, OnePaymentPerPeriod, LiveIds, Live, Existing
<1>4. ASSUME NEW v \in Workers
      PROVE  /\ request'[v].op = "write" => SaveInFlight(request[v])'
             /\ request'[v].op = "insert" => InsertInFlight(request[v])'
  <2>1. CASE v = w
    BY <1>1, <2>1
  <2>2. CASE v # w
    <3>1. request'[v] = request[v]
      BY <1>1, <2>2
    <3>2. request[v].op = "insert" /\ request[w].op = "insert"
            => request[v].id # request[w].id
      BY <2>2 DEF MoneyInv
    <3> QED
      BY <3>1, <3>2, OthersBacked
  <2> QED
    BY <2>1, <2>2
<1>5. ASSUME NEW u \in Workers, NEW v \in Workers,
             request'[u].op = "insert", request'[v].op = "insert",
             request'[u].id = request'[v].id
      PROVE  u = v
  BY <1>1, <1>5 DEF MoneyInv
<1> QED
  BY <1>2, <1>3, <1>4, <1>5 DEF MoneyInv

\* What the write of a request does to the collection: nothing, a change that
\* leaves the money alone, or a deposit whose credit the history backs.
LEMMA WriteEffect ==
  ASSUME TypeOK, MoneyInv, NEW w \in Workers, CommitWrite(w),
         NEW i, i = request[w].id
  PROVE  /\ i \in Ids
         /\ payments' \in [Ids -> Doc]
         /\ \A id \in Ids \ {i} : payments'[id] = payments[id]
         /\ \/ payments'[i] = payments[i]
            \/ /\ Live(i)
               /\ payments'[i].state = "live"
               /\ payments'[i].key = payments[i].key
               /\ payments'[i].entries = payments[i].entries
               /\ payments'[i].ledger = payments[i].ledger
               /\ payments'[i].paidAmount = payments[i].paidAmount
            \/ /\ Live(i)
               /\ payments'[i].state = "live"
               /\ payments'[i].key = payments[i].key
               /\ payments'[i].entries = payments[i].entries + 1
               /\ request[w].push \in Nat \ {0}
               /\ payments'[i].ledger = payments[i].ledger + request[w].push
               /\ request[w].push <= payments'[i].paidAmount
               /\ payments'[i].paidAmount <= payments'[i].ledger
<1> DEFINE r == request[w]
           p == payments[i]
           q == Merge(p, r.set)
<1>1. i \in Ids /\ IsPatch(r.set) /\ r.push \in Nat /\ SaveInFlight(r)
  BY DEF TypeOK, IsRequest, CommitWrite, MoneyInv
<1>2. p \in Doc /\ payments \in [Ids -> Doc]
  BY <1>1 DEF TypeOK
<1>3. /\ q \in Doc /\ q.state = p.state /\ q.key = p.key
      /\ q.entries = p.entries /\ q.ledger = p.ledger
      /\ q.paidAmount = IF "paidAmount" \in DOMAIN r.set
                        THEN r.set["paidAmount"] ELSE p.paidAmount
  <2> HIDE DEF p, r
  <2> QED
    BY <1>1, <1>2, MergeType DEF r
<1>4. /\ Pushed(q, r.push) \in Doc
      /\ Pushed(q, r.push).state = q.state /\ Pushed(q, r.push).key = q.key
      /\ Pushed(q, r.push).paidAmount = q.paidAmount
      /\ Pushed(q, r.push).ledger = q.ledger + r.push
      /\ Pushed(q, r.push).entries =
           IF r.push = 0 THEN q.entries ELSE q.entries + 1
  BY <1>1, <1>3, PushedType
<1>5. CASE ~Live(i)
  BY <1>1, <1>2, <1>5 DEF CommitWrite
<1>6. CASE Live(i)
  <2>1. payments' = [payments EXCEPT ![i] = Pushed(q, r.push)]
    BY <1>6 DEF CommitWrite
  <2>2. payments' \in [Ids -> Doc] /\ payments'[i] = Pushed(q, r.push)
    <3> HIDE DEF q, r
    <3> QED
      BY <1>1, <1>2, <1>4, <2>1
  <2>3. \A id \in Ids \ {i} : payments'[id] = payments[id]
    BY <1>2, <2>1
  <2>4. p.ledger \in Nat /\ p.state = "live"
    BY <1>2, <1>6 DEF Doc, Live
  <2>5. CASE "paidAmount" \in DOMAIN r.set
    <3>1. /\ 0 < r.push /\ r.push <= r.set["paidAmount"]
          /\ r.set["paidAmount"] <= p.ledger + r.push
      BY <1>1, <1>6, <2>5 DEF SaveInFlight
    <3>2. r.push # 0
      BY <1>1, <3>1
    <3> HIDE DEF q, p, r
    <3> QED
      BY <1>1, <1>3, <1>4, <1>6, <2>2, <2>3, <2>4, <2>5, <3>1, <3>2 DEF p, r
  <2>6. CASE "paidAmount" \notin DOMAIN r.set
    <3>1. r.push = 0
      BY <1>1, <2>6 DEF SaveInFlight
    <3>2. p.ledger + r.push = p.ledger
      BY <2>4, <3>1
    <3> HIDE DEF q, p, r
    <3> QED
      BY <1>1, <1>3, <1>4, <1>6, <2>2, <2>3, <2>4, <2>6, <3>1, <3>2 DEF p, r
  <2> QED
    BY <2>5, <2>6
<1> QED
  BY <1>5, <1>6

\* A delete that finds its document leaves an empty, deleted one behind.
LEMMA DeleteEffect ==
  ASSUME TypeOK, NEW w \in Workers, CommitDelete(w), NEW i, i = request[w].id
  PROVE  /\ i \in Ids
         /\ payments' \in [Ids -> Doc]
         /\ \A id \in Ids \ {i} : payments'[id] = payments[id]
         /\ \/ payments'[i] = payments[i]
            \/ Live(i) /\ payments'[i] = Gone("deleted", payments[i].key)
<1>1. i \in Ids /\ payments \in [Ids -> Doc]
  BY DEF TypeOK, IsRequest, CommitDelete
<1>2. Gone("deleted", payments[i].key) \in Doc
  BY <1>1, GoneType DEF Doc
<1> QED
  BY <1>1, <1>2 DEF CommitDelete

\* An insert that the unique index lets through stores the document it holds
\* under an _id that was unused.
LEMMA InsertEffect ==
  ASSUME TypeOK, MoneyInv, NEW w \in Workers, CommitInsert(w),
         NEW i, i = request[w].id
  PROVE  /\ i \in Ids /\ request[w].op = "insert"
         /\ payments' \in [Ids -> Doc]
         /\ \A id \in Ids \ {i} : payments'[id] = payments[id]
         /\ \/ payments'[i] = payments[i]
            \/ /\ payments[i].state = "unused"
               /\ payments'[i].state = "live"
               /\ payments'[i].key \in Keys /\ ~Existing(payments'[i].key)
               /\ payments'[i].paidAmount \in Nat
               /\ payments'[i].ledger = payments'[i].paidAmount
               /\ payments'[i].entries =
                    IF payments'[i].paidAmount > 0 THEN 1 ELSE 0
<1>1. /\ i \in Ids /\ payments \in [Ids -> Doc]
      /\ request[w].doc \in Doc /\ request[w].doc.state = "live"
      /\ request[w].doc.key \in Keys
      /\ request[w].op = "insert" /\ InsertInFlight(request[w])
  BY DEF TypeOK, IsRequest, CommitInsert, MoneyInv
<1>2. CASE Existing(request[w].doc.key)
  BY <1>1, <1>2 DEF CommitInsert
<1>3. CASE ~Existing(request[w].doc.key)
  <2>1. payments' = [payments EXCEPT ![i] = request[w].doc]
    BY <1>3 DEF CommitInsert
  <2>2. payments'[i] = request[w].doc /\ payments' \in [Ids -> Doc]
        /\ \A id \in Ids \ {i} : payments'[id] = payments[id]
    BY <1>1, <2>1
  <2> QED
    BY <1>1, <1>3, <2>2 DEF InsertInFlight, Doc
<1> QED
  BY <1>2, <1>3

\* Aging, whatever old snapshot it works from, never touches the money.
LEMMA AgeEffect ==
  ASSUME TypeOK, NEW w \in Workers, NEW i \in Ids, AgeOne(w, i)
  PROVE  /\ payments' \in [Ids -> Doc]
         /\ \A id \in Ids \ {i} : payments'[id] = payments[id]
         /\ \/ payments'[i] = payments[i]
            \/ /\ Live(i)
               /\ payments'[i].state = "live"
               /\ payments'[i].key = payments[i].key
               /\ payments'[i].entries = payments[i].entries
               /\ payments'[i].ledger = payments[i].ledger
               /\ payments'[i].paidAmount = payments[i].paidAmount
<1> DEFINE new == Recalculated(request[w].docs[i], now)
           set == Listed(new, AgedFields)
<1>1. payments \in [Ids -> Doc] /\ payments[i] \in Doc
      /\ request[w].docs[i] \in Doc
  BY DEF TypeOK, IsRequest, AgeOne
<1>2. IsPatch(set) /\ "paidAmount" \notin DOMAIN set
  BY <1>1, RecalculatedType, ListedType DEF AgedFields, Fields
<1>3. /\ Merge(payments[i], set) \in Doc
      /\ Merge(payments[i], set).state = payments[i].state
      /\ Merge(payments[i], set).key = payments[i].key
      /\ Merge(payments[i], set).entries = payments[i].entries
      /\ Merge(payments[i], set).ledger = payments[i].ledger
      /\ Merge(payments[i], set).paidAmount = payments[i].paidAmount
  <2> HIDE DEF set
  <2> QED
    BY <1>1, <1>2, MergeType
<1>4. \/ payments' = payments
      \/ Live(i) /\ payments' = [payments EXCEPT ![i] = Merge(payments[i], set)]
  BY DEF AgeOne
<1> HIDE DEF set
<1> QED
  BY <1>1, <1>3, <1>4 DEF Live

\* A save that was computed from a live document without changing what it was
\* paid pushes nothing, so it is backed.
LEMMA QuietSave ==
  ASSUME TypeOK, NEW id \in Ids, Live(id), NEW q \in Doc,
         q.paidAmount = payments[id].paidAmount
  PROVE  SaveInFlight(Write(id, Delta(payments[id], q), 0))
<1>1. payments[id] \in Doc
  BY DEF TypeOK
<1>2. "paidAmount" \notin DOMAIN Delta(payments[id], q)
  BY <1>1, DeltaType
<1> QED
  BY <1>2 DEF SaveInFlight, Write, Live

\* A request that holds neither a save nor an insert needs no backing.
LEMMA PlainRequests ==
  ASSUME NEW S, NEW id
  PROVE  /\ Idle.op \notin {"write", "insert"}
         /\ Generate(S).op \notin {"write", "insert"}
         /\ Age(S).op \notin {"write", "insert"}
         /\ Remove(id).op \notin {"write", "insert"}
BY DEF Idle, Generate, Age, Remove

\* The insert of a fresh _id with a new payment is backed.
LEMMA FreshInsert ==
  ASSUME TypeOK, MoneyInv, NEW w \in Workers, NEW id \in Ids, Fresh(id),
         NEW k \in Keys, NEW e \in Nat, NEW a \in Nat, NEW d \in Nat,
         NEW S \in SUBSET Keys, Goto(w, Insert(id, NewPayment(k, e, a, d), S)),
         payments' = payments
  PROVE  MoneyInv'
<1> DEFINE doc == NewPayment(k, e, a, d)
           r == Insert(id, doc, S)
<1>1. doc.paidAmount = a /\ doc.ledger = a /\ doc.entries = IF a > 0 THEN 1 ELSE 0
  BY NewPaymentType
<1>2. r.op = "insert" /\ r.id = id /\ r.doc = doc
  BY DEF Insert
<1>3. InsertInFlight(r)
  <2> HIDE DEF doc, r
  <2> QED
    BY <1>1, <1>2 DEF InsertInFlight, Fresh
<1>4. \A v \in Workers \ {w} : request[v].op = "insert" => request[v].id # r.id
  BY <1>2 DEF Fresh
<1> QED
  <2>1. Goto(w, r)
    OBVIOUS
  <2> HIDE DEF r
  <2> QED
    BY <1>2, <1>3, <1>4, <2>1, QuietMoney

\* Every handler that reads a document computes a save that is backed.
LEMMA ReadMoney ==
  ASSUME TypeOK, MoneyInv, NEW w \in Workers, Read(w)
  PROVE  MoneyInv'
<1>0. \A id \in Ids : payments[id] \in Doc
  BY DEF TypeOK
<1>a. ASSUME NEW id, NEW g, NEW n, SaveInFlight(Write(id, g, n)),
             Goto(w, Write(id, g, n)), payments' = payments
      PROVE  MoneyInv'
  <2> DEFINE r == Write(id, g, n)
  <2>1. r.op = "write"
    BY DEF Write
  <2>2. SaveInFlight(r) /\ Goto(w, r)
    BY <1>a
  <2> HIDE DEF r
  <2> QED
    BY <1>a, <2>1, <2>2, QuietMoney
<1>1. ASSUME NEW id \in Ids, NEW k \in Keys, NEW e \in Prices,
             NEW a \in Deposits \cup {0}, NEW d \in Times,
             ReadCreate(w, id, k, e, a, d)
      PROVE  MoneyInv'
  <2>1. e \in Nat /\ a \in Nat /\ d \in Nat
    BY DepositsAssumption, PricesAssumption, TimesAssumption
  <2> QED
    BY <1>1, <2>1, FreshInsert DEF ReadCreate
<1>2. ASSUME NEW id \in Ids, NEW a \in Deposits, ReadAddPayment(w, id, a)
      PROVE  MoneyInv'
  <2> DEFINE p == payments[id]
             base == IF p.isFrozen THEN Thawed(p) ELSE p
             paid == [base EXCEPT !.paidAmount = @ + a]
             new == Recalculated(paid, now)
             g == Delta(p, new)
  <2>1. Live(id) /\ Goto(w, Write(id, g, a)) /\ payments' = payments
    BY <1>2 DEF ReadAddPayment, Loads
  <2>2. /\ p \in Doc /\ p.paidAmount \in Nat /\ p.ledger \in Nat
        /\ a \in Nat /\ 0 < a /\ p.paidAmount <= p.ledger
    BY <1>0, <2>1, DepositsAssumption DEF Doc, MoneyInv, CreditBackedByLedger, LiveIds
  <2>3. base \in Doc /\ base.paidAmount = p.paidAmount
    BY <1>0 DEF Thawed, Doc
  <2>4. paid \in Doc /\ paid.paidAmount = p.paidAmount + a
    <3> HIDE DEF base, p
    <3> QED
      BY <2>2, <2>3 DEF Doc
  <2>5. new \in Doc /\ new.paidAmount = p.paidAmount + a
    BY <2>4, RecalculatedType
  <2>6. "paidAmount" \in DOMAIN g /\ g["paidAmount"] = p.paidAmount + a
    <3> HIDE DEF new, p
    <3> QED
      BY <2>2, <2>5, DeltaType
  <2>7. a <= p.paidAmount + a /\ p.paidAmount + a <= p.ledger + a
    <3> HIDE DEF p
    <3> QED
      BY <2>2
  <2>8. SaveInFlight(Write(id, g, a))
    <3> HIDE DEF g
    <3> QED
      BY <2>1, <2>2, <2>6, <2>7 DEF SaveInFlight, Write, Live
  <2> HIDE DEF g
  <2> QED
    BY <1>a, <2>1, <2>8
<1>3. ASSUME NEW id \in Ids, NEW t \in Times \cup {None}, ReadFreeze(w, id, t)
      PROVE  MoneyInv'
  <2> DEFINE new == [payments[id] EXCEPT !.isFrozen = TRUE, !.freezeTo = t,
                                         !.status = "frozen"]
  <2>1. new \in Doc /\ new.paidAmount = payments[id].paidAmount
    BY <1>0, TimesAssumption DEF Doc, Statuses
  <2>2. SaveInFlight(Write(id, Delta(payments[id], new), 0))
    BY <1>3, <2>1, QuietSave DEF ReadFreeze, Loads
  <2> QED
    BY <1>3, <1>a, <2>2 DEF ReadFreeze, Loads
<1>4. ASSUME NEW id \in Ids, ReadUnfreeze(w, id)
      PROVE  MoneyInv'
  <2> DEFINE new == Recalculated(Thawed(payments[id]), now)
  <2>1. /\ Thawed(payments[id]) \in Doc
        /\ Thawed(payments[id]).paidAmount = payments[id].paidAmount
    BY <1>0 DEF Thawed, Doc
  <2>2. new \in Doc /\ new.paidAmount = payments[id].paidAmount
    BY <2>1, RecalculatedType
  <2>3. SaveInFlight(Write(id, Delta(payments[id], new), 0))
    BY <1>4, <2>2, QuietSave DEF ReadUnfreeze, Loads
  <2> QED
    BY <1>4, <1>a, <2>3 DEF ReadUnfreeze, Loads
<1>5. ASSUME NEW id \in Ids, NEW e \in Prices, NEW d \in Times,
             ReadUpdate(w, id, e, d)
      PROVE  MoneyInv'
  <2> DEFINE terms == [payments[id] EXCEPT !.expectedAmount = e, !.dueDate = d]
             g == Listed(Recalculated(terms, now), UpdatedFields)
  <2>1. terms \in Doc
    BY <1>0, PricesAssumption, TimesAssumption DEF Doc
  <2>2. "paidAmount" \notin DOMAIN g
    BY <2>1, RecalculatedType, ListedType DEF Fields, UpdatedFields
  <2>3. Live(id) /\ payments' = payments /\ Goto(w, Write(id, g, 0))
    BY <1>5 DEF ReadUpdate, Loads
  <2> HIDE DEF g
  <2>4. SaveInFlight(Write(id, g, 0))
    BY <2>2, <2>3 DEF SaveInFlight, Write, Live
  <2> QED
    BY <1>a, <2>3, <2>4
<1>6. ASSUME NEW id \in Ids, ReadDelete(w, id)
      PROVE  MoneyInv'
  BY <1>6, PlainRequests, QuietMoney DEF ReadDelete, Loads
<1> QED
  BY <1>1, <1>2, <1>3, <1>4, <1>5, <1>6 DEF Read

\* So do the steps of the jobs and the database calls.
LEMMA StepMoney ==
  ASSUME TypeOK, MoneyInv, NEW w \in Workers,
         \/ Read(w) \/ Commit(w) \/ Abort(w)
         \/ StartGeneration(w) \/ StartAging(w) \/ Job(w)
  PROVE  MoneyInv'
<1> DEFINE i == request[w].id
<1>1. CASE Read(w)
  BY <1>1, ReadMoney
<1>2. CASE CommitWrite(w)
  <2>1. Goto(w, Idle)
    BY <1>2 DEF CommitWrite
  <2>2. Live(i) => /\ payments[i].ledger \in Nat
                   /\ payments[i].paidAmount <= payments[i].ledger
    BY <1>2, WriteEffect DEF MoneyInv, CreditBackedByLedger, LiveIds, TypeOK, Doc
  <2>3. payments'[i].ledger = payments[i].ledger + request[w].push
        /\ request[w].push \in Nat /\ payments[i].ledger \in Nat
          => payments[i].ledger <= payments'[i].ledger
    OBVIOUS
  <2>4. Live(i) => payments[i].ledger \in Nat
    BY <2>2
  <2> QED
    BY <1>2, <2>1, <2>2, <2>3, <2>4, PlainRequests, WriteEffect, CommittedMoney
<1>3. CASE CommitDelete(w)
  <2>1. Goto(w, Idle)
    BY <1>3 DEF CommitDelete
  <2>2. Gone("deleted", payments[i].key).state = "deleted"
    BY DEF Gone
  <2> QED
    BY <1>3, <2>1, <2>2, PlainRequests, DeleteEffect, CommittedMoney
<1>4. CASE CommitInsert(w)
  <2> DEFINE r == IF request[w].todo = {} THEN Idle ELSE Generate(request[w].todo)
  <2>1. Goto(w, r)
    BY <1>4 DEF CommitInsert
  <2>2. r.op \notin {"write", "insert"}
    BY PlainRequests
  <2> HIDE DEF r
  <2> QED
    BY <1>4, <2>1, <2>2, InsertEffect, CommittedMoney
<1>5. CASE Abort(w)
  BY <1>5, PlainRequests, QuietMoney DEF Abort
<1>6. CASE StartGeneration(w)
  BY <1>6, PlainRequests, QuietMoney DEF StartGeneration
<1>7. CASE StartAging(w)
  BY <1>7, PlainRequests, QuietMoney DEF StartAging
<1>8. ASSUME NEW k \in Keys, SkipPair(w, k)
      PROVE  MoneyInv'
  <2> DEFINE left == request[w].todo \ {k}
             r == IF request[w].todo = {k} THEN Idle ELSE Generate(left)
  <2>1. Goto(w, r) /\ payments' = payments
    BY <1>8 DEF SkipPair
  <2>2. r.op \notin {"write", "insert"}
    BY PlainRequests
  <2> HIDE DEF r
  <2> QED
    BY <2>1, <2>2, QuietMoney
<1>9. ASSUME NEW k \in Keys, NEW id \in Ids, ReadPair(w, k, id)
      PROVE  MoneyInv'
  <2>1. Billing[k] \in Nat /\ PeriodEnd[k] \in Nat
    BY ConfiguredType
  <2>2. request[w].todo \ {k} \in SUBSET Keys
    BY <1>9 DEF ReadPair, TypeOK, IsRequest
  <2> QED
    BY <1>9, <2>1, <2>2, FreshInsert DEF ReadPair
<1>10. ASSUME NEW id \in Ids, AgeOne(w, id)
       PROVE  MoneyInv'
  <2> DEFINE rest == DOMAIN request[w].docs \ {id}
             left == Age([j \in rest |-> request[w].docs[j]])
             r == IF rest = {} THEN Idle ELSE left
  <2>1. Goto(w, r)
    BY <1>10 DEF AgeOne
  <2>2. r.op \notin {"write", "insert"}
    BY PlainRequests
  <2>3. Live(id) => /\ payments[id].ledger \in Nat
                    /\ payments[id].paidAmount <= payments[id].ledger
                    /\ payments[id].ledger <= payments[id].ledger
    <3>1. payments[id].ledger \in Nat
      BY DEF TypeOK, Doc
    <3>2. payments[id].ledger <= payments[id].ledger
      BY <3>1
    <3> QED
      BY <3>1, <3>2 DEF MoneyInv, CreditBackedByLedger, LiveIds
  <2> HIDE DEF r
  <2> QED
    BY <1>10, <2>1, <2>2, <2>3, AgeEffect, CommittedMoney
<1> QED
  BY <1>1, <1>2, <1>3, <1>4, <1>5, <1>6, <1>7, <1>8, <1>9, <1>10
     DEF Commit, Job

\* In every reachable state, for any number of requests in flight, no payment is
\* credited with more than its history records and no two payments share a
\* student, course and month.
THEOREM MoneySafe == Spec => []MoneyInv
<1>1. Init => MoneyInv
  BY DEF Init, MoneyInv, CreditBackedByLedger, OnePaymentPerPeriod, LiveIds,
         Live, Unused, Gone, Idle
<1>2. TypeOK /\ MoneyInv /\ [Next]_vars => MoneyInv'
  <2>1. CASE UNCHANGED vars
    BY <2>1 DEF vars, MoneyInv, CreditBackedByLedger, OnePaymentPerPeriod,
                LiveIds, Live, SaveInFlight, InsertInFlight
  <2>2. CASE Tick
    BY <2>2 DEF Tick, MoneyInv, CreditBackedByLedger, OnePaymentPerPeriod,
                LiveIds, Live, SaveInFlight, InsertInFlight
  <2> QED
    BY <2>1, <2>2, StepMoney DEF Next
<1> QED
  BY <1>1, <1>2, TypeCorrect, PTL DEF Spec

\* An overlap of deposits can lose a credit but never invent one.
THEOREM CreditsAreBacked == Spec => []CreditBackedByLedger
<1>1. MoneyInv => CreditBackedByLedger
  BY DEF MoneyInv
<1> QED
  BY <1>1, MoneySafe, PTL

\* The month's payment of a student for a course is never there twice.
THEOREM PeriodsAreUnique == Spec => []OnePaymentPerPeriod
<1>1. MoneyInv => OnePaymentPerPeriod
  BY DEF MoneyInv
<1> QED
  BY <1>1, MoneySafe, PTL

-----------------------------------------------------------------------------
(* Refinement *)

\* The account of a document in the abstract ledger.
Account(p) ==
  [state |-> p.state, key |-> p.key, paidAmount |-> p.paidAmount,
   entries |-> p.entries, ledger |-> p.ledger]

Accounts == [id \in Ids |-> Account(payments[id])]

\* Writes are deposits or stutters.
LEMMA WriteRefines ==
  ASSUME TypeOK, MoneyInv, NEW w \in Workers, CommitWrite(w),
         NEW i, i = request[w].id
  PROVE  Ledger!Next \/ Accounts' = Accounts
<1> DEFINE n == request[w].push
           c == payments'[i].paidAmount
<1>1. i \in Ids /\ \A id \in Ids \ {i} : payments'[id] = payments[id]
  BY WriteEffect
<1>2. CASE \/ payments'[i] = payments[i]
           \/ /\ payments'[i].state = payments[i].state
              /\ payments'[i].key = payments[i].key
              /\ payments'[i].entries = payments[i].entries
              /\ payments'[i].ledger = payments[i].ledger
              /\ payments'[i].paidAmount = payments[i].paidAmount
  BY <1>1, <1>2 DEF Accounts, Account
<1>3. CASE /\ payments[i].state = "live" /\ payments'[i].state = "live"
           /\ payments'[i].key = payments[i].key
           /\ payments'[i].entries = payments[i].entries + 1
           /\ n \in Nat \ {0} /\ payments'[i].ledger = payments[i].ledger + n
           /\ n <= c /\ c <= payments'[i].ledger
  <2>1. payments[i].ledger \in Nat /\ n > 0
    BY <1>1, <1>3 DEF TypeOK, Doc
  <2>2. payments'[i].ledger - payments[i].ledger = n
    BY <1>3, <2>1
  <2>3. Accounts' = [Accounts EXCEPT ![i] =
          [state |-> "live", key |-> payments[i].key, paidAmount |-> c,
           entries |-> payments[i].entries + 1,
           ledger |-> payments[i].ledger + n]]
    BY <1>1, <1>3 DEF Accounts, Account
  <2>4. Ledger!Deposit(i)
    <3>1. Accounts'[i].ledger - Accounts[i].ledger = n /\ Accounts'[i].paidAmount = c
      BY <1>1, <2>2 DEF Accounts, Account
    <3>2. /\ Accounts[i].state = "live" /\ n <= c
          /\ c <= Accounts[i].ledger + n /\ Accounts[i].key = payments[i].key
          /\ Accounts[i].entries = payments[i].entries
          /\ Accounts[i].ledger = payments[i].ledger
      BY <1>1, <1>3 DEF Accounts, Account
    <3> QED
      BY <2>1, <2>3, <3>1, <3>2 DEF Ledger!Deposit, Accounts, Account
  <2> QED
    BY <1>1, <2>4 DEF Ledger!Next
<1> QED
  BY <1>2, <1>3, WriteEffect DEF Live

\* Deletes are closings or stutters.
LEMMA DeleteRefines ==
  ASSUME TypeOK, NEW w \in Workers, CommitDelete(w), NEW i, i = request[w].id
  PROVE  Ledger!Next \/ Accounts' = Accounts
<1>1. i \in Ids /\ \A id \in Ids \ {i} : payments'[id] = payments[id]
  BY DeleteEffect
<1>2. CASE payments'[i] = payments[i]
  BY <1>1, <1>2 DEF Accounts, Account
<1>3. CASE Live(i) /\ payments'[i] = Gone("deleted", payments[i].key)
  <2>1. Accounts' = [Accounts EXCEPT ![i] =
          [state |-> "deleted", key |-> payments[i].key, paidAmount |-> 0,
           entries |-> 0, ledger |-> 0]]
    <3>1. Account(payments'[i]) =
            [state |-> "deleted", key |-> payments[i].key, paidAmount |-> 0,
             entries |-> 0, ledger |-> 0]
      BY <1>3 DEF Account, Gone
    <3> QED
      BY <1>1, <3>1 DEF Accounts
  <2>2. Accounts[i].state = "live" /\ Accounts[i].key = payments[i].key
    BY <1>1, <1>3 DEF Accounts, Account, Live
  <2>3. Ledger!Close(i)
    BY <2>1, <2>2 DEF Ledger!Close, Ledger!Blank, Accounts, Account
  <2> QED
    BY <1>1, <2>3 DEF Ledger!Next
<1> QED
  BY <1>2, <1>3, DeleteEffect

\* Inserts open an account or are stutters.
LEMMA InsertRefines ==
  ASSUME TypeOK, MoneyInv, NEW w \in Workers, CommitInsert(w),
         NEW i, i = request[w].id
  PROVE  Ledger!Next \/ Accounts' = Accounts
<1>1. i \in Ids /\ \A id \in Ids \ {i} : payments'[id] = payments[id]
  BY InsertEffect
<1>2. CASE payments'[i] = payments[i]
  BY <1>1, <1>2 DEF Accounts, Account
<1>3. ASSUME NEW k \in Keys, k = payments'[i].key, NEW a \in Nat,
             a = payments'[i].paidAmount,
             payments[i].state = "unused", payments'[i].state = "live",
             ~Existing(k), payments'[i].ledger = a,
             payments'[i].entries = IF a > 0 THEN 1 ELSE 0
      PROVE  Ledger!Next
  <2>1. Accounts' = [Accounts EXCEPT ![i] =
          [state |-> "live", key |-> k, paidAmount |-> a,
           entries |-> IF a > 0 THEN 1 ELSE 0, ledger |-> a]]
    BY <1>1, <1>3 DEF Accounts, Account
  <2>2. Accounts[i].state = "unused" /\ Accounts'[i].paidAmount = a
    BY <1>1, <1>3 DEF Accounts, Account
  <2>3. \A other \in Ids : Accounts[other].state = "live" => Accounts[other].key # k
    BY <1>3 DEF Accounts, Account, Existing, LiveIds, Live
  <2>4. Ledger!Open(i, k)
    BY <2>1, <2>2, <2>3 DEF Ledger!Open, Accounts, Account
  <2> QED
    BY <1>1, <2>4 DEF Ledger!Next
<1> QED
  BY <1>2, <1>3, InsertEffect

\* Aging is a stutter.
LEMMA AgeRefines ==
  ASSUME TypeOK, NEW w \in Workers, NEW i \in Ids, AgeOne(w, i)
  PROVE  Accounts' = Accounts
<1>1. \A id \in Ids : Account(payments'[id]) = Account(payments[id])
  BY AgeEffect DEF Account, Live
<1> QED
  BY <1>1 DEF Accounts

\* The collection implements the abstract ledger: whatever the requests and the
\* jobs do at the same time, history is only appended to, a credit comes with an
\* entry that backs it, and a deleted payment stays deleted.
THEOREM Implements == Spec => ImplementsLedger
<1>1. Init => Ledger!Init
  BY DEF Init, Ledger!Init, Ledger!Blank, Unused, Gone
<1>2. TypeOK /\ MoneyInv /\ [Next]_vars => Ledger!Next \/ Accounts' = Accounts
  <2> SUFFICES ASSUME TypeOK, MoneyInv, [Next]_vars, payments' # payments
               PROVE  Ledger!Next \/ Accounts' = Accounts
    BY DEF Accounts
  <2>1. PICK w \in Workers : Commit(w) \/ \E id \in Ids : AgeOne(w, id)
    BY DEF vars, Next, Read, ReadCreate, ReadAddPayment, ReadFreeze,
           ReadUnfreeze, ReadUpdate, ReadDelete, Loads, Abort, StartGeneration,
           StartAging, Job, SkipPair, ReadPair, Tick
  <2> QED
    BY <2>1, WriteRefines, DeleteRefines, InsertRefines, AgeRefines DEF Commit
<1>3. Ledger!Next \/ Accounts' = Accounts => [Ledger!Next]_(Accounts)
  OBVIOUS
<1> QED
  BY <1>1, <1>2, <1>3, TypeCorrect, MoneySafe, PTL
     DEF Spec, ImplementsLedger, Ledger!Spec, Accounts, Account

-----------------------------------------------------------------------------
(* While requests do not overlap: patches done to what was read *)

\* Done to the document it was computed from, a save gives the edited one.
LEMMA MergeDelta ==
  ASSUME NEW p \in Doc, NEW q \in Doc, p.state = q.state, p.key = q.key,
         p.entries = q.entries, p.ledger = q.ledger
  PROVE  Merge(p, Delta(p, q)) = q
<1>1. DOMAIN p = Fields \cup {"state", "key", "entries", "ledger"}
      /\ DOMAIN q = DOMAIN p
  BY DEF Doc, Fields
<1>2. q = [f \in DOMAIN p |-> q[f]]
  BY <1>1 DEF Doc
<1> QED
  BY <1>1, <1>2 DEF Merge, Delta, Fields

\* So does a findByIdAndUpdate that lists every field that differs.
LEMMA MergeListed ==
  ASSUME NEW p \in Doc, NEW q \in Doc, NEW S \in SUBSET Fields,
         \A f \in DOMAIN p \ S : p[f] = q[f]
  PROVE  Merge(p, Listed(q, S)) = q
<1>1. DOMAIN p = Fields \cup {"state", "key", "entries", "ledger"}
      /\ DOMAIN q = DOMAIN p
  BY DEF Doc, Fields
<1>2. q = [f \in DOMAIN p |-> q[f]]
  BY <1>1 DEF Doc
<1> QED
  BY <1>1, <1>2 DEF Merge, Listed, Fields

\* The lifecycle reads four fields.
LEMMA LifecycleReads ==
  ASSUME NEW p, NEW q, NEW t, p.isFrozen = q.isFrozen, p.dueDate = q.dueDate,
         p.paidAmount = q.paidAmount, p.expectedAmount = q.expectedAmount
  PROVE  LifecycleStatus(p, t) = LifecycleStatus(q, t)
BY DEF LifecycleStatus

\* applyLifecycle writes three fields.
LEMMA RecalculatedFields ==
  ASSUME NEW p \in Doc, NEW t
  PROVE  LET q == Recalculated(p, t) IN
         /\ q.remainingAmount = Excess(p.expectedAmount, p.paidAmount)
         /\ q.overpaidAmount = Excess(p.paidAmount, p.expectedAmount)
         /\ q.status = LifecycleStatus(p, t)
         /\ \A f \in DOMAIN p \ {"remainingAmount", "overpaidAmount", "status"} :
              q[f] = p[f]
BY DEF Recalculated, Doc

\* A push changes the history only.
LEMMA PushedKeeps ==
  ASSUME NEW p \in Doc, NEW a \in Nat
  PROVE  \A f \in DOMAIN p \ {"entries", "ledger"} : Pushed(p, a)[f] = p[f]
<1>1. CASE a = 0
  BY <1>1 DEF Pushed
<1>2. CASE a # 0
  <2> DEFINE one == [p EXCEPT !.entries = @ + 1]
  <2>1. Pushed(p, a) = [one EXCEPT !.ledger = @ + a]
    BY <1>2 DEF Pushed
  <2>2. DOMAIN one = DOMAIN p /\ \A f \in DOMAIN p \ {"entries"} : one[f] = p[f]
    OBVIOUS
  <2>3. \A f \in DOMAIN one \ {"ledger"} : [one EXCEPT !.ledger = @ + a][f] = one[f]
    <3> HIDE DEF one
    <3> QED
      OBVIOUS
  <2> HIDE DEF one
  <2> QED
    BY <2>1, <2>2, <2>3
<1> QED
  BY <1>1, <1>2

\* A document that the lifecycle was applied to and whose history then grows by
\* what had been credited is right.
LEMMA RecalculatedIsRight ==
  ASSUME NEW p \in Doc, NEW t \in Nat, NEW a \in Nat, p.paidAmount = p.ledger + a
  PROVE  LET q == Pushed(Recalculated(p, t), a) IN
         /\ Balanced(q) /\ StatusFollows(q, t)
         /\ q.status = LifecycleStatus(p, t)
<1> DEFINE r == Recalculated(p, t)
           q == Pushed(r, a)
<1>1. r \in Doc
  BY RecalculatedType
<1>2. /\ r.remainingAmount = Excess(p.expectedAmount, p.paidAmount)
      /\ r.overpaidAmount = Excess(p.paidAmount, p.expectedAmount)
      /\ r.status = LifecycleStatus(p, t)
      /\ r.paidAmount = p.paidAmount /\ r.expectedAmount = p.expectedAmount
      /\ r.isFrozen = p.isFrozen /\ r.dueDate = p.dueDate /\ r.ledger = p.ledger
  <2>1. {"paidAmount", "expectedAmount", "isFrozen", "dueDate", "ledger"} \subseteq
          DOMAIN p \ {"remainingAmount", "overpaidAmount", "status"}
    BY DEF Doc
  <2> QED
    BY <2>1, RecalculatedFields
<1>3. /\ q.remainingAmount = r.remainingAmount /\ q.overpaidAmount = r.overpaidAmount
      /\ q.status = r.status /\ q.paidAmount = r.paidAmount
      /\ q.expectedAmount = r.expectedAmount /\ q.isFrozen = r.isFrozen
      /\ q.dueDate = r.dueDate /\ q.ledger = r.ledger + a
  <2>1. {"remainingAmount", "overpaidAmount", "status", "paidAmount",
         "expectedAmount", "isFrozen", "dueDate"}
          \subseteq DOMAIN r \ {"entries", "ledger"}
    BY <1>1 DEF Doc
  <2> HIDE DEF r
  <2>2. \A f \in DOMAIN r \ {"entries", "ledger"} : q[f] = r[f]
    BY <1>1, PushedKeeps
  <2>3. q.ledger = r.ledger + a
    BY <1>1, PushedType
  <2> HIDE DEF q
  <2> QED
    BY <2>1, <2>2, <2>3
<1> HIDE DEF q, r
<1>4. Balanced(q)
  BY <1>2, <1>3 DEF Balanced
<1>5. LifecycleStatus(q, t) = LifecycleStatus(p, t)
  BY <1>2, <1>3, LifecycleReads
<1>6. StatusFollows(q, t)
  BY <1>2, <1>3, <1>5 DEF StatusFollows
<1> QED
  BY <1>2, <1>3, <1>4, <1>6 DEF q, r

-----------------------------------------------------------------------------

\* One worker: requests and job runs do not overlap.
OneAtATime == \A v, w \in Workers : v = w

\* The step asks for nothing that was settled.
SettledStep ==
  \A id \in Ids : Live(id) /\ Live(id)' => StaysSettled(payments[id], payments'[id])

\* Between two right documents of one payment, the later with the longer history,
\* only a higher expected amount leaves more to pay.
LEMMA RightStaysSettled ==
  ASSUME NEW p \in Doc, NEW q \in Doc, NEW t \in Nat, NEW u \in Nat,
         Balanced(p), Balanced(q), StatusFollows(q, u),
         p.ledger <= q.ledger
  PROVE  StaysSettled(p, q)
<1> DEFINE e == p.expectedAmount
           l == p.ledger
           f == q.expectedAmount
           m == q.ledger
<1>1. e \in Nat /\ l \in Nat /\ f \in Nat /\ m \in Nat /\ l <= m
  BY DEF Doc
<1>2. p.remainingAmount = Excess(e, l) /\ q.remainingAmount = Excess(f, m)
  BY DEF Balanced
<1>3. q.paidAmount = m
  BY DEF Balanced
<1>4. PICK s : q.status = LifecycleStatus(q, s)
  BY DEF StatusFollows
<1>5. f <= m => q.status \in {"paid", "overpaid", "frozen"}
  <2>1. f <= m => m > f \/ m = f
    BY <1>1
  <2> QED
    BY <1>3, <1>4, <2>1 DEF LifecycleStatus
<1> HIDE DEF e, l, f, m
<1>6. f <= e => Excess(f, m) <= Excess(e, l)
  BY <1>1 DEF Excess
<1>7. f <= l => Excess(f, m) = 0 /\ f <= m
  BY <1>1 DEF Excess
<1> QED
  BY <1>2, <1>5, <1>6, <1>7 DEF StaysSettled, Settled, e, l, f

\* A step of the only request that leaves the collection alone.
LEMMA QuietSerial ==
  ASSUME TypeOK, SerialInv, OneAtATime,
         NEW w \in Workers, NEW r, Goto(w, r), RightRequest(r),
         UNCHANGED <<payments, now>>
  PROVE  SerialInv' /\ SettledStep
<1>1. \A v \in Workers : request'[v] = r
  BY DEF Goto, TypeOK, OneAtATime
<1>2. AmountsAgree' /\ StatusAgrees'
  BY DEF SerialInv, AmountsAgree, StatusAgrees, StatusFollows, Balanced, LiveIds, Live
<1>3. \A v \in Workers : RightRequest(request[v])'
  BY <1>1 DEF RightRequest, StatusFollows, Balanced, Written, Live
<1>4. SettledStep
  BY DEF SettledStep, StaysSettled, TypeOK, Doc
<1> QED
  BY <1>2, <1>3, <1>4 DEF SerialInv

\* A step of the only request that ends, or goes on with the next document, after
\* changing one document.
LEMMA CommittedSerial ==
  ASSUME TypeOK, SerialInv, OneAtATime, now' = now,
         NEW w \in Workers, NEW r, Goto(w, r), r.op \notin {"write", "insert"},
         r.op = "age" =>
           \A id \in DOMAIN r.docs : Live(id)' /\ r.docs[id] = payments'[id],
         NEW i \in Ids, \A id \in Ids \ {i} : payments'[id] = payments[id],
         Live(i)' => /\ Balanced(payments'[i]) /\ StatusFollows(payments'[i], now)
                     /\ payments'[i] \in Doc
                     /\ Live(i) => payments[i].ledger <= payments'[i].ledger
  PROVE  SerialInv' /\ SettledStep
<1>1. \A v \in Workers : request'[v] = r
  BY DEF Goto, TypeOK, OneAtATime
<1>2. AmountsAgree'
  BY DEF SerialInv, AmountsAgree, Balanced, LiveIds, Live
<1>3. StatusAgrees'
  BY DEF SerialInv, StatusAgrees, StatusFollows, LiveIds, Live
<1>4. \A v \in Workers : RightRequest(request[v])'
  BY <1>1 DEF RightRequest, Live
<1>5. ASSUME NEW id \in Ids, Live(id), Live(id)'
      PROVE  StaysSettled(payments[id], payments'[id])
  <2>1. payments[id] \in Doc /\ now \in Nat /\ payments[id].ledger <= payments[id].ledger
    BY DEF TypeOK, Doc
  <2>2. Balanced(payments[id]) /\ StatusFollows(payments[id], now)
    BY <1>5 DEF SerialInv, AmountsAgree, StatusAgrees, LiveIds
  <2>3. CASE id = i
    BY <1>5, <2>1, <2>2, <2>3, RightStaysSettled
  <2>4. CASE id # i
    <3>1. payments'[id] = payments[id]
      BY <2>4
    <3> QED
      BY <2>1, <2>2, <3>1, RightStaysSettled
  <2> QED
    BY <2>3, <2>4
<1>6. SettledStep
  BY <1>5 DEF SettledStep
<1> QED
  BY <1>2, <1>3, <1>4, <1>6 DEF SerialInv

\* A request that holds no document is right.
LEMMA PlainRight ==
  ASSUME NEW S, NEW id
  PROVE  RightRequest(Idle) /\ RightRequest(Generate(S)) /\ RightRequest(Remove(id))
BY DEF RightRequest, Idle, Generate, Remove

\* The save of a handler of a live document is right if the document it computed
\* is right once the history has grown.
LEMMA SaveIsRight ==
  ASSUME TypeOK, NEW id \in Ids, Live(id), NEW q \in Doc, NEW a \in Nat,
         q.state = payments[id].state, q.key = payments[id].key,
         q.entries = payments[id].entries, q.ledger = payments[id].ledger,
         Balanced(Pushed(q, a)), StatusFollows(Pushed(q, a), now)
  PROVE  RightRequest(Write(id, Delta(payments[id], q), a))
<1> DEFINE g == Delta(payments[id], q)
           r == Write(id, g, a)
<1>1. payments[id] \in Doc
  BY DEF TypeOK
<1>2. Merge(payments[id], g) = q
  BY <1>1, MergeDelta
<1>3. r.op = "write" /\ r.id = id /\ r.set = g /\ r.push = a
  BY DEF Write
<1> HIDE DEF g, r
<1>4. Written(r) = Pushed(q, a)
  BY <1>2, <1>3 DEF Written
<1>5. RightRequest(r)
  BY <1>3, <1>4 DEF RightRequest
<1> QED
  BY <1>5 DEF r, g

\* The document that create and the generation insert is right.
LEMMA NewPaymentIsRight ==
  ASSUME now \in Nat, NEW k \in Keys, NEW e \in Nat, NEW a \in Nat, NEW d \in Nat,
         NEW id, NEW S
  PROVE  RightRequest(Insert(id, NewPayment(k, e, a, d), S))
<1> DEFINE base == [state |-> "live", key |-> k, expectedAmount |-> e,
     paidAmount |-> a, remainingAmount |-> 0, overpaidAmount |-> 0,
     status |-> "pending", isFrozen |-> FALSE, freezeTo |-> None,
     dueDate |-> d, entries |-> IF a > 0 THEN 1 ELSE 0, ledger |-> a]
           doc == NewPayment(k, e, a, d)
           r == Insert(id, doc, S)
<1>1. base \in Doc /\ base.paidAmount = base.ledger + 0
  BY DEF Doc, Statuses
<1>2. doc = Recalculated(base, now)
  BY DEF NewPayment
<1>3. Pushed(Recalculated(base, now), 0) = Recalculated(base, now)
  BY DEF Pushed
<1> HIDE DEF base
<1>4. Balanced(Pushed(Recalculated(base, now), 0)) /\ StatusFollows(Pushed(Recalculated(base, now), 0), now)
  BY <1>1, RecalculatedIsRight
<1>5. r.op = "insert" /\ r.doc = doc
  BY DEF Insert
<1> HIDE DEF doc, r
<1>6. RightRequest(r)
  BY <1>2, <1>3, <1>4, <1>5 DEF RightRequest
<1> QED
  BY <1>6 DEF r, doc

\* A document that the lifecycle was applied to, and that kept its identity and
\* its history, is saved right.
LEMMA RecalculatedSave ==
  ASSUME TypeOK, AmountsAgree, NEW id \in Ids, Live(id), NEW x \in Doc, NEW a \in Nat,
         x.state = payments[id].state, x.key = payments[id].key,
         x.entries = payments[id].entries, x.ledger = payments[id].ledger,
         x.paidAmount = x.ledger + a
  PROVE  RightRequest(Write(id, Delta(payments[id], Recalculated(x, now)), a))
<1> DEFINE q == Recalculated(x, now)
<1>1. now \in Nat /\ q \in Doc
  BY RecalculatedType DEF TypeOK
<1>2. q.state = x.state /\ q.key = x.key /\ q.entries = x.entries /\ q.ledger = x.ledger
  <2>1. {"state", "key", "entries", "ledger"} \subseteq
          DOMAIN x \ {"remainingAmount", "overpaidAmount", "status"}
    BY DEF Doc
  <2> QED
    BY <2>1, RecalculatedFields
<1>3. Balanced(Pushed(q, a)) /\ StatusFollows(Pushed(q, a), now)
  BY <1>1, RecalculatedIsRight
<1> HIDE DEF q
<1>4. RightRequest(Write(id, Delta(payments[id], q), a))
  BY <1>1, <1>2, <1>3, SaveIsRight
<1> QED
  BY <1>4 DEF q

\* Every handler that reads a document computes a save that is right.
LEMMA ReadSerial ==
  ASSUME TypeOK, SerialInv, OneAtATime, NEW w \in Workers, Read(w)
  PROVE  SerialInv' /\ SettledStep
<1>0. /\ \A id \in Ids : payments[id] \in Doc
      /\ now \in Nat
  BY DEF TypeOK
<1>a. ASSUME NEW id, NEW g, NEW n, RightRequest(Write(id, g, n)),
             Goto(w, Write(id, g, n)), UNCHANGED <<payments, now>>
      PROVE  SerialInv' /\ SettledStep
  BY <1>a, QuietSerial
<1>b. \A id \in Ids : Live(id) =>
        /\ Balanced(payments[id]) /\ StatusFollows(payments[id], now)
        /\ payments[id].paidAmount = payments[id].ledger
        /\ payments[id].ledger \in Nat /\ payments[id].expectedAmount \in Nat
        /\ payments[id].paidAmount + 0 = payments[id].paidAmount
  BY <1>0 DEF SerialInv, AmountsAgree, StatusAgrees, LiveIds, Balanced, Doc
<1>1. ASSUME NEW id \in Ids, NEW k \in Keys, NEW e \in Prices,
             NEW a \in Deposits \cup {0}, NEW d \in Times,
             ReadCreate(w, id, k, e, a, d)
      PROVE  SerialInv' /\ SettledStep
  <2>1. e \in Nat /\ a \in Nat /\ d \in Nat
    BY DepositsAssumption, PricesAssumption, TimesAssumption
  <2>2. RightRequest(Insert(id, NewPayment(k, e, a, d), {}))
    BY <1>0, <2>1, NewPaymentIsRight
  <2> QED
    BY <1>1, <2>2, QuietSerial DEF ReadCreate
<1>2. ASSUME NEW id \in Ids, NEW a \in Deposits, ReadAddPayment(w, id, a)
      PROVE  SerialInv' /\ SettledStep
  <2> DEFINE p == payments[id]
             base == IF p.isFrozen THEN Thawed(p) ELSE p
             paid == [base EXCEPT !.paidAmount = @ + a]
             g == Delta(p, Recalculated(paid, now))
  <2>1. /\ Live(id) /\ Goto(w, Write(id, g, a)) /\ UNCHANGED <<payments, now>>
    BY <1>2 DEF ReadAddPayment, Loads
  <2>2. p \in Doc /\ a \in Nat /\ 0 < a
    BY <1>0, DepositsAssumption
  <2>3. /\ base \in Doc /\ base.paidAmount = p.paidAmount /\ base.ledger = p.ledger
        /\ base.state = p.state /\ base.key = p.key /\ base.entries = p.entries
        /\ base.expectedAmount = p.expectedAmount /\ ~base.isFrozen
    BY <2>2 DEF Thawed, Doc
  <2>4. /\ paid \in Doc /\ paid.paidAmount = p.paidAmount + a /\ paid.ledger = p.ledger
        /\ paid.state = p.state /\ paid.key = p.key /\ paid.entries = p.entries
        /\ paid.expectedAmount = p.expectedAmount /\ ~paid.isFrozen
    <3> HIDE DEF base, p
    <3> QED
      BY <2>2, <2>3 DEF Doc
  <2>5. paid.paidAmount = paid.ledger + a
    BY <1>b, <2>1, <2>4
  <2> HIDE DEF paid
  <2>6. RightRequest(Write(id, g, a))
    BY <2>1, <2>2, <2>4, <2>5, RecalculatedSave DEF SerialInv
  <2> HIDE DEF g
  <2> QED
    BY <1>a, <2>1, <2>6
<1>3. ASSUME NEW id \in Ids, NEW t \in Times \cup {None}, ReadFreeze(w, id, t)
      PROVE  SerialInv' /\ SettledStep
  <2> DEFINE p == payments[id]
             q == [p EXCEPT !.isFrozen = TRUE, !.freezeTo = t, !.status = "frozen"]
             g == Delta(p, q)
  <2>1. /\ Live(id) /\ Goto(w, Write(id, g, 0)) /\ UNCHANGED <<payments, now>>
    BY <1>3 DEF ReadFreeze, Loads
  <2>2. /\ q \in Doc /\ q.state = p.state /\ q.key = p.key /\ q.entries = p.entries
        /\ q.ledger = p.ledger /\ q.paidAmount = p.paidAmount
        /\ q.remainingAmount = p.remainingAmount /\ q.overpaidAmount = p.overpaidAmount
        /\ q.expectedAmount = p.expectedAmount /\ q.isFrozen /\ q.status = "frozen"
    BY <1>0, TimesAssumption DEF Doc, Statuses
  <2> HIDE DEF q
  <2>3. Balanced(q)
    BY <1>b, <2>1, <2>2 DEF Balanced
  <2>4. StatusFollows(q, now)
    BY <1>0, <2>2 DEF StatusFollows, LifecycleStatus
  <2>5. Pushed(q, 0) = q
    BY DEF Pushed
  <2>6. RightRequest(Write(id, g, 0))
    BY <2>1, <2>2, <2>3, <2>4, <2>5, SaveIsRight
  <2> HIDE DEF g
  <2> QED
    BY <1>a, <2>1, <2>6
<1>4. ASSUME NEW id \in Ids, ReadUnfreeze(w, id)
      PROVE  SerialInv' /\ SettledStep
  <2> DEFINE p == payments[id]
             x == Thawed(p)
             g == Delta(p, Recalculated(x, now))
  <2>1. /\ Live(id) /\ p.isFrozen
        /\ Goto(w, Write(id, g, 0)) /\ UNCHANGED <<payments, now>>
    BY <1>4 DEF ReadUnfreeze, Loads
  <2>2. /\ x \in Doc /\ x.state = p.state /\ x.key = p.key /\ x.entries = p.entries
        /\ x.ledger = p.ledger /\ x.paidAmount = p.paidAmount
    BY <1>0 DEF Thawed, Doc
  <2> HIDE DEF x
  <2>3. x.paidAmount = x.ledger + 0
    BY <1>b, <2>1, <2>2
  <2>4. RightRequest(Write(id, g, 0))
    BY <2>1, <2>2, <2>3, RecalculatedSave DEF SerialInv
  <2> HIDE DEF g
  <2> QED
    BY <1>a, <2>1, <2>4
<1>5. ASSUME NEW id \in Ids, NEW e \in Prices, NEW d \in Times,
             ReadUpdate(w, id, e, d)
      PROVE  SerialInv' /\ SettledStep
  <2> DEFINE p == payments[id]
             x == [p EXCEPT !.expectedAmount = e, !.dueDate = d]
             q == Recalculated(x, now)
             g == Listed(q, UpdatedFields)
             r == Write(id, g, 0)
  <2>1. /\ Live(id) /\ Goto(w, r) /\ UNCHANGED <<payments, now>>
    BY <1>5 DEF ReadUpdate, Loads
  <2>2. /\ x \in Doc /\ x.ledger = p.ledger /\ x.paidAmount = p.paidAmount
        /\ \A f \in DOMAIN p \ UpdatedFields : x[f] = p[f]
        /\ DOMAIN x = DOMAIN p
    BY <1>0, PricesAssumption, TimesAssumption DEF Doc, UpdatedFields
  <2> HIDE DEF x
  <2>3. q \in Doc /\ \A f \in DOMAIN p \ UpdatedFields : q[f] = p[f]
    BY <2>2, RecalculatedType, RecalculatedFields DEF UpdatedFields
  <2>4. x.paidAmount = x.ledger + 0
    BY <1>b, <2>1, <2>2
  <2>5. Pushed(q, 0) = q /\ Balanced(Pushed(q, 0)) /\ StatusFollows(Pushed(q, 0), now)
    BY <1>0, <2>2, <2>4, RecalculatedIsRight DEF Pushed
  <2> HIDE DEF q
  <2>6. Merge(p, g) = q
    BY <1>0, <2>3, MergeListed DEF UpdatedFields, Fields
  <2>7. r.op = "write" /\ r.id = id /\ r.set = g /\ r.push = 0
    BY DEF Write
  <2> HIDE DEF g, r
  <2>8. Written(r) = q
    BY <2>5, <2>6, <2>7 DEF Written
  <2>9. RightRequest(r)
    BY <2>1, <2>5, <2>7, <2>8 DEF RightRequest
  <2> QED
    BY <2>1, <2>9, QuietSerial
<1>6. ASSUME NEW id \in Ids, ReadDelete(w, id)
      PROVE  SerialInv' /\ SettledStep
  BY <1>6, PlainRight, QuietSerial DEF ReadDelete, Loads
<1> QED
  BY <1>1, <1>2, <1>3, <1>4, <1>5, <1>6 DEF Read

\* What a save gives is a document with no shorter a history.
LEMMA WrittenKeepsLedger ==
  ASSUME payments \in [Ids -> Doc], NEW r, r.id \in Ids, IsPatch(r.set), r.push \in Nat
  PROVE  Written(r) \in Doc /\ payments[r.id].ledger <= Written(r).ledger
<1> DEFINE p == payments[r.id]
           q == Merge(p, r.set)
<1>1. q \in Doc /\ q.ledger = p.ledger
  BY MergeType
<1>2. Written(r) = Pushed(q, r.push)
  BY DEF Written
<1> HIDE DEF q
<1>3. Pushed(q, r.push) \in Doc
  BY <1>1, PushedType
<1>4. q.ledger <= Pushed(q, r.push).ledger
  BY <1>1 DEF Pushed, Doc
<1> QED
  BY <1>1, <1>2, <1>3, <1>4

\* So do the steps of the jobs, and the database calls store what is right.
LEMMA StepSerial ==
  ASSUME TypeOK, MoneyInv, SerialInv, OneAtATime, NEW w \in Workers,
         \/ Read(w) \/ Commit(w) \/ Abort(w)
         \/ StartGeneration(w) \/ StartAging(w) \/ Job(w)
  PROVE  SerialInv' /\ SettledStep
<1>0. /\ IsRequest(request[w]) /\ RightRequest(request[w])
      /\ payments \in [Ids -> Doc] /\ now \in Nat
  BY DEF TypeOK, SerialInv
<1>1. CASE Read(w)
  BY <1>1, ReadSerial
<1>2. CASE CommitWrite(w)
  <2> DEFINE r == request[w]
  <2>1. /\ r.op = "write" /\ r.id \in Ids /\ Live(r.id) /\ now' = now /\ Goto(w, Idle)
        /\ payments' = [payments EXCEPT ![r.id] = Written(r)]
    BY <1>0, <1>2 DEF CommitWrite, Written, RightRequest, IsRequest
  <2>2. /\ Balanced(Written(r)) /\ StatusFollows(Written(r), now)
        /\ Written(r) \in Doc /\ payments[r.id].ledger <= Written(r).ledger
    <3>1. Balanced(Written(r)) /\ StatusFollows(Written(r), now)
      BY <1>0, <2>1 DEF RightRequest
    <3>2. IsPatch(r.set) /\ r.push \in Nat
      BY <1>0, <2>1 DEF IsRequest
    <3> HIDE DEF r
    <3> QED
      BY <1>0, <2>1, <3>1, <3>2, WrittenKeepsLedger
  <2>3. PICK i \in Ids : i = r.id
    BY <2>1
  <2> HIDE DEF r
  <2>4. payments'[i] = Written(r) /\ \A id \in Ids \ {i} : payments'[id] = payments[id]
    BY <1>0, <2>1, <2>3
  <2>5. Idle.op \notin {"write", "insert", "age"}
    BY DEF Idle
  <2> QED
    BY <2>1, <2>2, <2>3, <2>4, <2>5, CommittedSerial
<1>3. CASE CommitDelete(w)
  <2>1. Goto(w, Idle) /\ now' = now
    BY <1>3 DEF CommitDelete
  <2>2. PICK i \in Ids :
          /\ \A id \in Ids \ {i} : payments'[id] = payments[id]
          /\ payments'[i] = payments[i] \/ ~Live(i)'
    <3>1. PICK i \in Ids : i = request[w].id
      BY <1>3, DeleteEffect
    <3>2. \A k : Gone("deleted", k).state # "live"
      BY DEF Gone
    <3> QED
      BY <1>3, <3>1, <3>2, DeleteEffect DEF Live
  <2>3. Live(i)' => /\ Balanced(payments'[i]) /\ StatusFollows(payments'[i], now)
                    /\ payments'[i] \in Doc
                    /\ payments[i].ledger <= payments'[i].ledger
    BY <1>0, <2>2 DEF SerialInv, AmountsAgree, StatusAgrees, LiveIds, Live, Doc
  <2>4. Idle.op \notin {"write", "insert", "age"}
    BY DEF Idle
  <2> QED
    BY <2>1, <2>2, <2>3, <2>4, CommittedSerial
<1>4. CASE CommitInsert(w)
  <2> DEFINE r == IF request[w].todo = {} THEN Idle ELSE Generate(request[w].todo)
             d == request[w].doc
  <2>1. Goto(w, r) /\ now' = now
    BY <1>4 DEF CommitInsert
  <2>2. r.op \notin {"write", "insert", "age"}
    BY DEF Idle, Generate
  <2>3. /\ request[w].id \in Ids /\ Balanced(d) /\ StatusFollows(d, now)
        /\ ~Live(request[w].id) /\ d \in Doc
        /\ payments' = payments \/ payments' = [payments EXCEPT ![request[w].id] = d]
    BY <1>0, <1>4 DEF CommitInsert, IsRequest, RightRequest, MoneyInv, InsertInFlight, Live
  <2>4. PICK i \in Ids : i = request[w].id
    BY <2>3
  <2> HIDE DEF r, d
  <2>5. /\ \A id \in Ids \ {i} : payments'[id] = payments[id]
        /\ payments'[i] = payments[i] \/ payments'[i] = d
    BY <1>0, <2>3, <2>4
  <2>6. Live(i)' => /\ Balanced(payments'[i]) /\ StatusFollows(payments'[i], now)
                    /\ payments'[i] \in Doc
                    /\ Live(i) => payments[i].ledger <= payments'[i].ledger
    BY <1>0, <2>3, <2>4, <2>5 DEF Live, SerialInv, AmountsAgree, StatusAgrees, LiveIds, Doc
  <2> QED
    BY <2>1, <2>2, <2>3, <2>4, <2>5, <2>6, CommittedSerial
<1>5. CASE Abort(w)
  BY <1>5, PlainRight, QuietSerial DEF Abort
<1>6. CASE StartGeneration(w)
  BY <1>6, PlainRight, QuietSerial DEF StartGeneration
<1>7. CASE StartAging(w)
  <2>1. RightRequest(Age([id \in LiveIds |-> payments[id]]))
    BY DEF RightRequest, Age, LiveIds
  <2> QED
    BY <1>7, <2>1, QuietSerial DEF StartAging
<1>8. ASSUME NEW k \in Keys, SkipPair(w, k)
      PROVE  SerialInv' /\ SettledStep
  <2> DEFINE r == IF request[w].todo = {k} THEN Idle ELSE Generate(request[w].todo \ {k})
  <2>1. Goto(w, r) /\ UNCHANGED <<payments, now>>
    BY <1>8 DEF SkipPair
  <2>2. RightRequest(r)
    BY PlainRight
  <2> HIDE DEF r
  <2> QED
    BY <2>1, <2>2, QuietSerial
<1>9. ASSUME NEW k \in Keys, NEW id \in Ids, ReadPair(w, k, id)
      PROVE  SerialInv' /\ SettledStep
  <2>1. Billing[k] \in Nat /\ PeriodEnd[k] \in Nat
    BY ConfiguredType
  <2>2. RightRequest(Insert(id, NewPayment(k, Billing[k], 0, PeriodEnd[k]),
                            request[w].todo \ {k}))
    BY <1>0, <2>1, NewPaymentIsRight
  <2> QED
    BY <1>9, <2>2, QuietSerial DEF ReadPair
<1>10. ASSUME NEW i \in Ids, AgeOne(w, i)
       PROVE  SerialInv' /\ SettledStep
  <2> DEFINE docs == request[w].docs
             p == docs[i]
             q == Recalculated(p, now)
             rest == DOMAIN docs \ {i}
             r == IF rest = {} THEN Idle ELSE Age([id \in rest |-> docs[id]])
  <2>1. /\ request[w].op = "age" /\ i \in DOMAIN docs /\ DOMAIN docs \subseteq Ids
        /\ p \in Doc /\ Goto(w, r) /\ now' = now
    BY <1>0, <1>10 DEF AgeOne, IsRequest
  <2>2. /\ Live(i) /\ p = payments[i]
        /\ \A id \in DOMAIN docs : Live(id) /\ docs[id] = payments[id]
    BY <1>0, <2>1 DEF RightRequest
  <2>3. Balanced(p) /\ p.paidAmount = p.ledger + 0
    BY <2>1, <2>2 DEF SerialInv, AmountsAgree, LiveIds, Balanced, Doc
  <2>4. /\ q \in Doc /\ Pushed(q, 0) = q /\ Balanced(q) /\ StatusFollows(q, now)
        /\ \A f \in DOMAIN p \ AgedFields : q[f] = p[f]
    <3>1. Pushed(q, 0) = q
      BY DEF Pushed
    <3> HIDE DEF p
    <3> QED
      BY <1>0, <2>1, <2>3, <3>1, RecalculatedIsRight, RecalculatedType, RecalculatedFields
         DEF AgedFields
  <2>5. Merge(p, Listed(q, AgedFields)) = q
    BY <2>1, <2>4, MergeListed DEF AgedFields, Fields
  <2>6. /\ \A id \in Ids \ {i} : payments'[id] = payments[id]
        /\ \/ payments'[i] = payments[i]
           \/ payments'[i] = q
    <3>1. \/ payments' = payments
          \/ payments' = [payments EXCEPT ![i] = Merge(@, Listed(q, AgedFields))]
      BY <1>10 DEF AgeOne
    <3> HIDE DEF p, q
    <3> QED
      BY <1>0, <2>2, <2>5, <3>1
  <2>7. /\ Balanced(payments'[i]) /\ StatusFollows(payments'[i], now)
        /\ payments'[i] \in Doc /\ payments[i].ledger <= payments'[i].ledger
    <3>1. p.ledger <= p.ledger /\ "ledger" \in DOMAIN p \ AgedFields
      BY <2>1 DEF Doc, AgedFields
    <3> HIDE DEF p, q
    <3> QED
      BY <1>0, <2>1, <2>2, <2>4, <2>6, <3>1
         DEF SerialInv, AmountsAgree, StatusAgrees, LiveIds
  <2>8. /\ r.op \notin {"write", "insert"}
        /\ r.op = "age" => r.docs = [id \in rest |-> docs[id]]
    <3> HIDE DEF docs, rest
    <3> QED
      BY DEF Idle, Age
  <2>9. r.op = "age" =>
          \A id \in DOMAIN r.docs : Live(id)' /\ r.docs[id] = payments'[id]
    <3> HIDE DEF r, docs
    <3> QED
      BY <2>1, <2>2, <2>6, <2>8 DEF Live
  <2> HIDE DEF r, docs
  <2> QED
    BY <2>1, <2>6, <2>7, <2>8, <2>9, CommittedSerial
<1> QED
  BY <1>1, <1>2, <1>3, <1>4, <1>5, <1>6, <1>7, <1>8, <1>9, <1>10
     DEF Commit, Job

\* The clock takes nothing back: a status that followed still does.
LEMMA StutterSerial ==
  ASSUME TypeOK, SerialInv, UNCHANGED <<payments, request>>, now' \in {now, now + 1}
  PROVE  SerialInv' /\ SettledStep
<1>1. \A p : StatusFollows(p, now) => StatusFollows(p, now')
  BY DEF StatusFollows, TypeOK
<1>2. \A v \in Workers : RightRequest(request[v])'
  BY <1>1 DEF SerialInv, RightRequest, Written, Live
<1> QED
  BY <1>1, <1>2 DEF SerialInv, AmountsAgree, StatusAgrees, LiveIds, Live,
                    SettledStep, StaysSettled, TypeOK, Doc

\* Every step keeps the invariant and asks for nothing that was settled.
LEMMA SerialStep ==
  TypeOK /\ MoneyInv /\ SerialInv /\ OneAtATime /\ [Next]_vars => SerialInv' /\ SettledStep
<1> SUFFICES ASSUME TypeOK, MoneyInv, SerialInv, OneAtATime, [Next]_vars
             PROVE  SerialInv' /\ SettledStep
  OBVIOUS
<1>1. CASE UNCHANGED vars \/ Tick
  BY <1>1, StutterSerial DEF vars, Tick
<1> QED
  BY <1>1, StepSerial DEF Next

\* With one request at a time every write stores amounts and a status that
\* follow from the history, and no write under way would do otherwise.
THEOREM SerialSafe ==
  ASSUME OneAtATime PROVE Spec => []SerialInv
<1>1. Init => SerialInv
  BY DEF Init, SerialInv, AmountsAgree, StatusAgrees, LiveIds, Live, Unused, Gone,
         RightRequest, Idle
<1> QED
  BY <1>1, SerialStep, TypeCorrect, MoneySafe, PTL DEF Spec

\* Amounts stored by any of the five write paths, one request at a time, are
\* those that history and price dictate.
THEOREM AmountsFollowHistory ==
  ASSUME OneAtATime PROVE Spec => []AmountsAgree
<1>1. SerialInv => AmountsAgree
  BY DEF SerialInv
<1> QED
  BY <1>1, SerialSafe, PTL

\* The stored status is one that the lifecycle gave, up to now.
THEOREM StatusFollowsLifecycle ==
  ASSUME OneAtATime PROVE Spec => []StatusAgrees
<1>1. SerialInv => StatusAgrees
  BY DEF SerialInv
<1> QED
  BY <1>1, SerialSafe, PTL

\* What amounts and status say of a document that is right.
LEMMA RightDocument ==
  ASSUME NEW p \in Doc, NEW t \in Nat, Balanced(p), StatusFollows(p, t)
  PROVE  /\ p.remainingAmount > 0 <=> Owes(p)
         /\ p.status \in {"pending", "partial", "debt"} <=> Owes(p) /\ ~p.isFrozen
         /\ p.status = "debt" => p.dueDate < t
<1>1. p.remainingAmount > 0 <=> Owes(p)
  BY DEF Balanced, Owes, Excess, Doc
<1>2. PICK s \in 0..t : p.status = LifecycleStatus(p, s)
  BY DEF StatusFollows
<1>3. p.dueDate < s => p.dueDate < t
  BY <1>2 DEF Doc
<1>4. /\ p.paidAmount > p.expectedAmount \/ p.paidAmount = p.expectedAmount \/ Owes(p)
      /\ ~(p.paidAmount > p.expectedAmount /\ Owes(p))
      /\ ~(p.paidAmount = p.expectedAmount /\ Owes(p))
  BY DEF Owes, Doc
<1> QED
  BY <1>1, <1>2, <1>3, <1>4 DEF LifecycleStatus

\* The debtors report lists who owes and is not frozen, and nobody else.
THEOREM DebtorsAreListed ==
  ASSUME OneAtATime PROVE Spec => []DebtorsReportExact
<1>1. TypeOK /\ SerialInv => DebtorsReportExact
  <2> SUFFICES ASSUME TypeOK, SerialInv, NEW id \in LiveIds
               PROVE  ListedAsDebtor(payments[id]) <=>
                        Owes(payments[id]) /\ ~payments[id].isFrozen
    BY DEF DebtorsReportExact
  <2>1. payments[id] \in Doc /\ now \in Nat
    BY DEF TypeOK, LiveIds
  <2>2. Balanced(payments[id]) /\ StatusFollows(payments[id], now)
    BY DEF SerialInv, AmountsAgree, StatusAgrees
  <2> QED
    BY <2>1, <2>2, RightDocument DEF ListedAsDebtor
<1> QED
  BY <1>1, SerialSafe, TypeCorrect, PTL

\* Reminders go to who owes, is past the due date and is not frozen, marked by
\* the nightly job or not.
THEOREM DebtorsAreReminded ==
  ASSUME OneAtATime PROVE Spec => []RemindersReachDebtors
<1>1. TypeOK /\ SerialInv => RemindersReachDebtors
  <2> SUFFICES ASSUME TypeOK, SerialInv, NEW id \in LiveIds, NEW p, p = payments[id]
               PROVE  EligibleForReminder(p, now) <=>
                        Owes(p) /\ ~p.isFrozen /\ p.dueDate < now
    BY DEF RemindersReachDebtors
  <2>1. p \in Doc /\ now \in Nat /\ p.status \in Statuses
    BY DEF TypeOK, LiveIds, Doc
  <2>2. Balanced(p) /\ StatusFollows(p, now)
    BY DEF SerialInv, AmountsAgree, StatusAgrees
  <2> QED
    BY <2>1, <2>2, RightDocument DEF EligibleForReminder, Statuses
<1> QED
  BY <1>1, SerialSafe, TypeCorrect, PTL

\* What is left to pay never grows and what is settled, overpaid and frozen
\* payments included, is not asked for again, unless its price is raised.
THEOREM NoPaymentUnsettles ==
  ASSUME OneAtATime PROVE Spec => SettledStaysSettled
<1>1. SettledStep =>
        \A id \in Ids : Live(id) /\ Live(id)' => StaysSettled(payments[id], payments'[id])
  BY DEF SettledStep
<1> QED
  BY <1>1, SerialSafe, SerialStep, TypeCorrect, MoneySafe, PTL DEF Spec, SettledStaysSettled

=============================================================================
