---------------------------- MODULE AccountsProofs ----------------------------
(***************************************************************************)
(* What holds of Accounts for any users, contacts, indexes and bodies and  *)
(* any number of requests.  The inductive invariant says what the checks   *)
(* of each request under way have established, and that it still holds     *)
(* unless the request has been told otherwise ('moved').                   *)
(***************************************************************************)
EXTENDS Accounts, FiniteSetTheorems, TLAPS

\* What the routes let through, as far as the write depends on it.
Shaped(q) ==
  /\ q.op \in {"profile", "status"} => q.ask.role = Keep
  /\ q.op \in {"role", "status", "remove"} => Named(q.ask) = {}
  /\ q.step = "check" => q.op = "put"

\* Someone else is an owner.
OwnerChecked(q) ==
  /\ q.step = "write"
  /\ q.op = "remove" \/ (q.op = "role" /\ q.ask.role # "owner")
  /\ "owner" \notin q.moved \cup excused
  => \E u \in Users \ {q.target} : IsOwner(u)

\* Someone else is an active owner.
ActiveChecked(q) ==
  /\ q.step = "write" /\ q.op = "status" /\ q.ask.status # "active"
  /\ "active" \notin q.moved \cup excused
  => \E u \in Users \ {q.target} : IsActiveOwner(u)

\* Nobody else has the contacts named.
ContactsChecked(q) ==
  q.step = "write" =>
    \A c \in Named(q.ask) \ q.moved : \A u \in Users \ {q.target} :
      docs[u].contact[c] # q.ask.contact[c]

\* The branches loaded are those stored.
BranchesLoaded(q) ==
  q.op = "put" /\ q.ask.branches = Keep /\ "branches" \notin q.moved
    => q.branches = docs[q.target].branches

Sound(q) ==
  Shaped(q) /\ OwnerChecked(q) /\ ActiveChecked(q) /\ ContactsChecked(q) /\ BranchesLoaded(q)

RequestsInv == \A w \in Workers : request[w] # Idle => Sound(request[w])

AccountsInv == TypeOK /\ OwnersRemain /\ ContactsUnique /\ RequestsInv

-----------------------------------------------------------------------------
(* Counting, requests and what they write *)

\* Among more than one there is another.
LEMMA AnotherOne ==
  ASSUME NEW S \in SUBSET Users, Cardinality(S) > 1, NEW t
  PROVE  \E u \in S : u # t
<1>1. IsFiniteSet(S)
  BY UsersAssumption, FS_Subset
<1> SUFFICES ASSUME \A u \in S : u = t PROVE FALSE
  OBVIOUS
<1>2. IsFiniteSet({t}) /\ Cardinality({t}) = 1
  BY FS_Singleton
<1>3. S \subseteq {t}
  OBVIOUS
<1>4. Cardinality(S) <= Cardinality({t}) /\ Cardinality(S) \in Nat
  BY <1>1, <1>2, <1>3, FS_Subset, FS_CardinalityType
<1> QED
  BY <1>2, <1>4

LEMMA RequestIsNotIdle ==
  ASSUME NEW q \in Requests PROVE q # Idle
BY DEF Requests, Idle

LEMMA AskTypes ==
  ASSUME NEW ask \in AskSpace
  PROVE  /\ ask.role \in Assignable \cup {Keep} /\ ask.status \in Statuses \cup {Keep}
         /\ \A c \in Contacts : ask.contact[c] \in Values \cup {Keep, None}
         /\ ask.branches \in {Keep} \cup SUBSET Branches
         /\ Named(ask) \subseteq Contacts
BY DEF AskSpace, Named

LEMMA AskingTypes ==
  ASSUME TypeOK, NEW op \in {"create", "put", "profile", "role", "status", "remove"},
         NEW u \in Users, NEW t \in Users, NEW ask \in Asks
  PROVE  LET q == Asking(op, u, t, ask) IN
         /\ q \in Requests /\ q.step = "write" /\ q.op = op /\ q.target = t /\ q.moved = {}
         /\ q.ask.role = ask.role /\ q.ask.status = ask.status /\ q.ask.contact = ask.contact
         /\ op # "create" => q.ask = ask
         /\ op = "put" => q.branches = BranchesToWrite(op, u, t, ask)
<1>1. ask \in AskSpace
  BY AsksAssumption
<1> DEFINE created == [ask EXCEPT !.branches = Keep]
<1>2. /\ created \in AskSpace
      /\ created.role = ask.role /\ created.status = ask.status /\ created.contact = ask.contact
  BY <1>1 DEF AskSpace
<1> HIDE DEF created
<1>3. docs[u].branches \in SUBSET Branches /\ docs[t].branches \in SUBSET Branches
  BY DEF TypeOK, Accounts
<1>4. ask.branches \in {Keep} \cup SUBSET Branches
  BY <1>1, AskTypes
<1>5. op \in {"create", "put"} => BranchesToWrite(op, u, t, ask) \in SUBSET Branches
  BY <1>3, <1>4 DEF BranchesToWrite, Overlay
<1> DEFINE a == IF op = "create" THEN created ELSE ask
           b == IF op \in {"create", "put"} THEN BranchesToWrite(op, u, t, ask) ELSE {}
<1>6. /\ a \in AskSpace /\ a.role = ask.role /\ a.status = ask.status /\ a.contact = ask.contact
      /\ b \in SUBSET Branches
      /\ op # "create" => a = ask
      /\ op = "put" => b = BranchesToWrite(op, u, t, ask)
  BY <1>1, <1>2, <1>5
<1> DEFINE rec == [step |-> "write", op |-> op, target |-> t, ask |-> a, branches |-> b,
                   moved |-> {}]
<1>7. Asking(op, u, t, ask) = rec
  BY DEF Asking, created
<1> HIDE DEF a, b
<1>8. /\ rec.step = "write" /\ rec.op = op /\ rec.target = t /\ rec.moved = {} /\ rec.ask = a
      /\ rec.branches = b
  OBVIOUS
<1>9. a \in AskSpace /\ b \in SUBSET Branches
  BY <1>6
<1>10. rec \in Requests
  BY <1>9 DEF Requests
<1> HIDE DEF rec
<1>11. op # "create" => rec.ask = ask
  BY <1>6, <1>8
<1>12. op = "put" => rec.branches = BranchesToWrite(op, u, t, ask)
  BY <1>6, <1>8
<1>13. rec.ask.role = ask.role /\ rec.ask.status = ask.status /\ rec.ask.contact = ask.contact
  BY <1>6, <1>8
<1> QED
  BY <1>7, <1>8, <1>10, <1>11, <1>12, <1>13

\* Field by field, what a request writes.
LEMMA WrittenFields ==
  ASSUME TypeOK, NEW r \in Requests
  PROVE  /\ Written(r) \in Accounts
         /\ r.op = "remove" => Written(r).role = None
         /\ r.op \notin {"remove", "create"} =>
              /\ Written(r).role = Overlay(r.ask.role, docs[r.target].role)
              /\ Written(r).status = Overlay(r.ask.status, docs[r.target].status)
         /\ r.op \notin {"remove", "create", "put"} =>
              Written(r).branches = docs[r.target].branches
         /\ r.op = "put" => Written(r).branches = r.branches
         /\ \A c \in Contacts :
              \/ Written(r).contact[c] = None
              \/ c \in Named(r.ask) /\ Written(r).contact[c] = r.ask.contact[c]
              \/ Written(r).contact[c] = docs[r.target].contact[c]
<1>1. /\ r.target \in Users /\ r.ask \in AskSpace /\ r.branches \in SUBSET Branches
      /\ docs[r.target] \in Accounts
  BY DEF Requests, TypeOK
<1>2. Newcomer \in Accounts /\ \A c \in Contacts : Newcomer.contact[c] = None
  BY DEF Newcomer, Accounts, Roles, Statuses
<1>3. Absent \in Accounts /\ Absent.role = None /\ \A c \in Contacts : Absent.contact[c] = None
  BY <1>2 DEF Absent, Accounts
<1>4. CASE r.op = "remove"
  BY <1>3, <1>4 DEF Written
<1>5. CASE r.op # "remove"
  <2> DEFINE d == IF r.op = "create" THEN Newcomer ELSE docs[r.target]
             cs == [c \in Contacts |-> Overlay(r.ask.contact[c], d.contact[c])]
             bs == IF r.op \in {"create", "put"} THEN r.branches ELSE d.branches
  <2>1. d \in Accounts /\ (r.op # "create" => d = docs[r.target])
        /\ (r.op = "create" => \A c \in Contacts : d.contact[c] = None)
    BY <1>1, <1>2
  <2>2. Written(r) = [role |-> Overlay(r.ask.role, d.role),
                      status |-> Overlay(r.ask.status, d.status),
                      contact |-> cs, branches |-> bs]
    BY <1>5 DEF Written
  <2> HIDE DEF d
  <2>3. /\ d.role \in Roles \cup {None} /\ d.status \in Statuses
        /\ d.branches \in SUBSET Branches
        /\ \A c \in Contacts : d.contact[c] \in Values \cup {None}
    BY <2>1 DEF Accounts
  <2>4. cs \in [Contacts -> Values \cup {None}]
    BY <1>1, <2>3, AskTypes DEF Overlay
  <2>5. bs \in SUBSET Branches
    BY <1>1, <2>3
  <2>6. Overlay(r.ask.role, d.role) \in Roles \cup {None}
        /\ Overlay(r.ask.status, d.status) \in Statuses
    BY <1>1, <2>3, AskTypes DEF Overlay, Assignable, Roles
  <2>7. \A c \in Contacts : \/ cs[c] = None
                            \/ c \in Named(r.ask) /\ cs[c] = r.ask.contact[c]
                            \/ cs[c] = docs[r.target].contact[c]
    BY <2>1 DEF Overlay, Named
  <2>8. r.op # "put" /\ r.op # "create" => bs = docs[r.target].branches
    BY <2>1
  <2>9. r.op = "put" => bs = r.branches
    OBVIOUS
  <2> HIDE DEF cs, bs
  <2>10. Written(r) \in Accounts
    BY <2>2, <2>4, <2>5, <2>6 DEF Accounts
  <2> QED
    BY <1>5, <2>1, <2>2, <2>7, <2>8, <2>9, <2>10
<1> QED
  BY <1>4, <1>5

\* A request that is told of a write keeps everything else.
LEMMA NoteFields ==
  ASSUME NEW r \in Requests, NEW q \in Requests
  PROVE  LET n == Note(r, q) IN
         /\ n \in Requests /\ n.moved = q.moved \cup (CountsOn(q) \cap MovedBy(r, q))
         /\ n.step = q.step /\ n.op = q.op /\ n.target = q.target
         /\ n.ask = q.ask /\ n.branches = q.branches
<1>1. q # Idle
  BY RequestIsNotIdle
<1>2. Named(q.ask) \subseteq Contacts
  BY DEF Named, Requests
<1>3. CountsOn(q) \subseteq Contacts \cup {"owner", "active", "branches"}
  BY <1>2 DEF CountsOn
<1> DEFINE m == q.moved \cup (CountsOn(q) \cap MovedBy(r, q))
<1>4. m \in SUBSET (Contacts \cup {"owner", "active", "branches"})
  BY <1>3 DEF Requests
<1>5. Note(r, q) = [q EXCEPT !.moved = m]
  BY <1>1 DEF Note
<1> HIDE DEF m
<1>6. /\ Note(r, q) \in Requests /\ Note(r, q).moved = m
      /\ Note(r, q).step = q.step /\ Note(r, q).op = q.op /\ Note(r, q).target = q.target
      /\ Note(r, q).ask = q.ask /\ Note(r, q).branches = q.branches
  BY <1>4, <1>5 DEF Requests
<1> QED
  BY <1>6 DEF m

-----------------------------------------------------------------------------
(* Requests that only read *)

\* One request moves on and nothing is written.
LEMMA OneRequestMoves ==
  ASSUME AccountsInv, NEW w \in Workers, NEW q \in {Idle} \cup Requests, q # Idle => Sound(q),
         request' = [request EXCEPT ![w] = q], UNCHANGED <<docs, excused>>
  PROVE  AccountsInv'
<1>1. \A v \in Workers : request'[v] = IF v = w THEN q ELSE request[v]
  BY DEF AccountsInv, TypeOK
<1>2. TypeOK'
  BY DEF AccountsInv, TypeOK
<1>3. (OwnersRemain /\ ContactsUnique)'
  BY DEF AccountsInv, OwnersRemain, ContactsUnique, IsOwner, IsActiveOwner
<1>4. ASSUME NEW v \in Workers, request'[v] # Idle PROVE Sound(request[v])'
  <2>1. Sound(request'[v])
    BY <1>1, <1>4 DEF AccountsInv, RequestsInv
  <2> QED
    BY <2>1 DEF Sound, OwnerChecked, ActiveChecked, ContactsChecked, BranchesLoaded, IsOwner,
                IsActiveOwner, Shaped
<1>5. RequestsInv'
  BY <1>4 DEF RequestsInv
<1> QED
  BY <1>2, <1>3, <1>5 DEF AccountsInv

\* The checks of role, status and removal establish what they count on.
LEMMA OwnersCounted ==
  ASSUME AccountsInv, NEW q \in Requests, Passes(q), Named(q.ask) = {} \/ q.op \notin {"role", "status", "remove"}
  PROVE  OwnerChecked(q) /\ ActiveChecked(q)
<1>0. q.target \in Users
  BY DEF Requests
<1>1. OwnerChecked(q)
  <2> SUFFICES ASSUME q.op = "remove" \/ (q.op = "role" /\ q.ask.role # "owner"),
                      "owner" \notin excused
      PROVE  \E u \in Users \ {q.target} : IsOwner(u)
    BY DEF OwnerChecked
  <2>1. NotLastOwner(q.target)
    BY DEF Passes
  <2>2. CASE IsOwner(q.target)
    BY <2>1, <2>2, AnotherOne DEF NotLastOwner
  <2>3. CASE ~IsOwner(q.target)
    BY <2>3 DEF AccountsInv, OwnersRemain
  <2> QED
    BY <2>2, <2>3
<1>2. ActiveChecked(q)
  <2> SUFFICES ASSUME q.op = "status", q.ask.status # "active", "active" \notin excused
      PROVE  \E u \in Users \ {q.target} : IsActiveOwner(u)
    BY DEF ActiveChecked
  <2>1. NotLastActiveOwner(q.target)
    BY DEF Passes
  <2>2. CASE IsOwner(q.target)
    BY <2>1, <2>2, AnotherOne DEF NotLastActiveOwner
  <2>3. CASE ~IsOwner(q.target)
    BY <2>3 DEF AccountsInv, OwnersRemain, IsActiveOwner
  <2> QED
    BY <2>2, <2>3
<1> QED
  BY <1>1, <1>2

LEMMA ContactsLookedUp ==
  ASSUME NEW q \in Requests, Passes(q),
         q.op \in {"role", "status", "remove"} => Named(q.ask) = {}
  PROVE  ContactsChecked(q)
<1>1. CASE q.op \in {"create", "put", "profile"}
  BY <1>1 DEF Passes, Unique, ContactsChecked
<1>2. CASE q.op \in {"role", "status", "remove"}
  BY <1>2 DEF ContactsChecked
<1> QED
  BY <1>1, <1>2 DEF Requests

\* What Admitted says of the body.
LEMMA AdmittedShape ==
  ASSUME TypeOK, NEW op \in {"create", "put", "profile", "role", "status", "remove"},
         NEW u \in Users, NEW t \in Users, NEW ask \in Asks, MayAsk(op, u, t, ask)
  PROVE  /\ op \in {"profile", "status"} => ask.role = Keep
         /\ op \in {"role", "status", "remove"} => Named(ask) = {}
BY DEF MayAsk, Admitted, OnlyContacts, NoContacts, Named

LEMMA BeginSteps ==
  ASSUME AccountsInv, NEW w \in Workers,
         NEW op \in {"create", "profile", "role", "status", "remove"},
         NEW u \in Users, NEW t \in Users, NEW ask \in Asks, Begin(w, op, u, t, ask)
  PROVE  AccountsInv'
<1> DEFINE q == Asking(op, u, t, ask)
<1>1. /\ MayAsk(op, u, t, ask) /\ Passes(q) /\ request' = [request EXCEPT ![w] = q]
      /\ UNCHANGED <<docs, excused>>
  BY DEF Begin
<1>2. /\ q \in Requests /\ q.step = "write" /\ q.op = op /\ q.target = t /\ q.moved = {}
      /\ q.ask.role = ask.role /\ q.ask.status = ask.status /\ q.ask.contact = ask.contact
  BY AskingTypes DEF AccountsInv
<1> HIDE DEF q
<1>3. Named(q.ask) = Named(ask)
  BY <1>2 DEF Named
<1>4. Shaped(q)
  BY <1>1, <1>2, <1>3, AdmittedShape DEF Shaped, AccountsInv
<1>5. OwnerChecked(q) /\ ActiveChecked(q) /\ ContactsChecked(q)
  BY <1>1, <1>2, <1>4, OwnersCounted, ContactsLookedUp DEF Shaped
<1>6. BranchesLoaded(q)
  BY <1>2 DEF BranchesLoaded
<1> QED
  BY <1>1, <1>2, <1>4, <1>5, <1>6, OneRequestMoves DEF Sound

LEMMA LoadSteps ==
  ASSUME AccountsInv, NEW w \in Workers, NEW u \in Users, NEW t \in Users, NEW ask \in Asks,
         Load(w, u, t, ask)
  PROVE  AccountsInv'
<1> DEFINE a == Asking("put", u, t, ask)
           q == [a EXCEPT !.step = "check"]
<1>1. request' = [request EXCEPT ![w] = q] /\ UNCHANGED <<docs, excused>>
  BY DEF Load
<1>2. /\ a \in Requests /\ a.op = "put" /\ a.target = t /\ a.ask = ask
      /\ a.branches = BranchesToWrite("put", u, t, ask)
  BY AskingTypes DEF AccountsInv
<1> HIDE DEF a
<1>3. /\ q \in Requests /\ q.step = "check" /\ q.op = "put" /\ q.target = t /\ q.ask = ask
      /\ q.branches = a.branches
  BY <1>2 DEF Requests
<1> HIDE DEF q
<1>4. ask.branches = Keep => q.branches = docs[t].branches
  BY <1>2, <1>3 DEF BranchesToWrite, Overlay
<1>5. Sound(q)
  BY <1>3, <1>4 DEF Sound, Shaped, OwnerChecked, ActiveChecked, ContactsChecked, BranchesLoaded
<1> QED
  BY <1>1, <1>3, <1>5, OneRequestMoves

LEMMA CheckSteps ==
  ASSUME AccountsInv, NEW w \in Workers, Check(w)
  PROVE  AccountsInv'
<1> DEFINE a == request[w]
           q == [a EXCEPT !.step = "write"]
<1>1. /\ a.step = "check" /\ Passes(a)
      /\ request' = [request EXCEPT ![w] = q] /\ UNCHANGED <<docs, excused>>
  BY DEF Check, AccountsInv, TypeOK
<1>2. a \in Requests /\ Sound(a)
  BY <1>1 DEF AccountsInv, TypeOK, RequestsInv, Idle
<1>3. a.op = "put"
  BY <1>1, <1>2 DEF Sound, Shaped
<1> HIDE DEF a
<1>4. /\ q \in Requests /\ q.step = "write" /\ q.op = "put" /\ q.target = a.target
      /\ q.ask = a.ask /\ q.branches = a.branches /\ q.moved = a.moved
  BY <1>2, <1>3 DEF Requests
<1> HIDE DEF q
<1>5. ContactsChecked(q)
  BY <1>1, <1>3, <1>4 DEF Passes, Unique, ContactsChecked
<1>6. BranchesLoaded(q)
  BY <1>2, <1>3, <1>4 DEF Sound, BranchesLoaded
<1>7. Shaped(q) /\ OwnerChecked(q) /\ ActiveChecked(q)
  BY <1>4 DEF Shaped, OwnerChecked, ActiveChecked
<1> QED
  BY <1>1, <1>4, <1>5, <1>6, <1>7, OneRequestMoves DEF Sound

-----------------------------------------------------------------------------
(* The write *)

LEMMA CommitFacts ==
  ASSUME AccountsInv, NEW w \in Workers, Commit(w)
  PROVE  /\ request[w] \in Requests /\ Sound(request[w]) /\ request[w].step = "write"
         /\ request[w].target \in Users
         /\ \A u \in Users :
              docs'[u] = IF u = request[w].target THEN Written(request[w]) ELSE docs[u]
         /\ excused' = excused \cup Breaks(request[w])
         /\ Lands(request[w])
         /\ \A v \in Workers :
              request'[v] = IF v = w THEN Idle ELSE Note(request[w], request[v])
<1>1. request[w].step = "write"
  BY DEF Commit
<1>2. request[w] \in Requests /\ request[w] # Idle
  BY <1>1 DEF AccountsInv, TypeOK, Idle
<1>3. Sound(request[w]) /\ request[w].target \in Users
  BY <1>2 DEF AccountsInv, RequestsInv, Requests
<1> QED
  BY <1>1, <1>2, <1>3 DEF Commit, AccountsInv, TypeOK

LEMMA CommitTypes ==
  ASSUME AccountsInv, NEW w \in Workers, Commit(w)
  PROVE  TypeOK'
<1> DEFINE r == request[w]
<1>1. /\ r \in Requests /\ docs' = [docs EXCEPT ![r.target] = Written(r)]
      /\ excused' = excused \cup Breaks(r)
  BY CommitFacts DEF Commit
<1>2. Written(r) \in Accounts
  BY <1>1, WrittenFields DEF AccountsInv
<1>3. docs' \in [Users -> Accounts]
  BY <1>1, <1>2 DEF AccountsInv, TypeOK
<1>4. Breaks(r) \subseteq Contacts \cup {"owner", "active"}
  BY DEF Breaks, Named
<1>5. ASSUME NEW v \in Workers PROVE request'[v] \in {Idle} \cup Requests
  <2>1. request[v] \in {Idle} \cup Requests
    BY DEF AccountsInv, TypeOK
  <2>2. CASE v = w
    BY <2>2, CommitFacts
  <2>3. CASE v # w /\ request[v] = Idle
    BY <2>3, CommitFacts DEF Note
  <2>4. CASE v # w /\ request[v] \in Requests
    BY <1>1, <2>4, CommitFacts, NoteFields
  <2> QED
    BY <2>1, <2>2, <2>3, <2>4
<1>6. request' \in [Workers -> {Idle} \cup Requests]
  BY <1>5 DEF Commit
<1> QED
  BY <1>1, <1>3, <1>4, <1>6 DEF AccountsInv, TypeOK

\* The last owner goes only where Breaks says so.
LEMMA CommitKeepsOwner ==
  ASSUME AccountsInv, NEW w \in Workers, Commit(w), "owner" \notin excused'
  PROVE  \E u \in Users : IsOwner(u)'
<1> DEFINE r == request[w]
<1>1. /\ r \in Requests /\ Sound(r) /\ r.step = "write" /\ r.target \in Users
      /\ \A u \in Users : docs'[u] = IF u = r.target THEN Written(r) ELSE docs[u]
      /\ "owner" \notin excused /\ "owner" \notin Breaks(r) /\ Lands(r)
  BY CommitFacts
<1>2. PICK o \in Users : IsOwner(o)
  BY <1>1 DEF AccountsInv, OwnersRemain
<1> HIDE DEF r
<1>3. CASE TakesOwner(r)
  <2>1. r.op # "put" /\ "owner" \notin r.moved
    BY <1>1, <1>3 DEF Breaks
  <2>2. r.op # "create"
    BY <1>1, <1>3, MarksAssumption DEF TakesOwner, IsOwner, Lands, Exists, Roles
  <2>3. r.op \notin {"profile", "status"}
    BY <1>1, <1>3, <2>2, WrittenFields DEF TakesOwner, IsOwner, Sound, Shaped, Overlay, AccountsInv
  <2>4. r.op = "role" => r.ask.role # "owner"
    BY <1>1, <1>3, WrittenFields, MarksAssumption DEF TakesOwner, IsOwner, Overlay, AccountsInv, Roles
  <2>5. r.op = "remove" \/ (r.op = "role" /\ r.ask.role # "owner")
    BY <1>1, <2>1, <2>2, <2>3, <2>4 DEF Requests
  <2>6. \E u \in Users \ {r.target} : IsOwner(u)
    BY <1>1, <2>1, <2>5 DEF Sound, OwnerChecked
  <2> QED
    BY <1>1, <2>6 DEF IsOwner
<1>4. CASE ~TakesOwner(r)
  BY <1>1, <1>2, <1>4 DEF TakesOwner, IsOwner
<1> QED
  BY <1>3, <1>4

LEMMA CommitKeepsActiveOwner ==
  ASSUME AccountsInv, NEW w \in Workers, Commit(w), "active" \notin excused'
  PROVE  \E u \in Users : IsActiveOwner(u)'
<1> DEFINE r == request[w]
<1>1. /\ r \in Requests /\ Sound(r) /\ r.step = "write" /\ r.target \in Users
      /\ \A u \in Users : docs'[u] = IF u = r.target THEN Written(r) ELSE docs[u]
      /\ "active" \notin excused /\ "active" \notin Breaks(r)
  BY CommitFacts
<1>2. PICK o \in Users : IsActiveOwner(o)
  BY <1>1 DEF AccountsInv, OwnersRemain
<1> HIDE DEF r
<1>3. CASE TakesActiveOwner(r)
  <2>1. r.op = "status" /\ "active" \notin r.moved
    BY <1>1, <1>3 DEF Breaks
  <2>2. Written(r).role = "owner"
    BY <1>1, <1>3, <2>1, WrittenFields
       DEF TakesActiveOwner, IsActiveOwner, IsOwner, Sound, Shaped, Overlay, AccountsInv
  <2>3. r.ask.status # "active"
    BY <1>1, <1>3, <2>1, <2>2, WrittenFields
       DEF TakesActiveOwner, IsActiveOwner, Overlay, AccountsInv
  <2>4. \E u \in Users \ {r.target} : IsActiveOwner(u)
    BY <1>1, <2>1, <2>3 DEF Sound, ActiveChecked
  <2> QED
    BY <1>1, <2>4 DEF IsActiveOwner, IsOwner
<1>4. CASE ~TakesActiveOwner(r)
  BY <1>1, <1>2, <1>4 DEF TakesActiveOwner, IsActiveOwner, IsOwner
<1> QED
  BY <1>3, <1>4

\* A value is taken over only from nobody, or where Breaks says so and no
\* index does.
LEMMA CommitKeepsUnique ==
  ASSUME AccountsInv, NEW w \in Workers, Commit(w)
  PROVE  ContactsUnique'
<1> DEFINE r == request[w]
<1>1. /\ r \in Requests /\ Sound(r) /\ r.step = "write" /\ r.target \in Users
      /\ \A u \in Users : docs'[u] = IF u = r.target THEN Written(r) ELSE docs[u]
      /\ excused' = excused \cup Breaks(r) /\ Lands(r)
  BY CommitFacts
<1> HIDE DEF r
<1>2. ASSUME NEW c \in Contacts \ (excused' \ Indexed), NEW v \in Users \ {r.target},
             Written(r).contact[c] # None
      PROVE  docs[v].contact[c] # Written(r).contact[c]
  <2>1. CASE c \in Indexed
    BY <1>1, <1>2, <2>1 DEF Lands
  <2>2. CASE c \notin Indexed
    <3>1. c \notin excused /\ c \notin Breaks(r)
      BY <1>1, <1>2, <2>2
    <3>2. CASE c \in Named(r.ask) /\ Written(r).contact[c] = r.ask.contact[c]
      <4>1. c \notin r.moved
        BY <3>1, <3>2 DEF Breaks
      <4> QED
        BY <1>1, <1>2, <3>2, <4>1 DEF Sound, ContactsChecked
    <3>3. CASE Written(r).contact[c] = docs[r.target].contact[c]
      BY <1>1, <1>2, <2>2, <3>1, <3>3 DEF AccountsInv, ContactsUnique
    <3> QED
      BY <1>1, <1>2, <3>2, <3>3, WrittenFields DEF AccountsInv
  <2> QED
    BY <2>1, <2>2
<1>3. \A c \in Contacts \ (excused' \ Indexed) : c \in Contacts \ (excused \ Indexed)
  BY <1>1
<1>4. SUFFICES ASSUME NEW c \in Contacts \ (excused' \ Indexed), NEW u \in Users, NEW v \in Users,
                      docs'[u].contact[c] = docs'[v].contact[c], docs'[u].contact[c] # None
               PROVE  u = v
  BY DEF ContactsUnique
<1>5. CASE u # r.target /\ v # r.target
  BY <1>1, <1>3, <1>4, <1>5 DEF AccountsInv, ContactsUnique
<1>6. CASE u = r.target /\ v # r.target
  BY <1>1, <1>2, <1>4, <1>6
<1>7. CASE u # r.target /\ v = r.target
  BY <1>1, <1>2, <1>4, <1>7
<1> QED
  BY <1>5, <1>6, <1>7

\* The others still hold what they have checked, or have been told.
LEMMA CommitKeepsOthersSound ==
  ASSUME AccountsInv, NEW w \in Workers, Commit(w), NEW v \in Workers, v # w,
         request[v] \in Requests
  PROVE  Sound(request[v])'
<1> DEFINE r == request[w]
           q == request[v]
           n == request'[v]
<1>1. /\ r \in Requests /\ r.target \in Users
      /\ \A u \in Users : docs'[u] = IF u = r.target THEN Written(r) ELSE docs[u]
      /\ excused \subseteq excused'
  BY CommitFacts
<1>2. /\ n.moved = q.moved \cup (CountsOn(q) \cap MovedBy(r, q))
      /\ n.step = q.step /\ n.op = q.op /\ n.target = q.target
      /\ n.ask = q.ask /\ n.branches = q.branches
  BY <1>1, CommitFacts, NoteFields
<1>3. Sound(q) /\ q.target \in Users
  BY RequestIsNotIdle DEF AccountsInv, RequestsInv, Requests
<1> HIDE DEF r, q, n
<1>4. Shaped(n)
  BY <1>2, <1>3 DEF Sound, Shaped
<1>5. /\ n.step = "write"
      /\ n.op = "remove" \/ (n.op = "role" /\ n.ask.role # "owner")
      /\ "owner" \notin n.moved \cup excused'
      => \E u \in Users \ {n.target} : docs'[u].role = "owner"
  <2> SUFFICES ASSUME n.step = "write", n.op = "remove" \/ (n.op = "role" /\ n.ask.role # "owner"),
                      "owner" \notin n.moved \cup excused'
      PROVE  \E u \in Users \ {n.target} : docs'[u].role = "owner"
    OBVIOUS
  <2>1. "owner" \in CountsOn(q)
    BY <1>2 DEF CountsOn
  <2>2. ~TakesOwner(r)
    BY <1>2, <2>1 DEF MovedBy
  <2>3. PICK u \in Users \ {q.target} : IsOwner(u)
    BY <1>1, <1>2, <1>3 DEF Sound, OwnerChecked
  <2>4. docs'[u].role = "owner"
    BY <1>1, <2>2, <2>3 DEF TakesOwner, IsOwner
  <2> QED
    BY <1>2, <2>4
<1>6. /\ n.step = "write" /\ n.op = "status" /\ n.ask.status # "active"
      /\ "active" \notin n.moved \cup excused'
      => \E u \in Users \ {n.target} : docs'[u].role = "owner" /\ docs'[u].status = "active"
  <2> SUFFICES ASSUME n.step = "write", n.op = "status", n.ask.status # "active",
                      "active" \notin n.moved \cup excused'
      PROVE  \E u \in Users \ {n.target} : docs'[u].role = "owner" /\ docs'[u].status = "active"
    OBVIOUS
  <2>1. "active" \in CountsOn(q)
    BY <1>2 DEF CountsOn
  <2>2. ~TakesActiveOwner(r)
    BY <1>2, <2>1 DEF MovedBy
  <2>3. PICK u \in Users \ {q.target} : IsActiveOwner(u)
    BY <1>1, <1>2, <1>3 DEF Sound, ActiveChecked
  <2>4. docs'[u].role = "owner" /\ docs'[u].status = "active"
    BY <1>1, <2>2, <2>3 DEF TakesActiveOwner, IsActiveOwner, IsOwner
  <2> QED
    BY <1>2, <2>4
<1>7. n.step = "write" =>
        \A c \in Named(n.ask) \ n.moved : \A u \in Users \ {n.target} :
          docs'[u].contact[c] # n.ask.contact[c]
  <2> SUFFICES ASSUME n.step = "write", NEW c \in Named(n.ask) \ n.moved,
                      NEW u \in Users \ {n.target}
      PROVE  docs'[u].contact[c] # n.ask.contact[c]
    OBVIOUS
  <2>1. c \in CountsOn(q) /\ c \in Named(q.ask) \ q.moved
    BY <1>2 DEF CountsOn
  <2>2. Written(r).contact[c] # q.ask.contact[c]
    BY <1>2, <2>1 DEF MovedBy
  <2>3. docs[u].contact[c] # q.ask.contact[c]
    BY <1>2, <1>3, <2>1 DEF Sound, ContactsChecked
  <2> QED
    BY <1>1, <1>2, <2>2, <2>3
<1>8. n.op = "put" /\ n.ask.branches = Keep /\ "branches" \notin n.moved
        => n.branches = docs'[n.target].branches
  <2> SUFFICES ASSUME n.op = "put", n.ask.branches = Keep, "branches" \notin n.moved
      PROVE  n.branches = docs'[n.target].branches
    OBVIOUS
  <2>1. "branches" \in CountsOn(q)
    BY <1>2 DEF CountsOn
  <2>2. q.target = r.target => Written(r).branches = docs[r.target].branches
    BY <1>2, <2>1 DEF MovedBy
  <2>3. q.branches = docs[q.target].branches
    BY <1>2, <1>3 DEF Sound, BranchesLoaded
  <2> QED
    BY <1>1, <1>2, <1>3, <2>2, <2>3
<1> QED
  BY <1>4, <1>5, <1>6, <1>7, <1>8
     DEF n, Sound, Shaped, OwnerChecked, ActiveChecked, ContactsChecked, BranchesLoaded, IsOwner,
         IsActiveOwner

LEMMA CommitSteps ==
  ASSUME AccountsInv, NEW w \in Workers, Commit(w)
  PROVE  AccountsInv'
<1>1. OwnersRemain'
  BY CommitKeepsOwner, CommitKeepsActiveOwner DEF OwnersRemain
<1>2. ASSUME NEW v \in Workers, request'[v] # Idle PROVE Sound(request[v])'
  <2>1. v # w /\ request'[v] = Note(request[w], request[v])
    BY <1>2, CommitFacts
  <2>2. request[v] \in Requests
    BY <1>2, <2>1 DEF Note, AccountsInv, TypeOK
  <2> QED
    BY <2>1, <2>2, CommitKeepsOthersSound
<1>3. RequestsInv'
  BY <1>2 DEF RequestsInv
<1> QED
  BY <1>1, <1>3, CommitTypes, CommitKeepsUnique DEF AccountsInv

-----------------------------------------------------------------------------

LEMMA InitInv == Init => AccountsInv
<1> SUFFICES ASSUME Init PROVE AccountsInv
  OBVIOUS
<1>1. PICK o \in Users, x \in Users :
        docs = [u \in Users |-> IF u = o THEN [Newcomer EXCEPT !.role = "owner"]
                                ELSE IF u = x THEN [Newcomer EXCEPT !.role = "panda"]
                                ELSE Absent]
  BY DEF Init
<1>2. ASSUME NEW role \in Roles \cup {None}
      PROVE  LET d == [Newcomer EXCEPT !.role = role] IN
             /\ d \in Accounts /\ d.role = role /\ d.status = "active"
             /\ \A c \in Contacts : d.contact[c] = None
  BY DEF Newcomer, Accounts, Roles, Statuses
<1>3. "owner" \in Roles /\ "panda" \in Roles
  BY DEF Roles
<1>4. /\ docs \in [Users -> Accounts]
      /\ docs[o].role = "owner" /\ docs[o].status = "active"
      /\ \A u \in Users : \A c \in Contacts : docs[u].contact[c] = None
  BY <1>1, <1>2, <1>3 DEF Absent
<1>5. TypeOK
  BY <1>4 DEF Init, TypeOK
<1>6. OwnersRemain /\ ContactsUnique
  BY <1>4 DEF OwnersRemain, ContactsUnique, IsOwner, IsActiveOwner
<1>7. RequestsInv
  BY DEF Init, RequestsInv
<1> QED
  BY <1>5, <1>6, <1>7 DEF AccountsInv

LEMMA StepInv == AccountsInv /\ [Next]_vars => AccountsInv'
<1>1. ASSUME AccountsInv, Next PROVE AccountsInv'
  <2>1. PICK w \in Workers :
          \/ \E u, t \in Users, ask \in Asks :
               \/ \E op \in {"create", "profile", "role", "status", "remove"} :
                    Begin(w, op, u, t, ask)
               \/ Load(w, u, t, ask)
          \/ Check(w) \/ Commit(w) \/ End(w)
    BY <1>1 DEF Next, Create, UpdateOwnProfile, UpdateRole, UpdateStatus, Remove
  <2>2. CASE End(w)
    BY <1>1, <2>2, OneRequestMoves DEF End
  <2> QED
    BY <1>1, <2>1, <2>2, BeginSteps, LoadSteps, CheckSteps, CommitSteps
<1>2. ASSUME AccountsInv, UNCHANGED vars PROVE AccountsInv'
  BY <1>2 DEF vars, AccountsInv, TypeOK, OwnersRemain, ContactsUnique, RequestsInv, Sound, Shaped,
              OwnerChecked, ActiveChecked, ContactsChecked, BranchesLoaded, IsOwner, IsActiveOwner
<1> QED
  BY <1>1, <1>2

THEOREM AccountsInvariant == Spec => []AccountsInv
BY InitInv, StepInv, PTL DEF Spec

\* Without an excuse an owner remains, and an active one.
THEOREM SomebodyOwns == Spec => []OwnersRemain
<1>1. AccountsInv => OwnersRemain
  BY DEF AccountsInv
<1> QED
  BY <1>1, AccountsInvariant, PTL

\* Indexed contacts are unique always, the others unless two wrote at once.
THEOREM NoSharedContacts == Spec => []ContactsUnique
<1>1. AccountsInv => ContactsUnique
  BY DEF AccountsInv
<1> QED
  BY <1>1, AccountsInvariant, PTL

\* Who is edited stays in his branches, unless he was moved meanwhile.
THEOREM EditsDoNotMove == Spec => BranchesMoveWhenAsked
<1>1. AccountsInv /\ [Next]_vars =>
        [\A w \in Workers :
           LET r == request[w] IN
           r.step = "write" /\ r.op # "create" /\ r.ask.branches = Keep
             /\ docs'[r.target] # docs[r.target] /\ request'[w] = Idle
             /\ docs'[r.target].role # None
           => docs'[r.target].branches = docs[r.target].branches \/ "branches" \in r.moved]_vars
  <2> SUFFICES ASSUME AccountsInv, Next, NEW w \in Workers,
                      request[w].step = "write", request[w].op # "create",
                      request[w].ask.branches = Keep, request'[w] = Idle,
                      docs'[request[w].target] # docs[request[w].target],
                      docs'[request[w].target].role # None
      PROVE  \/ docs'[request[w].target].branches = docs[request[w].target].branches
             \/ "branches" \in request[w].moved
    OBVIOUS
  <2> DEFINE r == request[w]
  <2>1. PICK v \in Workers : Commit(v)
    BY DEF Next, Create, UpdateOwnProfile, UpdateRole, UpdateStatus, Remove, Begin, Load, Check, End
  <2>2. r \in Requests
    BY DEF AccountsInv, TypeOK, Idle
  <2>3. v = w
    <3> SUFFICES ASSUME v # w PROVE FALSE
      OBVIOUS
    <3>1. Note(request[v], r) \in Requests
      BY <2>1, <2>2, CommitFacts, NoteFields
    <3> QED
      BY <2>1, <3>1, CommitFacts, RequestIsNotIdle
  <2>4. r.target \in Users /\ docs'[r.target] = Written(r) /\ Sound(r)
    BY <2>1, <2>3, CommitFacts
  <2>5. r.op # "remove"
    BY <2>2, <2>4, WrittenFields DEF AccountsInv
  <2>6. CASE r.op = "put"
    BY <2>2, <2>4, <2>6, WrittenFields DEF AccountsInv, Sound, BranchesLoaded
  <2>7. CASE r.op # "put"
    BY <2>2, <2>4, <2>5, <2>7, WrittenFields DEF AccountsInv
  <2> QED
    BY <2>6, <2>7
<1> QED
  BY <1>1, AccountsInvariant, PTL DEF Spec, BranchesMoveWhenAsked
=============================================================================
