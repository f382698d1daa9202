------------------------------- MODULE Accounts -------------------------------
(***************************************************************************)
(* UsersService: how staff accounts are created, edited, promoted, blocked *)
(* and removed by requests that overlap.  A request loads its target,      *)
(* checks (uniqueness, the last owner), and writes in a later database     *)
(* call.  What courses, groups and lessons ask of a user is in Catalog,    *)
(* passwords and sessions are in Sessions.                                 *)
(***************************************************************************)
EXTENDS Naturals, FiniteSets

CONSTANTS
  Users,      \* _ids
  Workers,    \* requests in flight at the same time
  Branches,
  Contacts,   \* username, email, telegramId, phoneNumber
  Indexed,    \* those with a unique index: all but phoneNumber
  Values,     \* values of a contact
  Asks,       \* the bodies requests come with
  Keep,       \* a field the body leaves out
  None        \* a contact that is not set; the role of nobody

Roles == {"owner", "admin", "teacher", "panda", "student"}
Assignable == {"owner", "admin", "teacher"}
SystemWide == {"owner", "panda"}
Managers == SystemWide \cup {"admin"}
Statuses == {"active", "inactive", "blocked"}

AskSpace ==
  [role : Assignable \cup {Keep}, status : Statuses \cup {Keep},
   contact : [Contacts -> Values \cup {Keep, None}],
   branches : {Keep} \cup SUBSET Branches]

ASSUME AsksAssumption == Asks \subseteq AskSpace /\ Indexed \subseteq Contacts
ASSUME MarksAssumption ==
  /\ None \notin Values \cup Roles \cup Statuses
  /\ Keep \notin Values \cup Roles \cup Statuses \cup {None}
  /\ \A b \in SUBSET Branches : Keep # b /\ None # b
ASSUME UsersAssumption == IsFiniteSet(Users)

VARIABLES
  docs,     \* the users collection
  request,  \* what each worker is doing
  excused   \* rules that a write has broken in a way the code does not prevent

vars == <<docs, request, excused>>

Accounts ==
  [role : Roles \cup {None}, status : Statuses,
   contact : [Contacts -> Values \cup {None}], branches : SUBSET Branches]

Newcomer == [role |-> "teacher", status |-> "active",
             contact |-> [c \in Contacts |-> None], branches |-> {}]

Absent == [Newcomer EXCEPT !.role = None]

Exists(u) == docs[u].role # None
IsOwner(u) == docs[u].role = "owner"
IsActiveOwner(u) == IsOwner(u) /\ docs[u].status = "active"

Idle == [step |-> "idle"]

\* An owner, and perhaps one who has all rights without being one: no
\* request gives that role.
Init ==
  /\ \E o, x \in Users :
       docs = [u \in Users |->
                 IF u = o THEN [Newcomer EXCEPT !.role = "owner"]
                 ELSE IF u = x THEN [Newcomer EXCEPT !.role = "panda"]
                 ELSE Absent]
  /\ request = [w \in Workers |-> Idle]
  /\ excused = {}

-----------------------------------------------------------------------------
(* What a request may do, and to whom *)

OnlyContacts(ask) == ask.role = Keep /\ ask.status = Keep /\ ask.branches = Keep

NoContacts(ask) == \A c \in Contacts : ask.contact[c] = Keep

\* What the routes, their roles and the bodies' classes let through.
Admitted(op, u, t, ask) ==
  IF op = "profile" THEN t = u /\ OnlyContacts(ask)
  ELSE /\ docs[u].role \in Managers
       /\ op = "put" => t # u \/ docs[u].role \in SystemWide
       /\ op = "role" => /\ ask.role # Keep /\ ask.status = Keep
                         /\ ask.branches = Keep /\ NoContacts(ask)
       /\ op = "status" => /\ t # u /\ ask.status # Keep /\ ask.role = Keep
                           /\ ask.branches = Keep /\ NoContacts(ask)
       /\ op = "remove" => t # u /\ OnlyContacts(ask) /\ NoContacts(ask)

\* assertActorCanManageTarget.  Staff of a branch changes roles and statuses
\* by their own endpoints only.
Manages(op, u, t, ask) ==
  docs[u].role = "admin" =>
    /\ docs[u].branches \cap docs[t].branches # {}
    /\ op = "put" => ask.role = Keep /\ ask.status = Keep

\* assertActorCanAssignBranches: the staff of a branch gives out its own
\* branches, and does not leave a user without.
MayAssign(op, u, ask) ==
  docs[u].role = "admin" =>
    /\ docs[u].branches # {}
    /\ ask.branches # Keep => /\ ask.branches \subseteq docs[u].branches
                              /\ ask.branches = {} => op = "create"

\* The actor is who the access token names, and stands as he does now.
MayAsk(op, u, t, ask) ==
  /\ Exists(u) /\ docs[u].status = "active"
  /\ Admitted(op, u, t, ask)
  /\ op # "create" => Exists(t)
  /\ op \in {"create", "put"} => MayAssign(op, u, ask)
  /\ op \notin {"create", "profile"} => Manages(op, u, t, ask)

-----------------------------------------------------------------------------
(* The checks *)

Named(ask) == {c \in Contacts : ask.contact[c] \notin {Keep, None}}

\* Mutant: the number is left to the index, which it does not have.
UniqueButForPhone(r) ==
  \A c \in Named(r.ask) \cap Indexed, u \in Users :
    docs[u].contact[c] = r.ask.contact[c] => u = r.target /\ r.op # "create"

\* ensureUniqueFields.
Unique(r) ==
  \A c \in Named(r.ask), u \in Users :
    docs[u].contact[c] = r.ask.contact[c] => u = r.target /\ r.op # "create"

\* Mutant: the last owner may go when he is blocked.
LastOwnerStaysActive(t) ==
  IsActiveOwner(t) => Cardinality({u \in Users : IsOwner(u)}) > 1

\* ensureLastOwnerRoleIsProtected, for a role other than owner: owners of any
\* status count.
NotLastOwner(t) == IsOwner(t) => Cardinality({u \in Users : IsOwner(u)}) > 1

\* ensureLastOwnerStatusIsProtected, for a status other than active.
NotLastActiveOwner(t) ==
  IsOwner(t) => Cardinality({u \in Users : IsActiveOwner(u)}) > 1

Passes(r) ==
  CASE r.op \in {"create", "put", "profile"} -> Unique(r)
    [] r.op = "role" -> r.ask.role # "owner" => NotLastOwner(r.target)
    [] r.op = "status" -> r.ask.status # "active" => NotLastActiveOwner(r.target)
    [] r.op = "remove" -> NotLastOwner(r.target)

Overlay(new, old) == IF new = Keep THEN old ELSE new

\* Mutant: a body without branches empties them.
BranchesAsked(op, u, t, ask) == Overlay(ask.branches, {})

\* What a create or a PUT will write: a new user of the staff of a branch
\* gets its branches, a PUT without branches keeps those just loaded.
BranchesToWrite(op, u, t, ask) ==
  IF op = "put" THEN Overlay(ask.branches, docs[t].branches)
  ELSE LET asked == Overlay(ask.branches, {}) IN
       IF docs[u].role = "admin" /\ asked = {} THEN docs[u].branches ELSE asked

Asking(op, u, t, ask) ==
  [step |-> "write", op |-> op, target |-> t,
   ask |-> IF op = "create" THEN [ask EXCEPT !.branches = Keep] ELSE ask,
   branches |-> IF op \in {"create", "put"} THEN BranchesToWrite(op, u, t, ask) ELSE {},
   moved |-> {}]

\* Nothing is read before the checks of these that is not read again there,
\* but the rights of the actor.
Begin(w, op, u, t, ask) ==
  /\ request[w] = Idle
  /\ MayAsk(op, u, t, ask)
  /\ Passes(Asking(op, u, t, ask))
  /\ request' = [request EXCEPT ![w] = Asking(op, u, t, ask)]
  /\ UNCHANGED <<docs, excused>>

Create(w, u, t, ask) == Begin(w, "create", u, t, ask)
UpdateOwnProfile(w, u, t, ask) == Begin(w, "profile", u, t, ask)
UpdateRole(w, u, t, ask) == Begin(w, "role", u, t, ask)
UpdateStatus(w, u, t, ask) == Begin(w, "status", u, t, ask)
Remove(w, u, t, ask) == Begin(w, "remove", u, t, ask)

\* A PUT loads its target, checks in later calls, and writes back the branches
\* it loaded.
Load(w, u, t, ask) ==
  /\ request[w] = Idle
  /\ MayAsk("put", u, t, ask)
  /\ request' = [request EXCEPT ![w] = [Asking("put", u, t, ask) EXCEPT !.step = "check"]]
  /\ UNCHANGED <<docs, excused>>

Check(w) ==
  /\ request[w].step = "check"
  /\ Passes(request[w])
  /\ request' = [request EXCEPT ![w].step = "write"]
  /\ UNCHANGED <<docs, excused>>

-----------------------------------------------------------------------------
(* The write *)

Written(r) ==
  IF r.op = "remove" THEN Absent
  ELSE LET d == IF r.op = "create" THEN Newcomer ELSE docs[r.target] IN
       [role |-> Overlay(r.ask.role, d.role),
        status |-> Overlay(r.ask.status, d.status),
        contact |-> [c \in Contacts |-> Overlay(r.ask.contact[c], d.contact[c])],
        branches |-> IF r.op \in {"create", "put"} THEN r.branches ELSE d.branches]

\* The _id of an insert is new, the document of an update is there, and the
\* unique indexes hold.
Lands(r) ==
  /\ Exists(r.target) <=> r.op # "create"
  /\ \A c \in Indexed, u \in Users \ {r.target} :
       Written(r).contact[c] # None => docs[u].contact[c] # Written(r).contact[c]

TakesOwner(r) == IsOwner(r.target) /\ Written(r).role # "owner"

TakesActiveOwner(r) ==
  IsActiveOwner(r.target) /\ (Written(r).role # "owner" \/ Written(r).status # "active")

\* Rules no check of this request stands for: its check is out of date, or it
\* has none.
Breaks(r) ==
  {c \in Named(r.ask) : c \in r.moved}
    \cup (IF TakesOwner(r) /\ (r.op = "put" \/ "owner" \in r.moved)
          THEN {"owner"} ELSE {})
    \cup (IF TakesActiveOwner(r) /\ (r.op # "status" \/ "active" \in r.moved)
          THEN {"active"} ELSE {})

\* What a request counts on from its load and its checks to its write.
CountsOn(q) ==
  (IF q.step # "write" THEN {}
   ELSE Named(q.ask)
     \cup (IF q.op = "remove" \/ (q.op = "role" /\ q.ask.role # "owner")
           THEN {"owner"} ELSE {})
     \cup (IF q.op = "status" /\ q.ask.status # "active" THEN {"active"} ELSE {}))
  \cup (IF q.op = "put" /\ q.ask.branches = Keep THEN {"branches"} ELSE {})

\* What request q would see differently after r.
MovedBy(r, q) ==
  (IF TakesOwner(r) THEN {"owner"} ELSE {})
    \cup (IF TakesActiveOwner(r) THEN {"active"} ELSE {})
    \cup {c \in Named(q.ask) : Written(r).contact[c] = q.ask.contact[c]}
    \cup (IF q.target = r.target /\ Written(r).branches # docs[r.target].branches
          THEN {"branches"} ELSE {})

Note(r, q) ==
  IF q = Idle THEN q
  ELSE [q EXCEPT !.moved = @ \cup (CountsOn(q) \cap MovedBy(r, q))]

Commit(w) ==
  LET r == request[w] IN
  /\ r.step = "write"
  /\ Lands(r)
  /\ docs' = [docs EXCEPT ![r.target] = Written(r)]
  /\ excused' = excused \cup Breaks(r)
  /\ request' = [v \in Workers |-> IF v = w THEN Idle ELSE Note(r, request[v])]

\* Refused, or cut off.
End(w) ==
  /\ request[w] # Idle
  /\ request' = [request EXCEPT ![w] = Idle]
  /\ UNCHANGED <<docs, excused>>

-----------------------------------------------------------------------------

Next ==
  \E w \in Workers :
    \/ \E u, t \in Users, ask \in Asks :
         \/ Create(w, u, t, ask) \/ UpdateOwnProfile(w, u, t, ask)
         \/ UpdateRole(w, u, t, ask) \/ UpdateStatus(w, u, t, ask)
         \/ Remove(w, u, t, ask)
         \/ Load(w, u, t, ask)
    \/ Check(w) \/ Commit(w) \/ End(w)

Spec == Init /\ [][Next]_vars

-----------------------------------------------------------------------------

Requests ==
  [step : {"check", "write"},
   op : {"create", "put", "profile", "role", "status", "remove"},
   target : Users, ask : AskSpace, branches : SUBSET Branches,
   moved : SUBSET (Contacts \cup {"owner", "active", "branches"})]

TypeOK ==
  /\ docs \in [Users -> Accounts]
  /\ request \in [Workers -> {Idle} \cup Requests]
  /\ excused \subseteq Contacts \cup {"owner", "active"}

\* 'At least one owner must remain active in the system' and 'At least one
\* active owner must remain in the system': with requests in any order, no
\* owner is left only if two requests that each take one away overlap, or a
\* PUT of the whole user does it; no active one, further, only if a removal
\* or a change of role counted owners who are not active.
OwnersRemain ==
  /\ (\A u \in Users : ~IsOwner(u)) => "owner" \in excused
  /\ (\A u \in Users : ~IsActiveOwner(u)) => "active" \in excused

\* Two accounts share a username, address, Telegram id or phone number never
\* where there is an index, and elsewhere only if both wrote it at once:
\* whatever is cleared, changed, removed and taken over.
ContactsUnique ==
  \A c \in Contacts \ (excused \ Indexed) : \A u, v \in Users :
    docs[u].contact[c] = docs[v].contact[c] /\ docs[u].contact[c] # None => u = v

\* A PUT that does not name branches writes back those it loaded: it moves
\* the user only if someone else did meanwhile.
BranchesMoveWhenAsked ==
  [][\A w \in Workers :
       LET r == request[w] IN
       r.step = "write" /\ r.op # "create" /\ r.ask.branches = Keep
         /\ docs'[r.target] # docs[r.target] /\ request'[w] = Idle
         /\ docs'[r.target].role # None
       => docs'[r.target].branches = docs[r.target].branches \/ "branches" \in r.moved]_vars
=============================================================================
