---------------------------- MODULE SessionsProofs ----------------------------
(***************************************************************************)
(* What holds of Sessions for any users, tokens, clock and lifetime and    *)
(* any number of requests and changes.  The inductive invariant has these  *)
(* parts: what rows and requests refer to (Known), what the clock says of  *)
(* them (Timed), how a login that is not forked passes from one row to the *)
(* next (Unforked), what a change of password leaves of a login            *)
(* (EndedInv), when tokens were signed (Dated), and who is let in          *)
(* (Admitted).                                                             *)
(***************************************************************************)
EXTENDS Sessions, Integers, TLAPS

Used(t) == sessions[t].state # "unused"

RowsKnown ==
  \A t \in Tokens :
    /\ ~Used(t) => sessions[t] = NoRow
    /\ Used(t) => /\ sessions[t].user \in Users
                  /\ sessions[t].login \in Tokens
                  /\ Used(sessions[t].login)
                  /\ sessions[sessions[t].login].user = sessions[t].user

\* A request comes with a token that was stored for its user.  The next one is
\* not there before it is stored, belongs to the same login from then on, and is
\* in nobody's hands until the old one is revoked.
RequestKnown(r) ==
  /\ r.op = "idle" => r = Idle
  /\ r.token # None => Used(r.token) /\ sessions[r.token].user = r.user
  /\ r.op = "find" => r.token \in held
  /\ r.op = "store" => ~Used(r.next)
  /\ r.op = "revoke" /\ r.next # None =>
       /\ Used(r.next) /\ r.next \notin held
       /\ sessions[r.next].login = sessions[r.token].login
       /\ sessions[r.next].user = r.user
  /\ r.op \notin {"store", "revoke"} => r.next = None

\* Two requests never sign the same token.
OwnNext ==
  \A v, w \in Workers :
    request[v].next # None /\ request[v].next = request[w].next => v = w

Known ==
  /\ RowsKnown
  /\ \A w \in Workers : RequestKnown(request[w])
  /\ OwnNext
  /\ \A t \in held : Used(t)
  /\ ReplacedByStored

RowTimed(t) ==
  /\ Used(t) => sessions[t].signedAt <= now
  /\ rowTtl = Ttl =>
       /\ Stored(t) => sessions[t].signedAt + Ttl <= sessions[t].expiresAt
       /\ Used(t) /\ ~Stored(t) => WholeSecond(sessions[t].signedAt) + Ttl <= now
  /\ rowTtl = 0 =>
       /\ sessions[t].expiresAt <= now
       /\ sessions[t].replacedBy = None

\* Where rows are born expired, no refresh and no logout gets past the comparison.
RequestTimed(r) ==
  /\ r.at <= now
  /\ rowTtl = 0 =>
       /\ r.op \in {"load", "sign", "store"} => r.kind = "login"
       /\ r.op = "revoke" => r.next = None

Timed ==
  /\ \A t \in Tokens : RowTimed(t)
  /\ \A w \in Workers : RequestTimed(request[w])

\* A login that is not forked has one refresh at a time, whose token, or the one
\* it has stored, is the only live one; and two only then.
Refreshes(w, l) == Refreshing(w) /\ sessions[request[w].token].login = l

OneRefresh(l) == \A v, w \in Workers : Refreshes(v, l) /\ Refreshes(w, l) => v = w

LiveOfRefresh(l) ==
  \A w \in Workers : \A t \in Tokens :
    Refreshes(w, l) /\ LiveSession(t) /\ sessions[t].login = l =>
      t = request[w].token \/ t = request[w].next

LivePair(l) ==
  \A s, t \in Tokens :
    /\ LiveSession(s) /\ LiveSession(t) /\ s # t
    /\ sessions[s].login = l /\ sessions[t].login = l
    => \E w \in Workers : Refreshes(w, l) /\ request[w].op = "revoke"

Unforked == \A l \in Tokens : l \notin forked => OneRefresh(l) /\ LiveOfRefresh(l) /\ LivePair(l)

\* A login that was ended has nothing left that lives or could come to life, or
\* is about to be revoked.
Pending(u) ==
  \E w \in Workers :
    /\ request[w].op = "revokeAll" /\ request[w].kind = "change"
    /\ request[w].user = u

Dead(l) ==
  /\ \A t \in Tokens : LiveSession(t) => sessions[t].login # l
  /\ ~StillRefreshed(sessions[l].user, l)

EndedInv == \A l \in ended : Used(l) /\ (Pending(sessions[l].user) \/ Dead(l))

\* A token that is outdated, stored or not, was signed by the moment the password
\* was stamped; so was what a change that is about to be written will outdate.
OutdatedRows ==
  \A t \in outdated :
    IF Used(t) THEN sessions[t].signedAt <= users[sessions[t].user].changedAt
    ELSE \E w \in Workers :
           /\ request[w].op = "store" /\ request[w].next = t
           /\ request[w].at <= users[request[w].user].changedAt

StampedAfter(w) ==
  request[w].op = "save" =>
    /\ \A t \in Tokens :
         Used(t) /\ sessions[t].user = request[w].user /\ t \notin gap[w] =>
           sessions[t].signedAt <= request[w].at
    /\ \A v \in Workers :
         /\ request[v].op = "store" /\ request[v].user = request[w].user
         /\ request[v].next \notin gap[w]
         => request[v].at <= request[w].at

Dated ==
  /\ OutdatedRows
  /\ \A w \in Workers : StampedAfter(w)
  /\ \A w \in Workers : request[w].op # "save" => gap[w] = {}

Admitted ==
  \A w \in Workers :
    request[w].op \in {"sign", "store"} =>
      users[request[w].user].active \/ w \in overtaken

SessionsInv ==
  TypeOK /\ Known /\ Timed /\ Unforked /\ EndedInv /\ Dated /\ Admitted

-----------------------------------------------------------------------------
(* Records *)

\* The worker that takes a step, and the others.
LEMMA GotoTyped ==
  ASSUME TypeOK, NEW w \in Workers, NEW r \in Request, RequestOK(r), Goto(w, r)
  PROVE  /\ request' \in [Workers -> Request]
         /\ \A v \in Workers : RequestOK(request'[v])
         /\ request'[w] = r
         /\ \A v \in Workers \ {w} : request'[v] = request[v]
<1>1. request \in [Workers -> Request] /\ \A v \in Workers : RequestOK(request[v])
  BY DEF TypeOK
<1>2. request' = [request EXCEPT ![w] = r]
  BY DEF Goto
<1> QED
  BY <1>1, <1>2

\* What requests, rows and users hold.
LEMMA Fields ==
  ASSUME TypeOK
  PROVE  /\ \A w \in Workers :
              /\ request[w] \in Request /\ RequestOK(request[w]) /\ request[w].at \in Nat
              /\ request[w].token \in Tokens \cup {None}
              /\ request[w].next \in Tokens \cup {None}
         /\ \A t \in Tokens : sessions[t] \in Row
         /\ \A u \in Users : /\ users[u].active \in BOOLEAN /\ users[u].version \in Nat
                             /\ users[u].changedAt \in Nat
         /\ now \in Nat /\ Ttl \in Nat /\ 0 < Ttl
         /\ None \notin Tokens
BY TtlAssumption, NoneAssumption DEF TypeOK, Request

\* The requests that have only a last step to do, and those that begin.
LEMMA LastSteps ==
  /\ Idle \in Request /\ RequestOK(Idle)
  /\ Idle.op = "idle" /\ Idle.kind = "none" /\ Idle.user = None
  /\ Idle.token = None /\ Idle.next = None /\ Idle.at = 0
  /\ \A u \in Users, kind \in {"none", "change"} : LET r == RevokingAll(u, kind) IN
       /\ r \in Request /\ RequestOK(r)
       /\ r.op = "revokeAll" /\ r.kind = kind /\ r.user = u
       /\ r.token = None /\ r.next = None /\ r.at = 0
  /\ \A u \in Users, t \in Tokens, n \in Tokens \cup {None} : LET r == Revoking(u, t, n) IN
       /\ r \in Request /\ RequestOK(r)
       /\ r.op = "revoke" /\ r.kind = "none" /\ r.user = u
       /\ r.token = t /\ r.next = n /\ r.at = 0
BY DEF RevokingAll, Revoking, Serving, Idle, Request, RequestOK

LEMMA FirstSteps ==
  ASSUME NEW u \in Users
  PROVE  /\ LET r == Serving("load", "login", u, None) IN
            /\ r \in Request /\ RequestOK(r)
            /\ r.op = "load" /\ r.kind = "login" /\ r.user = u
            /\ r.token = None /\ r.next = None /\ r.at = 0
         /\ \A kind \in {"change", "reset"} :
            LET r == Serving("stamp", kind, u, None) IN
            /\ r \in Request /\ RequestOK(r)
            /\ r.op = "stamp" /\ r.kind = kind /\ r.user = u
            /\ r.token = None /\ r.next = None /\ r.at = 0
         /\ \A t \in Tokens, kind \in {"refresh", "logout"} :
            LET r == Serving("find", kind, u, t) IN
            /\ r \in Request /\ RequestOK(r)
            /\ r.op = "find" /\ r.kind = kind /\ r.user = u
            /\ r.token = t /\ r.next = None /\ r.at = 0
BY DEF Serving, Request, RequestOK

\* A request that has signed t, or has taken passwordChangedAt.
HasSigned(r, t, n) == [r EXCEPT !.op = "store", !.next = t, !.at = n]
HasStamped(r, n) == [r EXCEPT !.op = "save", !.at = n]

LEMMA Signed ==
  ASSUME NEW r \in Request, NEW t \in Tokens, NEW n \in Nat
  PROVE  LET q == HasSigned(r, t, n) IN
         /\ q \in Request
         /\ q.op = "store" /\ q.kind = r.kind /\ q.user = r.user
         /\ q.token = r.token /\ q.next = t /\ q.at = n
<1> DEFINE a == [r EXCEPT !.op = "store"]
           b == [a EXCEPT !.next = t]
           c == [b EXCEPT !.at = n]
<1>1. /\ a \in Request /\ a.op = "store" /\ a.kind = r.kind /\ a.user = r.user
      /\ a.token = r.token
  BY DEF Request
<1> HIDE DEF a
<1>2. /\ b \in Request /\ b.op = "store" /\ b.kind = r.kind /\ b.user = r.user
      /\ b.token = r.token /\ b.next = t
  BY <1>1 DEF Request
<1> HIDE DEF b
<1>3. /\ c \in Request /\ c.op = "store" /\ c.kind = r.kind /\ c.user = r.user
      /\ c.token = r.token /\ c.next = t /\ c.at = n
  BY <1>2 DEF Request
<1>4. c = HasSigned(r, t, n)
  BY Zenon DEF a, b, HasSigned
<1> QED
  BY <1>3, <1>4

LEMMA Stamped ==
  ASSUME NEW r \in Request, NEW n \in Nat
  PROVE  LET q == HasStamped(r, n) IN
         /\ q \in Request
         /\ q.op = "save" /\ q.kind = r.kind /\ q.user = r.user
         /\ q.token = r.token /\ q.next = r.next /\ q.at = n
<1> DEFINE a == [r EXCEPT !.op = "save"]
           b == [a EXCEPT !.at = n]
<1>1. /\ a \in Request /\ a.op = "save" /\ a.kind = r.kind /\ a.user = r.user
      /\ a.token = r.token /\ a.next = r.next
  BY DEF Request
<1> HIDE DEF a
<1>2. /\ b \in Request /\ b.op = "save" /\ b.kind = r.kind /\ b.user = r.user
      /\ b.token = r.token /\ b.next = r.next /\ b.at = n
  BY <1>1 DEF Request
<1>3. b = HasStamped(r, n)
  BY Zenon DEF a, HasStamped
<1> QED
  BY <1>2, <1>3

\* A request that goes one read further.
LEMMA Advanced ==
  ASSUME NEW r \in Request, NEW o \in {"compare", "load", "sign"}
  PROVE  LET q == [r EXCEPT !.op = o] IN
         /\ q \in Request
         /\ q.op = o /\ q.kind = r.kind /\ q.user = r.user
         /\ q.token = r.token /\ q.next = r.next /\ q.at = r.at
BY DEF Request

\* A row as revokeSession and the TTL index leave it.
LEMMA RevokedRow ==
  ASSUME NEW row \in Row, NEW n \in Tokens \cup {None}
  PROVE  LET q == Revoked(row, n) IN
         /\ q \in Row /\ q.revoked = TRUE
         /\ q.replacedBy = IF n = None THEN row.replacedBy ELSE n
         /\ q.state = row.state /\ q.user = row.user /\ q.login = row.login
         /\ q.signedAt = row.signedAt /\ q.expiresAt = row.expiresAt
<1> DEFINE a == [row EXCEPT !.revoked = TRUE]
           m == IF n = None THEN row.replacedBy ELSE n
           b == [a EXCEPT !.replacedBy = m]
<1>1. /\ a \in Row /\ a.revoked = TRUE /\ a.replacedBy = row.replacedBy
      /\ a.state = row.state /\ a.user = row.user /\ a.login = row.login
      /\ a.signedAt = row.signedAt /\ a.expiresAt = row.expiresAt
  BY DEF Row
<1>m. m \in Tokens \cup {None}
  BY DEF Row
<1>2. Revoked(row, n) = b
  BY <1>1, Zenon DEF Revoked
<1> HIDE DEF a, m
<1>3. /\ b \in Row /\ b.revoked = TRUE /\ b.replacedBy = m
      /\ b.state = row.state /\ b.user = row.user /\ b.login = row.login
      /\ b.signedAt = row.signedAt /\ b.expiresAt = row.expiresAt
  BY <1>1, <1>m DEF Row
<1> QED
  BY <1>2, <1>3 DEF m

LEMMA RemovedRow ==
  ASSUME NEW row \in Row
  PROVE  LET q == [row EXCEPT !.state = "removed", !.revoked = FALSE,
                              !.replacedBy = None, !.expiresAt = 0] IN
         /\ q \in Row /\ q.state = "removed" /\ q.replacedBy = None /\ q.expiresAt = 0
         /\ q.user = row.user /\ q.login = row.login /\ q.signedAt = row.signedAt
<1> DEFINE a == [row EXCEPT !.state = "removed"]
           b == [a EXCEPT !.revoked = FALSE]
           c == [b EXCEPT !.replacedBy = None]
           d == [c EXCEPT !.expiresAt = 0]
<1>1. /\ a \in Row /\ a.state = "removed"
      /\ a.user = row.user /\ a.login = row.login /\ a.signedAt = row.signedAt
  BY DEF Row
<1> HIDE DEF a
<1>2. /\ b \in Row /\ b.state = "removed"
      /\ b.user = row.user /\ b.login = row.login /\ b.signedAt = row.signedAt
  BY <1>1 DEF Row
<1> HIDE DEF b
<1>3. /\ c \in Row /\ c.state = "removed" /\ c.replacedBy = None
      /\ c.user = row.user /\ c.login = row.login /\ c.signedAt = row.signedAt
  BY <1>2 DEF Row
<1> HIDE DEF c
<1>4. /\ d \in Row /\ d.state = "removed" /\ d.replacedBy = None /\ d.expiresAt = 0
      /\ d.user = row.user /\ d.login = row.login /\ d.signedAt = row.signedAt
  BY <1>3 DEF Row
<1>5. d = [row EXCEPT !.state = "removed", !.revoked = FALSE,
                      !.replacedBy = None, !.expiresAt = 0]
  BY Zenon DEF a, b, c
<1> QED
  BY <1>4, <1>5

\* What a new password changes.
LEMMA PasswordSet ==
  ASSUME TypeOK, NEW u \in Users, NEW n \in Nat,
         users' = [users EXCEPT ![u].version = @ + 1, ![u].changedAt = n]
  PROVE  /\ users' \in [Users -> [active : BOOLEAN, version : Nat, changedAt : Nat]]
         /\ users'[u].active = users[u].active /\ users'[u].changedAt = n
         /\ \A v \in Users \ {u} : users'[v] = users[v]
<1> DEFINE a == [users EXCEPT ![u].version = @ + 1]
           b == [a EXCEPT ![u].changedAt = n]
           User == [active : BOOLEAN, version : Nat, changedAt : Nat]
<1>1. /\ a \in [Users -> User] /\ a[u].active = users[u].active
      /\ \A v \in Users \ {u} : a[v] = users[v]
  BY DEF TypeOK
<1> HIDE DEF a
<1>2. /\ b \in [Users -> User] /\ b[u].active = a[u].active /\ b[u].changedAt = n
      /\ \A v \in Users \ {u} : b[v] = a[v]
  BY <1>1
<1>3. users' = b
  BY Zenon DEF a
<1> QED
  BY <1>1, <1>2, <1>3

-----------------------------------------------------------------------------
(* The steps of a request that touch no row *)

Quiet(w) ==
  \/ \E u \in Users : Login(w, u) \/ ChangePassword(w, u) \/ ResetPassword(w, u)
  \/ \E t \in Tokens : \/ Present(w, t, "refresh") \/ Present(w, t, "logout")
                       \/ Signs(w, t)
  \/ Finds(w) \/ Compares(w) \/ Loads(w) \/ Stamps(w) \/ Saves(w) \/ CutOff(w)

SameWork(r, q) == q.kind = r.kind /\ q.user = r.user /\ q.token = r.token

\* How a request r may become q without a row being touched.
Begins(q) ==
  /\ \/ q.op = "load" /\ q.kind = "login"
     \/ q.op = "stamp" /\ q.kind \in {"change", "reset"}
  /\ q.token = None /\ q.next = None /\ q.at = 0

Presents(q) ==
  /\ q.op = "find" /\ q.token \in held /\ q.token \in Tokens
  /\ q.user = sessions[q.token].user /\ q.next = None /\ q.at = 0

EndsAll(r, q) ==
  /\ q.op = "revokeAll" /\ r.op \in {"find", "load", "save"}
  /\ q.kind = "none" \/ (q.kind = "change" /\ r.op = "save" /\ r.kind = "change")
  /\ q.user = r.user /\ q.token = None /\ q.next = None /\ q.at = 0

EndsOne(r, q) ==
  /\ q.op = "revoke" /\ r.op \in {"compare", "load"}
  /\ q.kind = "none" /\ q.user = r.user /\ q.token = r.token /\ q.token \in Tokens
  /\ q.next = None /\ q.at = 0

Reads(r, q) ==
  /\ SameWork(r, q) /\ q.next = r.next /\ q.at = r.at
  /\ \/ r.op = "find" /\ q.op = "compare" /\ LiveSession(r.token)
     \/ r.op = "compare" /\ q.op = "load" /\ ~(sessions[r.token].expiresAt <= now)
     \/ r.op = "load" /\ q.op = "sign" /\ users[r.user].active

SignsOff(r, q) ==
  /\ r.op = "sign" /\ q.op = "store" /\ SameWork(r, q) /\ q.at = now
  /\ q.next \in Tokens /\ ~Used(q.next)
  /\ \A v \in Workers : request[v].next # q.next

StampsOff(r, q) ==
  /\ r.op = "stamp" /\ q.op = "save" /\ SameWork(r, q) /\ q.next = r.next /\ q.at = now

Moves(r, q) ==
  \/ q = Idle
  \/ r = Idle /\ (Begins(q) \/ Presents(q))
  \/ EndsAll(r, q) \/ EndsOne(r, q) \/ Reads(r, q) \/ SignsOff(r, q) \/ StampsOff(r, q)

LEMMA QuietMoves ==
  ASSUME TypeOK, Known, NEW w \in Workers, Quiet(w)
  PROVE  \E q \in Request :
           /\ RequestOK(q) /\ Goto(w, q) /\ Moves(request[w], q)
           /\ UNCHANGED <<rowTtl, sessions, held, now>>
<1> DEFINE r == request[w]
<1>0. /\ r \in Request /\ RequestOK(r) /\ now \in Nat /\ None \notin Tokens
      /\ r.op # "idle" => r.user \in Users
      /\ r.op \in {"find", "compare"} => r.token \in Tokens
  BY Fields DEF RequestOK
<1>1. ASSUME NEW u \in Users, Login(w, u) \/ ChangePassword(w, u) \/ ResetPassword(w, u)
      PROVE  \E q \in Request :
               /\ RequestOK(q) /\ Goto(w, q) /\ r = Idle /\ Begins(q)
               /\ UNCHANGED <<rowTtl, sessions, held, now>>
  <2>1. CASE Login(w, u)
    BY <2>1, FirstSteps DEF Login, Starts, Begins
  <2>2. CASE ChangePassword(w, u)
    BY <2>2, FirstSteps DEF ChangePassword, Starts, Begins
  <2>3. CASE ResetPassword(w, u)
    BY <2>3, FirstSteps DEF ResetPassword, Starts, Begins
  <2> QED
    BY <1>1, <2>1, <2>2, <2>3
<1>2. ASSUME NEW t \in Tokens, NEW kind \in {"refresh", "logout"}, Present(w, t, kind)
      PROVE  \E q \in Request :
               /\ RequestOK(q) /\ Goto(w, q) /\ r = Idle /\ Presents(q)
               /\ UNCHANGED <<rowTtl, sessions, held, now>>
  <2>1. sessions[t].user \in Users /\ t \in held
    BY <1>2 DEF Present, Known, RowsKnown
  <2> QED
    BY <1>2, <2>1, FirstSteps DEF Present, Starts, Presents
<1>3. ASSUME NEW t \in Tokens, Signs(w, t)
      PROVE  \E q \in Request :
               /\ RequestOK(q) /\ Goto(w, q) /\ SignsOff(r, q)
               /\ UNCHANGED <<rowTtl, sessions, held, now>>
  <2> DEFINE q == HasSigned(r, t, now)
  <2>1. /\ q \in Request /\ q.op = "store" /\ q.kind = r.kind /\ q.user = r.user
        /\ q.token = r.token /\ q.next = t /\ q.at = now
    BY <1>0, Signed
  <2>2. /\ Goto(w, q) /\ r.op = "sign" /\ UNCHANGED <<rowTtl, sessions, held, now>>
    BY <1>3, Zenon DEF Signs, HasSigned
  <2>3. ~Used(t) /\ \A v \in Workers : request[v].next # t
    BY <1>3 DEF Signs, Used
  <2> HIDE DEF q
  <2>4. RequestOK(q)
    BY <1>0, <2>1, <2>2 DEF RequestOK
  <2>5. SignsOff(r, q)
    BY <2>1, <2>2, <2>3 DEF SignsOff, SameWork
  <2> QED
    BY <2>1, <2>2, <2>4, <2>5
<1>4. ASSUME Finds(w)
      PROVE  \E q \in Request :
               /\ RequestOK(q) /\ Goto(w, q) /\ Moves(r, q)
               /\ UNCHANGED <<rowTtl, sessions, held, now>>
  <2> DEFINE q == [r EXCEPT !.op = "compare"]
  <2>0. r.op = "find" /\ r.user \in Users /\ UNCHANGED <<rowTtl, sessions, held, now>>
    BY <1>0, <1>4 DEF Finds
  <2>1. CASE ~Stored(r.token)
    <3>1. Goto(w, Idle)
      BY <1>4, <2>1 DEF Finds
    <3> QED
      BY <2>0, <3>1, LastSteps DEF Moves
  <2>2. CASE Stored(r.token) /\ sessions[r.token].revoked
    <3> DEFINE e == RevokingAll(r.user, "none")
    <3>1. Goto(w, e)
      BY <1>4, <2>2 DEF Finds
    <3>2. e \in Request /\ RequestOK(e) /\ EndsAll(r, e)
      BY <2>0, LastSteps DEF EndsAll
    <3> QED
      BY <2>0, <3>1, <3>2 DEF Moves
  <2>3. CASE LiveSession(r.token)
    <3>1. Goto(w, q)
      BY <1>4, <2>3 DEF Finds, LiveSession
    <3>2. /\ q \in Request /\ q.op = "compare" /\ q.kind = r.kind /\ q.user = r.user
          /\ q.token = r.token /\ q.next = r.next /\ q.at = r.at
      BY <1>0, Advanced
    <3> HIDE DEF q
    <3>3. RequestOK(q) /\ Reads(r, q)
      BY <1>0, <2>0, <2>3, <3>2 DEF RequestOK, Reads, SameWork
    <3> QED
      BY <2>0, <3>1, <3>2, <3>3 DEF Moves
  <2> QED
    BY <2>1, <2>2, <2>3 DEF LiveSession
<1>5. ASSUME Compares(w)
      PROVE  \E q \in Request :
               /\ RequestOK(q) /\ Goto(w, q) /\ Moves(r, q)
               /\ UNCHANGED <<rowTtl, sessions, held, now>>
  <2> DEFINE q == [r EXCEPT !.op = "load"]
             expired == sessions[r.token].expiresAt <= now
  <2>0. /\ r.op = "compare" /\ r.user \in Users /\ r.token \in Tokens
        /\ UNCHANGED <<rowTtl, sessions, held, now>>
    BY <1>0, <1>5 DEF Compares, Continues
  <2>1. CASE expired
    <3> DEFINE e == Revoking(r.user, r.token, None)
    <3>1. Goto(w, e)
      BY <1>5, <2>1 DEF Compares, Continues
    <3>2. e \in Request /\ RequestOK(e) /\ EndsOne(r, e)
      BY <2>0, LastSteps DEF EndsOne
    <3> QED
      BY <2>0, <3>1, <3>2 DEF Moves
  <2>2. CASE ~expired
    <3>1. Goto(w, q)
      BY <1>5, <2>2 DEF Compares, Continues
    <3>2. /\ q \in Request /\ q.op = "load" /\ q.kind = r.kind /\ q.user = r.user
          /\ q.token = r.token /\ q.next = r.next /\ q.at = r.at
      BY <1>0, Advanced
    <3> HIDE DEF q
    <3>3. RequestOK(q) /\ Reads(r, q)
      BY <1>0, <2>0, <2>2, <3>2 DEF RequestOK, Reads, SameWork
    <3> QED
      BY <2>0, <3>1, <3>2, <3>3 DEF Moves
  <2> QED
    BY <2>1, <2>2
<1>6. ASSUME Loads(w)
      PROVE  \E q \in Request :
               /\ RequestOK(q) /\ Goto(w, q) /\ Moves(r, q)
               /\ UNCHANGED <<rowTtl, sessions, held, now>>
  <2> DEFINE q == [r EXCEPT !.op = "sign"]
  <2>0. /\ r.op = "load" /\ r.user \in Users /\ UNCHANGED <<rowTtl, sessions, held, now>>
    BY <1>0, <1>6 DEF Loads, Continues
  <2>1. CASE Goto(w, Idle)
    BY <2>0, <2>1, LastSteps DEF Moves
  <2>2. CASE Goto(w, RevokingAll(r.user, "none"))
    <3>1. EndsAll(r, RevokingAll(r.user, "none"))
      BY <2>0, LastSteps DEF EndsAll
    <3> QED
      BY <2>0, <2>2, <3>1, LastSteps DEF Moves
  <2>3. CASE r.kind = "logout" /\ Goto(w, Revoking(r.user, r.token, None))
    <3>1. r.token \in Tokens
      BY <1>0, <2>3 DEF RequestOK
    <3>2. EndsOne(r, Revoking(r.user, r.token, None))
      BY <2>0, <3>1, LastSteps DEF EndsOne
    <3> QED
      BY <2>0, <2>3, <3>1, <3>2, LastSteps DEF Moves
  <2>4. CASE users[r.user].active /\ r.kind # "logout" /\ Goto(w, q)
    <3>1. /\ q \in Request /\ q.op = "sign" /\ q.kind = r.kind /\ q.user = r.user
          /\ q.token = r.token /\ q.next = r.next /\ q.at = r.at
      BY <1>0, Advanced
    <3> HIDE DEF q
    <3>2. RequestOK(q) /\ Reads(r, q)
      BY <1>0, <2>0, <2>4, <3>1 DEF RequestOK, Reads, SameWork
    <3> QED
      BY <2>0, <2>4, <3>1, <3>2 DEF Moves
  <2> QED
    BY <1>6, <2>1, <2>2, <2>3, <2>4 DEF Loads, Continues
<1>7. ASSUME Stamps(w)
      PROVE  \E q \in Request :
               /\ RequestOK(q) /\ Goto(w, q) /\ StampsOff(r, q)
               /\ UNCHANGED <<rowTtl, sessions, held, now>>
  <2> DEFINE q == HasStamped(r, now)
  <2>1. /\ q \in Request /\ q.op = "save" /\ q.kind = r.kind /\ q.user = r.user
        /\ q.token = r.token /\ q.next = r.next /\ q.at = now
    BY <1>0, Stamped
  <2>2. /\ Goto(w, q) /\ r.op = "stamp" /\ UNCHANGED <<rowTtl, sessions, held, now>>
    BY <1>7, Zenon DEF Stamps, Continues, HasStamped
  <2> HIDE DEF q
  <2>3. RequestOK(q) /\ StampsOff(r, q)
    BY <1>0, <2>1, <2>2 DEF RequestOK, StampsOff, SameWork
  <2> QED
    BY <2>1, <2>2, <2>3
<1>8. ASSUME Saves(w)
      PROVE  \E q \in Request :
               /\ RequestOK(q) /\ Goto(w, q) /\ Moves(r, q)
               /\ UNCHANGED <<rowTtl, sessions, held, now>>
  <2>0. /\ r.op = "save" /\ r.user \in Users /\ UNCHANGED <<rowTtl, sessions, held, now>>
    BY <1>0, <1>8 DEF Saves, Writes
  <2>1. CASE r.kind = "change"
    <3>1. Goto(w, RevokingAll(r.user, "change"))
      BY <1>8, <2>1 DEF Saves, Writes
    <3>2. EndsAll(r, RevokingAll(r.user, "change"))
      BY <2>0, <2>1, LastSteps DEF EndsAll
    <3> QED
      BY <2>0, <3>1, <3>2, LastSteps DEF Moves
  <2>2. CASE r.kind # "change"
    <3>1. Goto(w, Idle)
      BY <1>8, <2>2 DEF Saves, Writes
    <3> QED
      BY <2>0, <3>1, LastSteps DEF Moves
  <2> QED
    BY <2>1, <2>2
<1>9. ASSUME CutOff(w)
      PROVE  \E q \in Request :
               /\ RequestOK(q) /\ Goto(w, q) /\ Moves(r, q)
               /\ UNCHANGED <<rowTtl, sessions, held, now>>
  BY <1>9, LastSteps DEF CutOff, Moves
<1> HIDE DEF r
<1>10. \A q : (r = Idle /\ (Begins(q) \/ Presents(q))) \/ SignsOff(r, q) \/ StampsOff(r, q)
               => Moves(r, q)
  BY DEF Moves
<1> QED
  BY <1>1, <1>2, <1>3, <1>4, <1>5, <1>6, <1>7, <1>8, <1>9, <1>10, Zenon DEF Quiet, r

-----------------------------------------------------------------------------
(* The steps that touch rows *)

\* What revoking one session, or all of a user's, or removing one does.
LEMMA RevokesRows ==
  ASSUME TypeOK, Known, NEW w \in Workers, Revokes(w)
  PROVE  LET r == request[w] IN
         /\ r.op = "revoke" /\ r \in Request /\ r.token \in Tokens /\ Used(r.token)
         /\ r.user \in Users /\ sessions[r.token].user = r.user
         /\ r.next # None => /\ r.next \in Tokens /\ Used(r.next) /\ r.next \notin held
                             /\ sessions[r.next].login = sessions[r.token].login
                             /\ sessions[r.next].user = r.user
         /\ request'[w] = Idle /\ \A v \in Workers \ {w} : request'[v] = request[v]
         /\ \A t \in Tokens \ {r.token} : sessions'[t] = sessions[t]
         /\ ~Stored(r.token) => sessions'[r.token] = sessions[r.token]
         /\ Stored(r.token) => sessions'[r.token] = Revoked(sessions[r.token], r.next)
<1> DEFINE r == request[w]
<1>1. /\ r \in Request /\ RequestOK(r) /\ RequestKnown(r) /\ r.op = "revoke"
      /\ r.token \in Tokens /\ r.user \in Users /\ r.next \in Tokens \cup {None}
  BY Fields DEF Revokes, Known, RequestOK, Request
<1>2. r.token # None
  BY <1>1, NoneAssumption
<1>3. request'[w] = Idle /\ \A v \in Workers \ {w} : request'[v] = request[v]
  BY LastSteps, GotoTyped DEF Revokes
<1>4. /\ Stored(r.token) =>
           sessions' = [sessions EXCEPT ![r.token] = Revoked(sessions[r.token], r.next)]
      /\ ~Stored(r.token) => sessions' = sessions
  BY DEF Revokes
<1>5. /\ \A t \in Tokens \ {r.token} : sessions'[t] = sessions[t]
      /\ ~Stored(r.token) => sessions'[r.token] = sessions[r.token]
      /\ Stored(r.token) => sessions'[r.token] = Revoked(sessions[r.token], r.next)
  BY <1>1, <1>4 DEF TypeOK
<1> QED
  BY <1>1, <1>2, <1>3, <1>5 DEF RequestKnown

LEMMA RevokesAllRows ==
  ASSUME TypeOK, NEW w \in Workers, RevokesAll(w)
  PROVE  LET r == request[w] IN
         /\ r.op = "revokeAll" /\ r.user \in Users
         /\ request'[w] = Idle /\ \A v \in Workers \ {w} : request'[v] = request[v]
         /\ \A t \in Tokens :
              /\ sessions'[t] \in Row
              /\ sessions'[t].user = sessions[t].user /\ sessions'[t].login = sessions[t].login
              /\ sessions'[t].state = sessions[t].state
              /\ sessions'[t].replacedBy = sessions[t].replacedBy
              /\ sessions'[t].signedAt = sessions[t].signedAt
              /\ sessions'[t].expiresAt = sessions[t].expiresAt
              /\ ~Stored(t) \/ sessions[t].user # r.user => sessions'[t] = sessions[t]
              /\ Stored(t) /\ sessions[t].user = r.user => sessions'[t].revoked = TRUE
<1> DEFINE r == request[w]
<1>1. r.op = "revokeAll" /\ r.user \in Users
  BY Fields DEF RevokesAll, RequestOK
<1>2. request'[w] = Idle /\ \A v \in Workers \ {w} : request'[v] = request[v]
  BY LastSteps, GotoTyped DEF RevokesAll
<1>3. ASSUME NEW t \in Tokens
      PROVE  /\ sessions'[t] \in Row
             /\ sessions'[t].user = sessions[t].user /\ sessions'[t].login = sessions[t].login
             /\ sessions'[t].state = sessions[t].state
             /\ sessions'[t].replacedBy = sessions[t].replacedBy
             /\ sessions'[t].signedAt = sessions[t].signedAt
             /\ sessions'[t].expiresAt = sessions[t].expiresAt
             /\ ~Stored(t) \/ sessions[t].user # r.user => sessions'[t] = sessions[t]
             /\ Stored(t) /\ sessions[t].user = r.user => sessions'[t].revoked = TRUE
  <2>1. sessions'[t] = IF LiveSession(t) /\ sessions[t].user = r.user
                       THEN [sessions[t] EXCEPT !.revoked = TRUE] ELSE sessions[t]
    BY DEF RevokesAll
  <2>2. sessions[t] \in Row /\ sessions[t].revoked \in BOOLEAN
    BY Fields DEF Row
  <2>3. CASE LiveSession(t) /\ sessions[t].user = r.user
    <3> DEFINE row == sessions[t]
               q == [row EXCEPT !.revoked = TRUE]
    <3>1. sessions'[t] = q
      BY <2>1, <2>3
    <3>2. /\ q \in Row /\ q.user = row.user /\ q.login = row.login /\ q.state = row.state
          /\ q.replacedBy = row.replacedBy /\ q.signedAt = row.signedAt
          /\ q.expiresAt = row.expiresAt /\ q.revoked = TRUE
      BY <2>2 DEF Row
    <3>3. Stored(t)
      BY <2>3 DEF LiveSession
    <3> HIDE DEF q
    <3> QED
      BY <2>3, <3>1, <3>2, <3>3
  <2>4. CASE ~(LiveSession(t) /\ sessions[t].user = r.user)
    <3>1. sessions'[t] = sessions[t]
      BY <2>1, <2>4
    <3>2. Stored(t) /\ sessions[t].user = r.user => sessions[t].revoked = TRUE
      BY <2>2, <2>4 DEF LiveSession
    <3> QED
      BY <2>2, <3>1, <3>2
  <2> QED
    BY <2>3, <2>4
<1> QED
  BY <1>1, <1>2, <1>3

LEMMA RemoveExpiredRows ==
  ASSUME TypeOK, NEW t \in Tokens, RemoveExpired(t)
  PROVE  /\ \A s \in Tokens \ {t} : sessions'[s] = sessions[s]
         /\ Stored(t) /\ sessions[t].expiresAt <= now
         /\ LET q == sessions'[t] IN
            /\ q \in Row /\ q.state = "removed" /\ q.replacedBy = None /\ q.expiresAt = 0
            /\ q.user = sessions[t].user /\ q.login = sessions[t].login
            /\ q.signedAt = sessions[t].signedAt
<1> DEFINE q == [sessions[t] EXCEPT !.state = "removed", !.revoked = FALSE,
                                    !.replacedBy = None, !.expiresAt = 0]
<1>1. /\ q \in Row /\ q.state = "removed" /\ q.replacedBy = None /\ q.expiresAt = 0
      /\ q.user = sessions[t].user /\ q.login = sessions[t].login
      /\ q.signedAt = sessions[t].signedAt
  BY Fields, RemovedRow
<1>2. sessions' = [sessions EXCEPT ![t] = q]
  BY Zenon DEF RemoveExpired
<1>3. Stored(t) /\ sessions[t].expiresAt <= now
  BY DEF RemoveExpired
<1> HIDE DEF q
<1> QED
  BY <1>1, <1>2, <1>3 DEF TypeOK

\* The row that is stored.
NewRow(r) ==
  [state |-> "stored", user |-> r.user, revoked |-> FALSE,
   replacedBy |-> None, signedAt |-> r.at, expiresAt |-> Expiry(now),
   login |-> IF r.kind = "login" THEN r.next ELSE sessions[r.token].login]

\* The row that Stores adds, and what it leaves to do.
LEMMA StoresRows ==
  ASSUME TypeOK, Known, NEW w \in Workers, Stores(w)
  PROVE  LET r == request[w] IN
         /\ r.op = "store" /\ r.kind \in {"login", "refresh"} /\ r.user \in Users
         /\ r.next \in Tokens /\ ~Used(r.next) /\ r.next # None
         /\ r.kind = "refresh" => /\ r.token \in Tokens /\ Used(r.token)
                                  /\ sessions[r.token].user = r.user
         /\ \A t \in Tokens \ {r.next} : sessions'[t] = sessions[t]
         /\ LET q == sessions'[r.next] IN
            /\ q \in Row /\ q.state = "stored" /\ q.user = r.user /\ q.replacedBy = None
            /\ q.revoked = FALSE
            /\ q.signedAt = r.at /\ q.expiresAt = Expiry(now)
            /\ r.kind = "login" => q.login = r.next
            /\ r.kind = "refresh" => q.login = sessions[r.token].login
         /\ \A v \in Workers \ {w} : request'[v] = request[v]
         /\ r.kind = "login" => request'[w] = Idle /\ held' = held \cup {r.next}
         /\ r.kind = "refresh" => /\ request'[w] = Revoking(r.user, r.token, r.next)
                                  /\ held' = held
<1> DEFINE r == request[w]
<1>1. /\ r \in Request /\ RequestOK(r) /\ RequestKnown(r) /\ r.op = "store"
      /\ r.next \in Tokens /\ r.user \in Users
  BY Fields DEF Stores, Known, RequestOK
<1>2. r.kind \in {"login", "refresh"} /\ (r.kind = "refresh" => r.token \in Tokens)
  BY <1>1 DEF RequestOK
<1>3. sessions' = [sessions EXCEPT ![r.next] = NewRow(r)]
  BY DEF Stores, NewRow
<1>8. NewRow(r) \in Row
  <2>1. Expiry(now) \in Nat /\ r.at \in Nat
    BY Fields DEF Expiry, TypeOK
  <2>2. (IF r.kind = "login" THEN r.next ELSE sessions[r.token].login) \in Tokens \cup {None}
    BY <1>1, <1>2, Fields DEF Row
  <2> QED
    BY <1>1, <2>1, <2>2 DEF NewRow, Row
<1>4. /\ \A t \in Tokens \ {r.next} : sessions'[t] = sessions[t]
      /\ sessions'[r.next] = NewRow(r)
  BY <1>1, <1>3 DEF TypeOK
<1>5. r.kind = "refresh" =>
        /\ request'[w] = Revoking(r.user, r.token, r.next)
        /\ \A v \in Workers \ {w} : request'[v] = request[v]
        /\ held' = held
  BY <1>1, <1>2, LastSteps, GotoTyped DEF Stores
<1>6. r.kind = "login" =>
        /\ request'[w] = Idle
        /\ \A v \in Workers \ {w} : request'[v] = request[v]
        /\ held' = held \cup {r.next}
  BY LastSteps, GotoTyped DEF Stores
<1>7. r.next # None /\ (r.kind = "refresh" => r.token # None)
  BY <1>1, <1>2, NoneAssumption
<1> QED
  BY <1>1, <1>2, <1>4, <1>5, <1>6, <1>7, <1>8 DEF RequestKnown, NewRow

-----------------------------------------------------------------------------
(* Types *)

LEMMA InitTyped == Init => TypeOK
<1> SUFFICES ASSUME Init PROVE TypeOK
  OBVIOUS
<1>1. NoRow \in Row
  BY DEF NoRow, Row
<1> QED
  BY <1>1, LastSteps DEF Init, TypeOK

LEMMA QuietTyped ==
  ASSUME TypeOK, Known, NEW w \in Workers, Quiet(w)
  PROVE  TypeOK'
<1>1. PICK q \in Request : /\ RequestOK(q) /\ Goto(w, q) /\ Moves(request[w], q)
                           /\ UNCHANGED <<rowTtl, sessions, held, now>>
  BY QuietMoves
<1>2. request' \in [Workers -> Request] /\ \A v \in Workers : RequestOK(request'[v])
  BY <1>1, GotoTyped
<1>3. users' \in [Users -> [active : BOOLEAN, version : Nat, changedAt : Nat]]
  <2>1. CASE Saves(w)
    <3>1. /\ request[w].user \in Users /\ request[w].at \in Nat
          /\ users' = [users EXCEPT ![request[w].user].version = @ + 1,
                                    ![request[w].user].changedAt = request[w].at]
      BY <2>1, Fields DEF Saves, Writes, RequestOK
    <3> QED
      BY <3>1, PasswordSet
  <2>2. CASE ~Saves(w)
    BY <2>2 DEF Quiet, Login, ChangePassword, ResetPassword, Present, Signs, Finds, Compares,
                Loads, Stamps, CutOff, Starts, Continues, TypeOK
  <2> QED
    BY <2>1, <2>2
<1>4. forked' \subseteq Tokens
  <2>1. CASE Finds(w) \/ CutOff(w)
    <3>1. request[w].op \in {"find", "revoke"} => request[w].token \in Tokens
      BY Fields DEF RequestOK
    <3>2. request[w].op \in {"find", "revoke"} => sessions[request[w].token].login \in Tokens
      BY <3>1, Fields DEF Known, RowsKnown, RequestKnown
    <3> QED
      BY <2>1, <3>2 DEF Finds, CutOff, TypeOK
  <2>2. CASE ~(Finds(w) \/ CutOff(w))
    BY <1>1, <2>2 DEF Quiet, Login, ChangePassword, ResetPassword, Present, Signs, Compares,
                      Loads, Stamps, Saves, Writes, Starts, Continues, history, TypeOK
  <2> QED
    BY <2>1, <2>2
<1>5. ended' \subseteq Tokens
  <2>1. CASE Saves(w)
    <3>1. request[w].user \in Users
      BY <2>1, Fields DEF Saves, Writes, RequestOK
    <3>2. {sessions[t].login : t \in IssuedTo(request[w].user)} \subseteq Tokens
      <4>1. request[w].user # None
        BY <3>1, NoneAssumption
      <4> QED
        BY <4>1 DEF IssuedTo, Known, RowsKnown, NoRow
    <3> QED
      BY <2>1, <3>2 DEF Saves, Writes, TypeOK
  <2>2. CASE ~Saves(w)
    BY <2>2 DEF Quiet, Login, ChangePassword, ResetPassword, Present, Signs, Finds, Compares,
                Loads, Stamps, CutOff, Starts, Continues, history, TypeOK
  <2> QED
    BY <2>1, <2>2
<1>6. outdated' \subseteq Tokens
  BY DEF Quiet, Login, ChangePassword, ResetPassword, Present, Signs, Finds, Compares,
         Loads, Stamps, Saves, Writes, CutOff, Starts, Continues, history, TypeOK,
         SignedFor, IssuedTo
<1>7. gap' \in [Workers -> SUBSET Tokens]
  <2>1. ASSUME NEW t \in Tokens, Signs(w, t) PROVE gap' \in [Workers -> SUBSET Tokens]
    BY <2>1 DEF Signs, TypeOK
  <2>2. CASE Saves(w)
    BY <2>2 DEF Saves, Writes, TypeOK
  <2>3. CASE CutOff(w)
    BY <2>3 DEF CutOff, TypeOK
  <2>4. CASE ~(Saves(w) \/ CutOff(w) \/ \E t \in Tokens : Signs(w, t))
    <3>1. gap' = gap
      BY <2>4, Zenon DEF Quiet, Login, ChangePassword, ResetPassword, Present, Finds,
                  Compares, Loads, Stamps, Starts, Continues, history
    <3> QED
      BY <3>1 DEF TypeOK
  <2> QED
    BY <2>1, <2>2, <2>3, <2>4
<1>8. overtaken' \subseteq Workers
  BY DEF Quiet, Login, ChangePassword, ResetPassword, Present, Signs, Finds, Compares,
         Loads, Stamps, Saves, Writes, CutOff, Starts, Continues, history, TypeOK
<1> QED
  BY <1>1, <1>2, <1>3, <1>4, <1>5, <1>6, <1>7, <1>8 DEF TypeOK

LEMMA RowStepsTyped ==
  ASSUME TypeOK, Known, NEW w \in Workers
  PROVE  Stores(w) \/ Revokes(w) \/ RevokesAll(w) => TypeOK'
<1> DEFINE r == request[w]
<1>1. ASSUME Stores(w) PROVE TypeOK'
  <2>1. /\ r.next \in Tokens /\ sessions'[r.next] \in Row
        /\ \A t \in Tokens \ {r.next} : sessions'[t] = sessions[t]
        /\ sessions' = [sessions EXCEPT ![r.next] = NewRow(r)]
    BY <1>1, StoresRows DEF Stores, NewRow
  <2>2. sessions' \in [Tokens -> Row]
    BY <2>1 DEF TypeOK
  <2>3. request' \in [Workers -> Request] /\ \A v \in Workers : RequestOK(request'[v])
    <3>1. CASE r.kind = "refresh"
      <4>1. Goto(w, Revoking(r.user, r.token, r.next)) /\ r.token \in Tokens /\ r.user \in Users
        BY <1>1, <3>1, StoresRows DEF Stores
      <4> QED
        BY <2>1, <4>1, LastSteps, GotoTyped
    <3>2. CASE r.kind # "refresh"
      <4>1. Goto(w, Idle)
        BY <1>1, <3>2 DEF Stores
      <4> QED
        BY <4>1, LastSteps, GotoTyped
    <3> QED
      BY <3>1, <3>2
  <2>4. held' \subseteq Tokens /\ overtaken' \subseteq Workers
    BY <1>1, <2>1 DEF Stores, TypeOK
  <2> QED
    BY <1>1, <2>2, <2>3, <2>4 DEF Stores, TypeOK
<1>2. ASSUME Revokes(w) PROVE TypeOK'
  <2>1. r.token \in Tokens /\ r.next \in Tokens \cup {None}
    BY <1>2, Fields DEF Revokes, RequestOK
  <2>2. Revoked(sessions[r.token], r.next) \in Row
    BY <2>1, Fields, RevokedRow
  <2>3. sessions' \in [Tokens -> Row]
    BY <1>2, <2>1, <2>2 DEF Revokes, TypeOK
  <2>4. held' \subseteq Tokens
    BY <1>2, <2>1 DEF Revokes, TypeOK
  <2>5. request' \in [Workers -> Request] /\ \A v \in Workers : RequestOK(request'[v])
    BY <1>2, LastSteps, GotoTyped DEF Revokes
  <2> QED
    BY <1>2, <2>3, <2>4, <2>5 DEF Revokes, TypeOK, history
<1>3. ASSUME RevokesAll(w) PROVE TypeOK'
  <2>1. sessions' \in [Tokens -> Row]
    <3>1. \A t \in Tokens : [sessions[t] EXCEPT !.revoked = TRUE] \in Row
      BY Fields DEF Row
    <3> QED
      BY <1>3, <3>1, Fields DEF RevokesAll
  <2>2. request' \in [Workers -> Request] /\ \A v \in Workers : RequestOK(request'[v])
    BY <1>3, LastSteps, GotoTyped DEF RevokesAll
  <2>3. ended' \subseteq Tokens
    BY <1>3 DEF RevokesAll, TypeOK
  <2> QED
    BY <1>3, <2>1, <2>2, <2>3 DEF RevokesAll, TypeOK
<1> QED
  BY <1>1, <1>2, <1>3

LEMMA OthersTyped ==
  ASSUME TypeOK
  PROVE  /\ \A u \in Users, b \in BOOLEAN : SetStatus(u, b) => TypeOK'
         /\ \A t \in Tokens : RemoveExpired(t) => TypeOK'
         /\ Tick => TypeOK'
         /\ UNCHANGED vars => TypeOK'
<1>1. ASSUME NEW u \in Users, NEW b \in BOOLEAN, SetStatus(u, b) PROVE TypeOK'
  BY <1>1 DEF SetStatus, TypeOK
<1>2. ASSUME NEW t \in Tokens, RemoveExpired(t) PROVE TypeOK'
  <2> DEFINE q == [sessions[t] EXCEPT !.state = "removed", !.revoked = FALSE,
                                      !.replacedBy = None, !.expiresAt = 0]
  <2>1. q \in Row
    BY Fields, RemovedRow
  <2>2. sessions' = [sessions EXCEPT ![t] = q]
    BY <1>2, Zenon DEF RemoveExpired
  <2> HIDE DEF q
  <2>3. sessions' \in [Tokens -> Row]
    BY <2>1, <2>2 DEF TypeOK
  <2> QED
    BY <1>2, <2>3 DEF RemoveExpired, TypeOK, history
<1>3. ASSUME Tick PROVE TypeOK'
  BY <1>3 DEF Tick, TypeOK, history
<1>4. ASSUME UNCHANGED vars PROVE TypeOK'
  BY <1>4 DEF TypeOK, vars, history
<1> QED
  BY <1>1, <1>2, <1>3, <1>4


-----------------------------------------------------------------------------
(* Steps that store no row *)

\* A step that only revokes or removes rows, or leaves them alone.
RowsKept ==
  \A t \in Tokens :
    /\ ~Used(t) => sessions'[t] = sessions[t]
    /\ Used(t) => sessions'[t].state # "unused"
    /\ sessions'[t].user = sessions[t].user /\ sessions'[t].login = sessions[t].login
    /\ sessions'[t].signedAt = sessions[t].signedAt
    /\ sessions'[t].expiresAt \in {sessions[t].expiresAt, 0}
    /\ Stored(t)' => Stored(t) /\ sessions'[t].expiresAt = sessions[t].expiresAt
    /\ LiveSession(t)' => LiveSession(t)
    /\ Stored(t) => Stored(t)' \/ sessions[t].expiresAt <= now

LEMMA SameRowsKept == sessions' = sessions => RowsKept
BY DEF RowsKept, Stored, LiveSession, Used

LEMMA RevokesKeeps ==
  ASSUME TypeOK, Known, NEW w \in Workers, Revokes(w)
  PROVE  /\ RowsKept /\ ReplacedByStored'
         /\ \A t \in Tokens : t = request[w].token => ~LiveSession(t)'
<1> DEFINE r == request[w]
           s == r.token
<1>1. /\ s \in Tokens /\ r.next \in Tokens \cup {None} /\ Used(s)
      /\ \A t \in Tokens \ {s} : sessions'[t] = sessions[t]
      /\ ~Stored(s) => sessions'[s] = sessions[s]
      /\ Stored(s) => sessions'[s] = Revoked(sessions[s], r.next)
      /\ r.next # None => /\ Used(r.next) /\ sessions[r.next].login = sessions[s].login
                          /\ sessions[r.next].user = sessions[s].user
  BY RevokesRows, Fields
<1>2. LET q == Revoked(sessions[s], r.next) IN
      /\ q \in Row /\ q.revoked = TRUE
      /\ q.replacedBy = IF r.next = None THEN sessions[s].replacedBy ELSE r.next
      /\ q.state = sessions[s].state /\ q.user = sessions[s].user
      /\ q.login = sessions[s].login
      /\ q.signedAt = sessions[s].signedAt /\ q.expiresAt = sessions[s].expiresAt
  BY <1>1, Fields, RevokedRow
<1> DEFINE q == Revoked(sessions[s], r.next)
<1> HIDE DEF q
<1>3. /\ Stored(s) => sessions'[s] = q
      /\ q.revoked = TRUE
      /\ q.replacedBy = IF r.next = None THEN sessions[s].replacedBy ELSE r.next
      /\ q.state = sessions[s].state /\ q.user = sessions[s].user
      /\ q.login = sessions[s].login
      /\ q.signedAt = sessions[s].signedAt /\ q.expiresAt = sessions[s].expiresAt
  BY <1>1, <1>2 DEF q
<1>4. /\ \A t \in Tokens :
           /\ sessions'[t].state = sessions[t].state
           /\ sessions'[t].user = sessions[t].user /\ sessions'[t].login = sessions[t].login
           /\ sessions'[t].signedAt = sessions[t].signedAt
           /\ sessions'[t].expiresAt = sessions[t].expiresAt
           /\ t # s => sessions'[t] = sessions[t]
           /\ sessions'[t].replacedBy # sessions[t].replacedBy =>
                t = s /\ r.next # None /\ sessions'[t].replacedBy = r.next
      /\ Stored(s) => sessions'[s].revoked = TRUE
  BY <1>1, <1>3
<1>5. RowsKept
  BY <1>1, <1>4 DEF RowsKept, Stored, LiveSession, Used
<1>6. \A t \in Tokens : t = s => ~LiveSession(t)'
  BY <1>1, <1>4 DEF LiveSession, Stored
<1>7. ReplacedByStored'
  <2> SUFFICES ASSUME NEW t \in Tokens, sessions'[t].replacedBy # None
               PROVE  LET n == sessions'[t].replacedBy IN
                      /\ n \in Tokens /\ sessions[n].state # "unused"
                      /\ sessions[n].login = sessions[t].login
                      /\ sessions[n].user = sessions[t].user
    BY <1>4 DEF ReplacedByStored
  <2>1. CASE sessions'[t].replacedBy = sessions[t].replacedBy
    <3>1. sessions[t].replacedBy \in Tokens \cup {None}
      BY Fields DEF Row
    <3> QED
      BY <2>1, <3>1 DEF Known, ReplacedByStored
  <2>2. CASE sessions'[t].replacedBy # sessions[t].replacedBy
    BY <1>1, <1>4, <2>2 DEF Used
  <2> QED
    BY <2>1, <2>2
<1> QED
  BY <1>5, <1>6, <1>7

LEMMA RevokesAllKeeps ==
  ASSUME TypeOK, Known, NEW w \in Workers, RevokesAll(w)
  PROVE  /\ RowsKept /\ ReplacedByStored'
         /\ \A t \in Tokens : LiveSession(t)' => sessions[t].user # request[w].user
<1> DEFINE r == request[w]
<1>1. \A t \in Tokens :
        /\ sessions'[t].user = sessions[t].user /\ sessions'[t].login = sessions[t].login
        /\ sessions'[t].state = sessions[t].state
        /\ sessions'[t].replacedBy = sessions[t].replacedBy
        /\ sessions'[t].signedAt = sessions[t].signedAt
        /\ sessions'[t].expiresAt = sessions[t].expiresAt
        /\ ~Stored(t) \/ sessions[t].user # r.user => sessions'[t] = sessions[t]
        /\ Stored(t) /\ sessions[t].user = r.user => sessions'[t].revoked = TRUE
  BY RevokesAllRows
<1>2. RowsKept
  BY <1>1 DEF RowsKept, Stored, LiveSession, Used
<1>3. \A t \in Tokens : LiveSession(t)' => sessions[t].user # r.user
  BY <1>1 DEF LiveSession, Stored
<1>4. ReplacedByStored'
  <2>1. \A t \in Tokens : sessions[t].replacedBy \in Tokens \cup {None}
    BY Fields DEF Row
  <2> QED
    BY <1>1, <2>1 DEF Known, ReplacedByStored
<1> QED
  BY <1>2, <1>3, <1>4

LEMMA RemoveExpiredKeeps ==
  ASSUME TypeOK, Known, NEW s \in Tokens, RemoveExpired(s)
  PROVE  RowsKept /\ ReplacedByStored'
<1>1. /\ \A t \in Tokens \ {s} : sessions'[t] = sessions[t]
      /\ Stored(s) /\ sessions[s].expiresAt <= now
      /\ sessions'[s].state = "removed" /\ sessions'[s].replacedBy = None
      /\ sessions'[s].expiresAt = 0
      /\ sessions'[s].user = sessions[s].user /\ sessions'[s].login = sessions[s].login
      /\ sessions'[s].signedAt = sessions[s].signedAt
  BY RemoveExpiredRows
<1>2. RowsKept
  BY <1>1 DEF RowsKept, Stored, LiveSession, Used
<1>3. ReplacedByStored'
  <2>1. \A t \in Tokens : sessions[t].replacedBy \in Tokens \cup {None}
    BY Fields DEF Row
  <2>2. \A t \in Tokens : /\ sessions'[t].user = sessions[t].user
                          /\ sessions'[t].login = sessions[t].login
                          /\ sessions[t].state # "unused" => sessions'[t].state # "unused"
                          /\ sessions'[t].replacedBy \in {sessions[t].replacedBy, None}
    BY <1>1
  <2> QED
    BY <2>1, <2>2 DEF Known, ReplacedByStored
<1> QED
  BY <1>2, <1>3

\* What is asked of the requests for Known to go on to hold.
LEMMA KnownKept ==
  ASSUME TypeOK, Known, RowsKept, ReplacedByStored', OwnNext', held \subseteq held',
         \A t \in held' : t \in Tokens /\ Used(t),
         \A v \in Workers :
           \/ RequestKnown(request[v])'
           \/ /\ request'[v] = request[v]
              /\ request[v].op = "revoke" /\ request[v].next # None =>
                   request[v].next \notin held'
  PROVE  Known'
<1>1. RowsKnown'
  <2>1. \A t \in Tokens : /\ ~Used(t) => sessions'[t] = sessions[t]
                          /\ Used(t) => sessions'[t].state # "unused"
                          /\ sessions'[t].user = sessions[t].user
                          /\ sessions'[t].login = sessions[t].login
    BY DEF RowsKept
  <2> QED
    BY <2>1 DEF Known, RowsKnown, Used
<1>2. ASSUME NEW v \in Workers PROVE RequestKnown(request[v])'
  <2>1. CASE /\ request'[v] = request[v]
             /\ request[v].op = "revoke" /\ request[v].next # None =>
                  request[v].next \notin held'
    <3> PICK q : q = request[v]
      OBVIOUS
    <3>1. /\ RequestKnown(q) /\ q.token \in Tokens \cup {None}
          /\ q.next \in Tokens \cup {None} /\ (q.op = "store" => q.next \in Tokens)
          /\ q.op = "revoke" => q.token \in Tokens
      BY Fields DEF Known, RequestOK
    <3>2. \A t \in Tokens : /\ ~Used(t) => ~Used(t)'
                            /\ Used(t) => Used(t)'
                            /\ sessions'[t].user = sessions[t].user
                            /\ sessions'[t].login = sessions[t].login
      BY DEF RowsKept, Used
    <3>3. request'[v] = q
      BY <2>1
    <3>5. /\ q.op = "idle" => q = Idle
          /\ q.op \notin {"store", "revoke"} => q.next = None
          /\ q.op = "find" => q.token \in held'
      BY <3>1 DEF RequestKnown
    <3>6. q.token # None => Used(q.token)' /\ sessions'[q.token].user = q.user
      BY <3>1, <3>2 DEF RequestKnown
    <3>7. q.op = "store" => ~Used(q.next)'
      BY <3>1, <3>2 DEF RequestKnown
    <3>8. q.op = "revoke" /\ q.next # None =>
            /\ Used(q.next)' /\ q.next \notin held'
            /\ sessions'[q.next].login = sessions'[q.token].login
            /\ sessions'[q.next].user = q.user
      BY <2>1, <3>1, <3>2 DEF RequestKnown
    <3> QED
      BY <3>3, <3>5, <3>6, <3>7, <3>8 DEF RequestKnown, Used
  <2> QED
    BY <2>1
<1>3. \A t \in held' : Used(t)'
  BY DEF RowsKept, Used
<1> QED
  BY <1>1, <1>2, <1>3 DEF Known

LEMMA KnownQuiet ==
  ASSUME TypeOK, Known, NEW w \in Workers, Quiet(w)
  PROVE  Known'
<1> DEFINE r == request[w]
<1>1. PICK q \in Request : /\ RequestOK(q) /\ Goto(w, q) /\ Moves(r, q)
                           /\ UNCHANGED <<rowTtl, sessions, held, now>>
  BY QuietMoves
<1>2. request'[w] = q /\ \A v \in Workers \ {w} : request'[v] = request[v]
  BY <1>1, GotoTyped
<1>3. /\ RequestKnown(r) /\ RequestOK(r) /\ r \in Request /\ None \notin Tokens
      /\ \A v \in Workers : RequestKnown(request[v])
  BY Fields DEF Known
<1>4. RequestKnown(q)
  <2>1. CASE q = Idle
    BY <2>1, LastSteps DEF RequestKnown
  <2>2. CASE Begins(q)
    BY <2>2 DEF Begins, RequestKnown
  <2>3. CASE Presents(q)
    <3>1. Used(q.token)
      BY <2>3 DEF Presents, Known
    <3> QED
      BY <2>3, <3>1 DEF Presents, RequestKnown
  <2>4. CASE EndsAll(r, q)
    BY <2>4 DEF EndsAll, RequestKnown
  <2>5. CASE EndsOne(r, q)
    <3>1. r.token # None
      BY <1>3, <2>5 DEF EndsOne
    <3> QED
      BY <1>3, <2>5, <3>1 DEF EndsOne, RequestKnown
  <2>6. CASE Reads(r, q)
    BY <1>3, <2>6 DEF Reads, SameWork, RequestKnown
  <2>7. CASE SignsOff(r, q)
    BY <1>3, <2>7 DEF SignsOff, SameWork, RequestKnown
  <2>8. CASE StampsOff(r, q)
    BY <1>3, <2>8 DEF StampsOff, SameWork, RequestKnown
  <2> QED
    BY <1>1, <2>1, <2>2, <2>3, <2>4, <2>5, <2>6, <2>7, <2>8 DEF Moves
<1>5. q.next = None \/ \A v \in Workers : request[v].next # q.next
  <2>1. CASE q.next # None
    <3>1. q.op \in {"store", "revoke"}
      BY <1>4, <2>1 DEF RequestKnown
    <3>2. SignsOff(r, q)
      BY <1>1, <1>3, <2>1, <3>1, LastSteps DEF Moves, Begins, Presents, EndsAll, EndsOne,
                                               Reads, SignsOff, StampsOff
    <3> QED
      BY <3>2 DEF SignsOff
  <2> QED
    BY <2>1
<1>6. OwnNext'
  BY <1>2, <1>5 DEF Known, OwnNext
<1>7. RequestKnown(request[w])'
  BY <1>1, <1>2, <1>4 DEF RequestKnown, Used
<1>8. \A v \in Workers \ {w} :
        /\ request'[v] = request[v]
        /\ request[v].op = "revoke" /\ request[v].next # None => request[v].next \notin held'
  BY <1>1, <1>2, <1>3 DEF RequestKnown
<1>9. ReplacedByStored'
  BY <1>1 DEF Known, ReplacedByStored
<1>10. held' = held /\ held \subseteq Tokens /\ \A t \in held : Used(t)
  BY <1>1 DEF TypeOK, Known
<1> QED
  BY <1>1, <1>6, <1>7, <1>8, <1>9, <1>10, SameRowsKept, KnownKept

LEMMA KnownRevokes ==
  ASSUME TypeOK, Known, NEW w \in Workers, Revokes(w) \/ RevokesAll(w)
  PROVE  Known'
<1> DEFINE r == request[w]
<1>1. RowsKept /\ ReplacedByStored'
  BY RevokesKeeps, RevokesAllKeeps
<1>2. request'[w] = Idle /\ \A v \in Workers \ {w} : request'[v] = request[v]
  BY RevokesRows, RevokesAllRows
<1>3. held' = held \/ (r.next # None /\ r.next \in Tokens /\ Used(r.next)
                       /\ held' = held \cup {r.next})
  BY RevokesRows DEF Revokes, RevokesAll
<1>4. \A v \in Workers : RequestKnown(request[v])
  BY DEF Known
<1>5. RequestKnown(request[w])'
  BY <1>2, LastSteps DEF RequestKnown
<1>6. OwnNext'
  BY <1>2, LastSteps DEF Known, OwnNext
<1>7. \A v \in Workers \ {w} :
        /\ request'[v] = request[v]
        /\ request[v].op = "revoke" /\ request[v].next # None => request[v].next \notin held'
  BY <1>2, <1>3, <1>4 DEF RequestKnown, Known, OwnNext
<1>8. held \subseteq held' /\ \A t \in held' : t \in Tokens /\ Used(t)
  BY <1>3 DEF TypeOK, Known
<1> QED
  BY <1>1, <1>5, <1>6, <1>7, <1>8, KnownKept

LEMMA KnownOthers ==
  ASSUME TypeOK, Known
  PROVE  /\ \A t \in Tokens : RemoveExpired(t) => Known'
         /\ \A u \in Users, b \in BOOLEAN : SetStatus(u, b) => Known'
         /\ Tick => Known'
         /\ UNCHANGED vars => Known'
<1>1. ASSUME RowsKept, ReplacedByStored', UNCHANGED <<request, held>> PROVE Known'
  <2>1. OwnNext' /\ held \subseteq held' /\ (\A t \in held' : t \in Tokens /\ Used(t))
    BY <1>1 DEF Known, OwnNext, TypeOK
  <2>2. \A v \in Workers :
          /\ request'[v] = request[v]
          /\ request[v].op = "revoke" /\ request[v].next # None => request[v].next \notin held'
    BY <1>1 DEF Known, RequestKnown
  <2> QED
    BY <1>1, <2>1, <2>2, KnownKept
<1>2. sessions' = sessions => RowsKept /\ ReplacedByStored'
  BY SameRowsKept DEF Known, ReplacedByStored
<1> QED
  BY <1>1, <1>2, RemoveExpiredKeeps DEF RemoveExpired, SetStatus, Tick, vars

-----------------------------------------------------------------------------
(* What is known when a row is stored *)

LEMMA KnownStores ==
  ASSUME TypeOK, Known, NEW w \in Workers, Stores(w)
  PROVE  Known'
<1>0. PICK r : r = request[w]
  OBVIOUS
<1>00. PICK n : n = r.next
  OBVIOUS
<1>1. /\ r.op = "store" /\ r.kind \in {"login", "refresh"} /\ r.user \in Users
      /\ n \in Tokens /\ ~Used(n) /\ n # None
      /\ r.kind = "refresh" => /\ r.token \in Tokens /\ Used(r.token)
                               /\ sessions[r.token].user = r.user
      /\ \A t \in Tokens \ {n} : sessions'[t] = sessions[t]
      /\ sessions'[n].state = "stored" /\ sessions'[n].user = r.user
      /\ sessions'[n].replacedBy = None
      /\ r.kind = "login" => sessions'[n].login = n
      /\ r.kind = "refresh" => sessions'[n].login = sessions[r.token].login
  BY <1>0, <1>00, StoresRows
<1>2. /\ \A v \in Workers \ {w} : request'[v] = request[v]
      /\ r.kind = "login" => request'[w] = Idle /\ held' = held \cup {n}
      /\ r.kind = "refresh" => request'[w] = Revoking(r.user, r.token, n) /\ held' = held
  BY <1>0, <1>00, StoresRows
<1>3. \A t \in Tokens : Used(t) => t # n /\ sessions'[t] = sessions[t] /\ Used(t)'
  BY <1>1 DEF Used
<1>4. RowsKnown'
  <2> SUFFICES ASSUME NEW t \in Tokens
               PROVE  /\ sessions'[t].state = "unused" => sessions'[t] = NoRow
                      /\ sessions'[t].state # "unused" =>
                           /\ sessions'[t].user \in Users
                           /\ sessions'[t].login \in Tokens
                           /\ sessions'[sessions'[t].login].state # "unused"
                           /\ sessions'[sessions'[t].login].user = sessions'[t].user
    BY DEF RowsKnown, Used
  <2>1. CASE t # n
    <3>1. sessions'[t] = sessions[t]
      BY <1>1, <2>1
    <3>2. Used(t) => sessions[t].login \in Tokens /\ Used(sessions[t].login)
                     /\ sessions[t].user \in Users
                     /\ sessions[sessions[t].login].user = sessions[t].user
      BY DEF Known, RowsKnown
    <3>3. ~Used(t) => sessions[t] = NoRow
      BY DEF Known, RowsKnown
    <3> QED
      BY <1>3, <3>1, <3>2, <3>3 DEF Used
  <2>2. CASE t = n /\ r.kind = "login"
    BY <1>1, <2>2
  <2>3. CASE t = n /\ r.kind = "refresh"
    <3>1. /\ sessions[r.token].login \in Tokens /\ Used(sessions[r.token].login)
          /\ sessions[sessions[r.token].login].user = r.user
      BY <1>1, <2>3 DEF Known, RowsKnown
    <3> QED
      BY <1>1, <1>3, <2>3, <3>1 DEF Used
  <2> QED
    BY <1>1, <2>1, <2>2, <2>3
<1>5. held' \subseteq held \cup {n} /\ \A t \in held' : Used(t)'
  BY <1>1, <1>2, <1>3 DEF Known, Used, TypeOK
<1>6. ASSUME NEW v \in Workers, v # w PROVE RequestKnown(request[v])'
  <2>1. PICK q : q = request[v]
    OBVIOUS
  <2>2. request'[v] = q /\ RequestKnown(q)
    BY <1>2, <1>6, <2>1 DEF Known
  <2>3. /\ q.token \in Tokens \cup {None} /\ q.next \in Tokens \cup {None}
        /\ q.op = "store" => q.next \in Tokens
        /\ q.op = "revoke" => q.token \in Tokens
        /\ None \notin Tokens
    BY <2>1, Fields DEF RequestOK
  <2>4. q.next # n
    BY <1>0, <1>00, <1>1, <1>6, <2>1 DEF Known, OwnNext
  <2>5. q.token # None => Used(q.token)' /\ sessions'[q.token].user = q.user
    BY <1>3, <2>2, <2>3 DEF RequestKnown
  <2>6. q.op = "store" => ~Used(q.next)'
    BY <1>1, <2>2, <2>3, <2>4 DEF RequestKnown, Used
  <2>7. q.op = "revoke" /\ q.next # None =>
          /\ Used(q.next)' /\ q.next \notin held'
          /\ sessions'[q.next].login = sessions'[q.token].login
          /\ sessions'[q.next].user = q.user
    BY <1>3, <1>5, <2>2, <2>3, <2>4 DEF RequestKnown
  <2>8. /\ q.op = "idle" => q = Idle
        /\ q.op \notin {"store", "revoke"} => q.next = None
        /\ q.op = "find" => q.token \in held'
    BY <1>2, <1>1, <2>2 DEF RequestKnown
  <2> QED
    BY <2>2, <2>5, <2>6, <2>7, <2>8 DEF RequestKnown, Used
<1>7. RequestKnown(request[w])'
  <2>1. CASE r.kind = "login"
    BY <1>2, <2>1, LastSteps DEF RequestKnown
  <2>2. CASE r.kind = "refresh"
    <3>1. n \notin held'
      BY <1>1, <1>2, <2>2 DEF Known
    <3>2. PICK q : q = Revoking(r.user, r.token, n)
      OBVIOUS
    <3>3. /\ q.op = "revoke" /\ q.user = r.user /\ q.token = r.token /\ q.next = n
          /\ request'[w] = q
      BY <1>1, <1>2, <2>2, <3>2, LastSteps
    <3> QED
      BY <1>1, <1>3, <2>2, <3>1, <3>3 DEF RequestKnown, Used
  <2> QED
    BY <1>1, <2>1, <2>2
<1>8. OwnNext'
  <2>1. request'[w].next \in {None, n}
    BY <1>1, <1>2, LastSteps
  <2>2. \A v \in Workers \ {w} : request[v].next # n
    BY <1>0, <1>00, <1>1 DEF Known, OwnNext
  <2>3. \A v, x \in Workers \ {w} :
          request'[v].next # None /\ request'[v].next = request'[x].next => v = x
    BY <1>2 DEF Known, OwnNext
  <2>4. \A v \in Workers \ {w} : request'[v].next # n
    BY <1>2, <2>2
  <2> QED
    BY <2>1, <2>3, <2>4 DEF OwnNext
<1>9. ReplacedByStored'
  <2> SUFFICES ASSUME NEW t \in Tokens, sessions'[t].replacedBy # None
               PROVE  LET m == sessions'[t].replacedBy IN
                      /\ sessions'[m].state # "unused"
                      /\ sessions'[m].login = sessions'[t].login
                      /\ sessions'[m].user = sessions'[t].user
    BY DEF ReplacedByStored
  <2>1. t # n /\ sessions'[t] = sessions[t]
    BY <1>1
  <2>2. sessions[t].replacedBy \in Tokens
    BY <2>1, Fields DEF Row
  <2> QED
    BY <1>3, <2>1, <2>2 DEF Known, ReplacedByStored, Used
<1> QED
  BY <1>4, <1>5, <1>6, <1>7, <1>8, <1>9 DEF Known

-----------------------------------------------------------------------------
(* The clock *)

LEMMA WholeSecondBelow ==
  ASSUME NEW t \in Nat PROVE WholeSecond(t) \in Int /\ WholeSecond(t) <= t
<1>1. t % Second \in 0..(Second - 1)
  BY SecondAssumption
<1> QED
  BY <1>1, SecondAssumption DEF WholeSecond

\* What RowTimed asks of a row, for a clock m.
RowTimedAt(row, m) ==
  /\ row.state # "unused" => row.signedAt <= m
  /\ rowTtl = Ttl =>
       /\ row.state = "stored" => row.signedAt + Ttl <= row.expiresAt
       /\ row.state = "removed" => WholeSecond(row.signedAt) + Ttl <= m
  /\ rowTtl = 0 => row.expiresAt <= m /\ row.replacedBy = None

LEMMA TimedByRow ==
  ASSUME TypeOK, TypeOK', rowTtl' = rowTtl
  PROVE  /\ \A t \in Tokens : RowTimed(t) <=> RowTimedAt(sessions[t], now)
         /\ \A t \in Tokens : RowTimed(t)' <=> RowTimedAt(sessions'[t], now')
<1>1. \A t \in Tokens : /\ sessions[t].state \in {"unused", "stored", "removed"}
                        /\ sessions'[t].state \in {"unused", "stored", "removed"}
  BY DEF TypeOK, Row
<1>2. \A t : WholeSecond(t)' = WholeSecond(t)
  BY DEF WholeSecond
<1>3. \A t \in Tokens : RowTimed(t) <=> RowTimedAt(sessions[t], now)
  BY <1>1 DEF RowTimed, RowTimedAt, Used, Stored
<1>4. \A t \in Tokens : RowTimed(t)' <=> RowTimedAt(sessions'[t], now')
  BY <1>1, <1>2 DEF RowTimed, RowTimedAt, Used, Stored, WholeSecond
<1> QED
  BY <1>3, <1>4

\* A step that stores no row, while time may pass.
LEMMA TimedKept ==
  ASSUME TypeOK, TypeOK', Timed, RowsKept, rowTtl' = rowTtl, now <= now',
         rowTtl = 0 => \A t \in Tokens : sessions'[t].replacedBy = None,
         \A v \in Workers : request'[v] = request[v] \/ RequestTimed(request[v])'
  PROVE  Timed'
<1>0. now \in Nat /\ now' \in Nat /\ Ttl \in Nat
  BY TtlAssumption DEF TypeOK
<1>1. ASSUME NEW t \in Tokens PROVE RowTimed(t)'
  <2>1. PICK a : a = sessions[t]
    OBVIOUS
  <2>2. PICK b : b = sessions'[t]
    OBVIOUS
  <2>3. /\ a.signedAt \in Nat /\ a.expiresAt \in Nat /\ b.expiresAt \in Nat
        /\ a.state \in {"unused", "stored", "removed"}
        /\ b.state \in {"unused", "stored", "removed"}
    BY <2>1, <2>2 DEF TypeOK, Row
  <2>4. /\ a.state = "unused" => b.state = "unused"
        /\ b.signedAt = a.signedAt /\ b.expiresAt \in {a.expiresAt, 0}
        /\ b.state = "stored" => a.state = "stored" /\ b.expiresAt = a.expiresAt
        /\ a.state = "stored" => b.state = "stored" \/ a.expiresAt <= now
    BY <2>1, <2>2 DEF RowsKept, Used, Stored
  <2>5. RowTimedAt(a, now)
    BY <2>1, TimedByRow DEF Timed
  <2>6. rowTtl = 0 => b.replacedBy = None
    BY <2>2
  <2>7. WholeSecond(a.signedAt) \in Int /\ WholeSecond(a.signedAt) <= a.signedAt
    BY <2>3, WholeSecondBelow
  <2>8. b.state # "unused" => b.signedAt <= now'
    BY <1>0, <2>3, <2>4, <2>5 DEF RowTimedAt
  <2>9. rowTtl = Ttl /\ b.state = "stored" => b.signedAt + Ttl <= b.expiresAt
    BY <2>4, <2>5 DEF RowTimedAt
  <2>10. rowTtl = Ttl /\ b.state = "removed" => WholeSecond(b.signedAt) + Ttl <= now'
    BY <1>0, <2>3, <2>4, <2>5, <2>7 DEF RowTimedAt
  <2>11. rowTtl = 0 => b.expiresAt <= now'
    BY <1>0, <2>3, <2>4, <2>5 DEF RowTimedAt
  <2>12. RowTimedAt(b, now')
    BY <2>6, <2>8, <2>9, <2>10, <2>11 DEF RowTimedAt
  <2> QED
    BY <2>2, <2>12, TimedByRow
<1>2. ASSUME NEW v \in Workers, request'[v] = request[v] PROVE RequestTimed(request[v])'
  <2>1. request[v].at \in Nat /\ RequestTimed(request[v])
    BY Fields DEF Timed
  <2> QED
    BY <1>0, <1>2, <2>1 DEF RequestTimed
<1> QED
  BY <1>1, <1>2 DEF Timed

LEMMA TimedQuiet ==
  ASSUME TypeOK, Known, Timed, NEW w \in Workers, Quiet(w)
  PROVE  Timed'
<1> DEFINE r == request[w]
<1>1. PICK q \in Request : /\ RequestOK(q) /\ Goto(w, q) /\ Moves(r, q)
                           /\ UNCHANGED <<rowTtl, sessions, held, now>>
  BY QuietMoves
<1>2. request'[w] = q /\ \A v \in Workers \ {w} : request'[v] = request[v]
  BY <1>1, GotoTyped
<1>3. /\ RequestTimed(r) /\ r \in Request /\ now \in Nat /\ r.at \in Nat
      /\ r.op = "compare" => r.token \in Tokens
  BY Fields DEF Timed, RequestOK
<1>4. RequestTimed(q)
  <2>1. CASE q = Idle
    BY <1>3, <2>1, LastSteps DEF RequestTimed
  <2>2. CASE Begins(q)
    BY <1>3, <2>2 DEF Begins, RequestTimed
  <2>3. CASE Presents(q)
    BY <1>3, <2>3 DEF Presents, RequestTimed
  <2>4. CASE EndsAll(r, q)
    BY <1>3, <2>4 DEF EndsAll, RequestTimed
  <2>5. CASE EndsOne(r, q)
    BY <1>3, <2>5 DEF EndsOne, RequestTimed
  <2>6. CASE Reads(r, q)
    <3>1. rowTtl = 0 => r.op # "compare" \/ sessions[r.token].expiresAt <= now
      BY <1>3 DEF Timed, RowTimed
    <3> QED
      BY <1>3, <2>6, <3>1 DEF Reads, SameWork, RequestTimed
  <2>7. CASE SignsOff(r, q)
    BY <1>3, <2>7 DEF SignsOff, SameWork, RequestTimed
  <2>8. CASE StampsOff(r, q)
    BY <1>3, <2>8 DEF StampsOff, SameWork, RequestTimed
  <2> QED
    BY <1>1, <2>1, <2>2, <2>3, <2>4, <2>5, <2>6, <2>7, <2>8 DEF Moves
<1>5. RequestTimed(request[w])'
  BY <1>1, <1>2, <1>4 DEF RequestTimed
<1>6. rowTtl = 0 => \A t \in Tokens : sessions'[t].replacedBy = None
  BY <1>1 DEF Timed, RowTimed
<1>7. now <= now'
  BY <1>1, <1>3
<1> QED
  BY <1>1, <1>2, <1>5, <1>6, <1>7, QuietTyped, SameRowsKept, TimedKept

LEMMA TimedRevokes ==
  ASSUME TypeOK, Known, Timed, NEW w \in Workers, Revokes(w) \/ RevokesAll(w)
  PROVE  Timed'
<1> DEFINE r == request[w]
<1>1. /\ UNCHANGED <<rowTtl, now>> /\ RowsKept /\ TypeOK' /\ now \in Nat
      /\ request'[w] = Idle /\ \A v \in Workers \ {w} : request'[v] = request[v]
  BY RevokesKeeps, RevokesAllKeeps, RevokesRows, RevokesAllRows, RowStepsTyped
     DEF Revokes, RevokesAll, TypeOK
<1>2. RequestTimed(request[w])'
  BY <1>1, LastSteps DEF RequestTimed
<1>3. rowTtl = 0 => \A t \in Tokens : sessions'[t].replacedBy = None
  <2>1. CASE Revokes(w)
    <3>1. rowTtl = 0 => r.next = None /\ sessions[r.token].replacedBy = None
      BY <2>1, RevokesRows DEF Timed, RequestTimed, RowTimed
    <3>2. r.token \in Tokens /\ r.next \in Tokens \cup {None}
      BY <2>1, RevokesRows, Fields
    <3>3. Revoked(sessions[r.token], r.next).replacedBy
            = IF r.next = None THEN sessions[r.token].replacedBy ELSE r.next
      BY <3>2, Fields, RevokedRow
    <3>4. rowTtl = 0 => sessions'[r.token].replacedBy = None
      BY <2>1, <3>1, <3>3, RevokesRows
    <3> QED
      BY <2>1, <3>4, RevokesRows DEF Timed, RowTimed
  <2>2. CASE RevokesAll(w)
    BY <2>2, RevokesAllRows DEF Timed, RowTimed
  <2> QED
    BY <2>1, <2>2
<1> QED
  BY <1>1, <1>2, <1>3, TimedKept

LEMMA TimedStores ==
  ASSUME TypeOK, Known, Timed, NEW w \in Workers, Stores(w)
  PROVE  Timed'
<1>0. PICK r : r = request[w]
  OBVIOUS
<1>1. /\ UNCHANGED <<rowTtl, now>> /\ TypeOK' /\ now \in Nat /\ Ttl \in Nat /\ Ttl # 0
      /\ rowTtl \in {Ttl, 0}
  BY RowStepsTyped, TtlAssumption DEF Stores, TypeOK
<1>2. /\ r.op = "store" /\ r.kind \in {"login", "refresh"} /\ r.next \in Tokens
      /\ r.at \in Nat /\ r.user \in Users /\ (r.kind = "refresh" => r.token \in Tokens)
      /\ \A t \in Tokens \ {r.next} : sessions'[t] = sessions[t]
      /\ sessions'[r.next].state = "stored" /\ sessions'[r.next].replacedBy = None
      /\ sessions'[r.next].signedAt = r.at /\ sessions'[r.next].expiresAt = now + rowTtl
      /\ \A v \in Workers \ {w} : request'[v] = request[v]
      /\ r.kind = "login" => request'[w] = Idle
      /\ r.kind = "refresh" => request'[w] = Revoking(r.user, r.token, r.next)
  BY <1>0, StoresRows, Fields DEF Expiry
<1>3. r.at <= now /\ (rowTtl = 0 => r.kind = "login")
  BY <1>0, <1>2 DEF Timed, RequestTimed
<1>4. ASSUME NEW t \in Tokens PROVE RowTimed(t)'
  <2>1. CASE t = r.next
    <3>1. PICK b : b = sessions'[t]
      OBVIOUS
    <3>2. RowTimedAt(b, now)
      BY <1>1, <1>2, <1>3, <2>1, <3>1 DEF RowTimedAt
    <3> QED
      BY <1>1, <3>1, <3>2, TimedByRow
  <2>2. CASE t # r.next
    <3>1. RowTimedAt(sessions[t], now)
      BY <1>1, TimedByRow DEF Timed
    <3> QED
      BY <1>1, <1>2, <2>2, <3>1, TimedByRow
  <2> QED
    BY <2>1, <2>2
<1>5. ASSUME NEW v \in Workers PROVE RequestTimed(request[v])'
  <2>1. CASE v = w
    <3>1. CASE r.kind = "login"
      BY <1>1, <1>2, <2>1, <3>1, LastSteps DEF RequestTimed
    <3>2. CASE r.kind = "refresh"
      <4>1. request'[w].op = "revoke" /\ request'[w].at = 0 /\ rowTtl # 0
        BY <1>2, <1>3, <3>2, LastSteps
      <4> QED
        BY <1>1, <2>1, <4>1 DEF RequestTimed
    <3> QED
      BY <1>2, <3>1, <3>2
  <2>2. CASE v # w
    BY <1>1, <1>2, <2>2 DEF Timed, RequestTimed
  <2> QED
    BY <2>1, <2>2
<1> QED
  BY <1>4, <1>5 DEF Timed

LEMMA TimedOthers ==
  ASSUME TypeOK, Known, Timed
  PROVE  /\ \A t \in Tokens : RemoveExpired(t) => Timed'
         /\ \A u \in Users, b \in BOOLEAN : SetStatus(u, b) => Timed'
         /\ Tick => Timed'
         /\ UNCHANGED vars => Timed'
<1>1. ASSUME RowsKept, TypeOK', now <= now', UNCHANGED <<rowTtl, request>>,
             \A t \in Tokens : sessions'[t].replacedBy \in {sessions[t].replacedBy, None}
      PROVE  Timed'
  BY <1>1, TimedKept DEF Timed, RowTimed
<1>2. \A t \in Tokens : RemoveExpired(t) =>
        \A s \in Tokens : sessions'[s].replacedBy \in {sessions[s].replacedBy, None}
  BY RemoveExpiredRows
<1>3. now \in Nat
  BY DEF TypeOK
<1>4. Tick => now <= now'
  BY <1>3 DEF Tick
<1>5. ASSUME NEW t \in Tokens, RemoveExpired(t) PROVE Timed'
  <2>1. UNCHANGED <<rowTtl, request, now>>
    BY <1>5 DEF RemoveExpired
  <2>2. RowsKept /\ TypeOK'
    BY <1>5, RemoveExpiredKeeps, OthersTyped
  <2>3. \A s \in Tokens : sessions'[s].replacedBy \in {sessions[s].replacedBy, None}
    BY <1>2, <1>5
  <2> QED
    BY <1>1, <1>3, <2>1, <2>2, <2>3
<1>6. ASSUME sessions' = sessions, TypeOK', now <= now', UNCHANGED <<rowTtl, request>>
      PROVE  Timed'
  BY <1>1, <1>6, SameRowsKept
<1> QED
  BY <1>3, <1>4, <1>5, <1>6, OthersTyped DEF SetStatus, Tick, vars

-----------------------------------------------------------------------------
(* Logins that are not forked *)

\* A refresh that goes on has a token with a row.
LEMMA RefreshesUsed ==
  ASSUME TypeOK, Known, NEW v \in Workers, Refreshing(v)
  PROVE  request[v].token \in Tokens /\ Used(request[v].token)
<1>1. RequestOK(request[v]) /\ RequestKnown(request[v]) /\ None \notin Tokens
  BY Fields DEF Known
<1>2. request[v].token \in Tokens
  BY <1>1 DEF Refreshing, RequestOK
<1> QED
  BY <1>1, <1>2 DEF RequestKnown

\* What it has signed is not in a client's hands, nor live before it is stored.
LEMMA NextApart ==
  ASSUME TypeOK, Known, NEW v \in Workers, NEW t \in Tokens, t \in held
  PROVE  request[v].next # t
<1>1. RequestKnown(request[v]) /\ Used(t) /\ None \notin Tokens
  BY Fields DEF Known
<1> QED
  BY <1>1 DEF RequestKnown

\* A step that stores no row and lets no refresh begin.
LEMMA UnforkedKept ==
  ASSUME TypeOK, Known, Unforked, RowsKept, forked \subseteq forked',
         \A v \in Workers : Refreshing(v)' =>
           /\ Refreshing(v) /\ request'[v].token = request[v].token
           /\ request'[v].next = request[v].next \/ request[v].next = None,
         \A v \in Workers : Refreshing(v) /\ request[v].op = "revoke" =>
           \/ request'[v] = request[v]
           \/ sessions[request[v].token].login \in forked'
           \/ \A t \in Tokens : t = request[v].token => ~LiveSession(t)'
  PROVE  Unforked'
<1>1. ASSUME NEW v \in Workers, NEW l \in Tokens, Refreshes(v, l)'
      PROVE  Refreshes(v, l)
  <2>1. Refreshing(v) /\ request'[v].token = request[v].token /\ request[v].token \in Tokens
    BY <1>1, RefreshesUsed DEF Refreshes
  <2>2. sessions'[request'[v].token].login = l
    BY <1>1 DEF Refreshes
  <2>3. sessions[request[v].token].login = l
    BY <2>1, <2>2 DEF RowsKept
  <2> QED
    BY <2>1, <2>3 DEF Refreshes
<1>2. \A t \in Tokens : /\ LiveSession(t)' => LiveSession(t)
                        /\ sessions'[t].login = sessions[t].login
  BY DEF RowsKept
<1>3. ASSUME NEW l \in Tokens, l \notin forked'
      PROVE  OneRefresh(l)' /\ LiveOfRefresh(l)' /\ LivePair(l)'
  <2>1. OneRefresh(l) /\ LiveOfRefresh(l) /\ LivePair(l)
    BY <1>3 DEF Unforked
  <2>2. OneRefresh(l)'
    BY <1>1, <2>1 DEF OneRefresh
  <2>3. ASSUME NEW v \in Workers, NEW t \in Tokens, Refreshes(v, l)',
               LiveSession(t)', sessions'[t].login = l
        PROVE  t = request'[v].token \/ t = request'[v].next
    <3>1. t = request[v].token \/ t = request[v].next
      BY <1>1, <1>2, <2>1, <2>3 DEF LiveOfRefresh
    <3>2. /\ request'[v].token = request[v].token
          /\ request'[v].next = request[v].next \/ request[v].next = None
      BY <2>3 DEF Refreshes
    <3> QED
      BY <3>1, <3>2, NoneAssumption
  <2>4. ASSUME NEW s \in Tokens, NEW t \in Tokens,
               LiveSession(s)', LiveSession(t)', s # t,
               sessions'[s].login = l, sessions'[t].login = l
        PROVE  \E v \in Workers : Refreshes(v, l)' /\ request'[v].op = "revoke"
    <3>1. /\ LiveSession(s) /\ LiveSession(t)
          /\ sessions[s].login = l /\ sessions[t].login = l
      BY <1>2, <2>4
    <3>2. PICK v \in Workers : Refreshes(v, l) /\ request[v].op = "revoke"
      BY <2>1, <2>4, <3>1 DEF LivePair
    <3>3. s \in {request[v].token, request[v].next} /\ t \in {request[v].token, request[v].next}
      BY <2>1, <3>1, <3>2 DEF LiveOfRefresh
    <3>4. request[v].token \in {s, t}
      BY <2>4, <3>3
    <3>5. request'[v] = request[v]
      BY <1>3, <2>4, <3>2, <3>4 DEF Refreshes
    <3>6. request[v].token \in Tokens
      BY <3>2, RefreshesUsed DEF Refreshes
    <3>7. Refreshing(v)' /\ request'[v].op = "revoke"
      BY <3>2, <3>5 DEF Refreshes, Refreshing
    <3>8. sessions'[request'[v].token].login = l
      BY <1>2, <3>2, <3>5, <3>6 DEF Refreshes
    <3> QED
      BY <3>7, <3>8 DEF Refreshes
  <2>5. LiveOfRefresh(l)'
    BY <2>3 DEF LiveOfRefresh
  <2>6. LivePair(l)'
    BY <2>4 DEF LivePair
  <2> QED
    BY <2>2, <2>5, <2>6
<1> QED
  BY <1>3 DEF Unforked

\* Two refreshes of one login that is not forked do not find a live row.
LEMMA FindsAlone ==
  ASSUME TypeOK, Known, Unforked, NEW w \in Workers, Finds(w),
         LiveSession(request[w].token), request[w].kind = "refresh",
         sessions[request[w].token].login \notin forked'
  PROVE  LET l == sessions[request[w].token].login IN
         /\ \A v \in Workers : ~Refreshes(v, l)
         /\ \A t \in Tokens : LiveSession(t) /\ sessions[t].login = l => t = request[w].token
<1> DEFINE s == request[w].token
           l == sessions[s].login
<1>1. /\ s \in Tokens /\ s \in held /\ Used(s) /\ request[w].op = "find"
      /\ l \in Tokens
  <2>1. request[w].op = "find" /\ RequestKnown(request[w]) /\ RequestOK(request[w])
    BY Fields DEF Finds, Known
  <2>2. s \in Tokens /\ s \in held
    BY <2>1 DEF RequestKnown, RequestOK
  <2> QED
    BY <2>1, <2>2 DEF Known, RowsKnown
<1>2. ~Forks(w) /\ l \notin forked
  BY DEF Finds
<1>3. ASSUME NEW v \in Workers, Refreshes(v, l) PROVE FALSE
  <2>1. s = request[v].token \/ s = request[v].next
    BY <1>1, <1>2, <1>3 DEF Unforked, LiveOfRefresh
  <2>2. request[v].next # s
    BY <1>1, NextApart
  <2>3. Forks(w)
    BY <1>3, <2>1, <2>2 DEF Forks, Refreshes
  <2> QED
    BY <1>2, <2>3
<1>4. ASSUME NEW t \in Tokens, LiveSession(t), sessions[t].login = l, t # s PROVE FALSE
  BY <1>1, <1>2, <1>3, <1>4 DEF Unforked, LivePair
<1> QED
  BY <1>3, <1>4

LEMMA UnforkedQuiet ==
  ASSUME TypeOK, Known, Unforked, NEW w \in Workers, Quiet(w)
  PROVE  Unforked'
<1> DEFINE r == request[w]
<1>1. PICK q \in Request : /\ RequestOK(q) /\ Goto(w, q) /\ Moves(r, q)
                           /\ UNCHANGED <<rowTtl, sessions, held, now>>
  BY QuietMoves
<1>2. request'[w] = q /\ \A v \in Workers \ {w} : request'[v] = request[v]
  BY <1>1, GotoTyped
<1>3. RequestKnown(r) /\ RowsKept
  BY <1>1, SameRowsKept DEF Known
<1>4. forked \subseteq forked'
  BY Zenon DEF Quiet, Login, ChangePassword, ResetPassword, Present, Signs, Finds, Compares,
         Loads, Stamps, Saves, Writes, CutOff, Starts, Continues, history
<1>5. \A v \in Workers \ {w} : Refreshing(v)' <=> Refreshing(v)
  BY <1>2 DEF Refreshing
<1>6. Refreshing(w) /\ r.op = "revoke" => sessions[r.token].login \in forked'
  BY <1>4, LastSteps, Zenon DEF Quiet, Login, ChangePassword, ResetPassword, Present, Signs,
         Finds, Compares, Loads, Stamps, Saves, Writes, CutOff, Starts, Refreshing
<1>7. Refreshing(w)' =>
        \/ Refreshing(w) /\ q.token = r.token /\ (q.next = r.next \/ r.next = None)
        \/ r.op = "find" /\ q.op = "compare" /\ SameWork(r, q) /\ q.next = r.next
           /\ q.kind = "refresh" /\ LiveSession(r.token)
  <2>1. ASSUME Refreshing(w)' PROVE Reads(r, q) \/ SignsOff(r, q)
    <3>1. \/ q.kind = "refresh" /\ q.op \in {"compare", "load", "sign", "store"}
          \/ q.op = "revoke" /\ q.next # None
      BY <1>2, <2>1 DEF Refreshing
    <3> QED
      BY <1>1, <3>1, LastSteps DEF Moves, Begins, Presents, EndsAll, EndsOne, StampsOff
  <2>2. ASSUME Refreshing(w)' PROVE q.op = "revoke" \/ q.kind = "refresh"
    BY <1>2, <2>2 DEF Refreshing
  <2> QED
    BY <1>3, <2>1, <2>2 DEF Reads, SignsOff, SameWork, Refreshing, RequestKnown
<1>8. CASE ~Refreshing(w)' \/ Refreshing(w)
  <2>1. \A v \in Workers : Refreshing(v)' =>
          /\ Refreshing(v) /\ request'[v].token = request[v].token
          /\ request'[v].next = request[v].next \/ request[v].next = None
    BY <1>2, <1>5, <1>7, <1>8 DEF SameWork
  <2>2. \A v \in Workers : Refreshing(v) /\ request[v].op = "revoke" =>
          request'[v] = request[v] \/ sessions[request[v].token].login \in forked'
    BY <1>2, <1>6
  <2> QED
    BY <1>3, <1>4, <2>1, <2>2, UnforkedKept
<1>9. CASE Refreshing(w)' /\ ~Refreshing(w)
  <2>1. /\ r.op = "find" /\ SameWork(r, q) /\ q.next = r.next /\ q.op = "compare"
        /\ r.kind = "refresh" /\ LiveSession(r.token) /\ Finds(w)
    <3>1. r.op = "find" /\ SameWork(r, q) /\ q.next = r.next /\ q.op = "compare"
          /\ r.kind = "refresh" /\ LiveSession(r.token)
      BY <1>7, <1>9 DEF SameWork
    <3>2. q # Idle /\ r # Idle
      BY <3>1, LastSteps
    <3>3. request'[w] # Idle
      BY <1>2, <3>2
    <3>4. ~CutOff(w)
      BY <1>1, <3>2, GotoTyped, LastSteps DEF CutOff
    <3> QED
      BY <3>1, <3>2, <3>4, Zenon DEF Quiet, Login, ChangePassword, ResetPassword, Present,
        Starts, Signs, Compares, Loads, Stamps, Saves, Writes
  <2>2. ASSUME NEW l \in Tokens, l \notin forked'
        PROVE  OneRefresh(l)' /\ LiveOfRefresh(l)' /\ LivePair(l)'
    <3>1. OneRefresh(l) /\ LiveOfRefresh(l) /\ LivePair(l)
      BY <1>4, <2>2 DEF Unforked
    <3>2. \A v \in Workers \ {w} : Refreshes(v, l)' <=> Refreshes(v, l)
      BY <1>1, <1>2, <1>5 DEF Refreshes
    <3>3. Refreshes(w, l)' => sessions[r.token].login = l
      BY <1>1, <1>2, <2>1 DEF Refreshes, SameWork
    <3>4. sessions[r.token].login = l =>
            /\ \A v \in Workers : ~Refreshes(v, l)
            /\ \A t \in Tokens : LiveSession(t) /\ sessions[t].login = l => t = r.token
      BY <2>1, <2>2, FindsAlone
    <3>5. \A t \in Tokens : /\ LiveSession(t)' <=> LiveSession(t)
                            /\ sessions'[t].login = sessions[t].login
      BY <1>1 DEF LiveSession, Stored
    <3>6. OneRefresh(l)'
      BY <3>1, <3>2, <3>3, <3>4 DEF OneRefresh
    <3>7. request'[w].token = r.token
      BY <1>2, <2>1 DEF SameWork
    <3>8. LiveOfRefresh(l)'
      <4> SUFFICES ASSUME NEW v \in Workers, NEW t \in Tokens, Refreshes(v, l)',
                          LiveSession(t)', sessions'[t].login = l
                   PROVE  t = request'[v].token \/ t = request'[v].next
        BY DEF LiveOfRefresh
      <4>1. CASE v = w
        BY <3>3, <3>4, <3>5, <3>7, <4>1
      <4>2. CASE v # w
        BY <1>2, <3>1, <3>2, <3>5, <4>2 DEF LiveOfRefresh
      <4> QED
        BY <4>1, <4>2
    <3>9. LivePair(l)'
      <4> SUFFICES ASSUME NEW s \in Tokens, NEW t \in Tokens,
                          LiveSession(s)', LiveSession(t)', s # t,
                          sessions'[s].login = l, sessions'[t].login = l
                   PROVE  \E v \in Workers : Refreshes(v, l)' /\ request'[v].op = "revoke"
        BY DEF LivePair
      <4>1. PICK v \in Workers : Refreshes(v, l) /\ request[v].op = "revoke"
        BY <3>1, <3>5 DEF LivePair
      <4>2. v # w
        BY <2>1, <4>1
      <4> QED
        BY <1>2, <3>2, <4>1, <4>2
    <3> QED
      BY <3>6, <3>8, <3>9
  <2> QED
    BY <2>2 DEF Unforked
<1> QED
  BY <1>8, <1>9

LEMMA UnforkedRevokes ==
  ASSUME TypeOK, Known, Unforked, NEW w \in Workers, Revokes(w) \/ RevokesAll(w)
  PROVE  Unforked'
<1>1. /\ RowsKept /\ forked' = forked
      /\ request'[w] = Idle /\ \A v \in Workers \ {w} : request'[v] = request[v]
  BY RevokesKeeps, RevokesAllKeeps, RevokesRows, RevokesAllRows DEF Revokes, RevokesAll, history
<1>2. ~Refreshing(w)' /\ \A v \in Workers \ {w} : Refreshing(v)' <=> Refreshing(v)
  BY <1>1, LastSteps DEF Refreshing
<1>3. request[w].op = "revoke" => \A t \in Tokens : t = request[w].token => ~LiveSession(t)'
  BY RevokesKeeps DEF RevokesAll
<1> QED
  BY <1>1, <1>2, <1>3, UnforkedKept

LEMMA UnforkedStores ==
  ASSUME TypeOK, Known, Unforked, NEW w \in Workers, Stores(w)
  PROVE  Unforked'
<1>0. PICK r : r = request[w]
  OBVIOUS
<1>00. PICK n : n = r.next
  OBVIOUS
<1>1. /\ r.op = "store" /\ r.kind \in {"login", "refresh"} /\ r.user \in Users
      /\ n \in Tokens /\ ~Used(n) /\ n # None
      /\ r.kind = "refresh" => r.token \in Tokens /\ Used(r.token)
      /\ \A t \in Tokens \ {n} : sessions'[t] = sessions[t]
      /\ r.kind = "login" => sessions'[n].login = n
      /\ r.kind = "refresh" => sessions'[n].login = sessions[r.token].login
      /\ \A v \in Workers \ {w} : request'[v] = request[v]
      /\ r.kind = "login" => request'[w] = Idle
      /\ r.kind = "refresh" => request'[w] = Revoking(r.user, r.token, n)
  BY <1>0, <1>00, StoresRows
<1>2. forked' = forked
  BY DEF Stores
<1>3. \A t \in Tokens : Used(t) => /\ t # n /\ sessions'[t] = sessions[t]
                                   /\ sessions[t].login # n
  BY <1>1 DEF Known, RowsKnown
<1>4. r.kind = "refresh" => /\ request'[w].op = "revoke" /\ request'[w].token = r.token
                            /\ request'[w].next = n
  BY <1>1, LastSteps
<1>5. ASSUME NEW v \in Workers PROVE Refreshing(v)' <=> Refreshing(v)
  <2>1. CASE v # w
    BY <1>1, <2>1 DEF Refreshing
  <2>2. CASE v = w /\ r.kind = "login"
    BY <1>0, <1>1, <2>2, LastSteps DEF Refreshing
  <2>3. CASE v = w /\ r.kind = "refresh"
    BY <1>0, <1>1, <1>4, <2>3 DEF Refreshing
  <2> QED
    BY <1>1, <2>1, <2>2, <2>3
<1>6. ASSUME NEW v \in Workers, Refreshing(v)
      PROVE  request'[v].token = request[v].token
  <2>1. v = w => r.kind = "refresh"
    BY <1>0, <1>1, <1>6 DEF Refreshing
  <2> QED
    BY <1>0, <1>1, <1>4, <2>1
<1>7. ASSUME NEW v \in Workers, NEW l \in Tokens
      PROVE  /\ Refreshes(v, l)' <=> Refreshes(v, l)
             /\ Refreshes(v, l) => l # n
  <2>1. Refreshing(v) => /\ request[v].token \in Tokens /\ Used(request[v].token)
    BY RefreshesUsed
  <2> QED
    BY <1>3, <1>5, <1>6, <2>1 DEF Refreshes
<1>8. \A t \in Tokens : t # n => /\ LiveSession(t)' <=> LiveSession(t)
                                 /\ sessions'[t].login = sessions[t].login
                                 /\ LiveSession(t) => sessions[t].login # n
  BY <1>1, <1>3 DEF LiveSession, Stored, Used
<1>9. \A l \in Tokens : sessions'[n].login = l /\ l # n => Refreshes(w, l) /\ r.kind = "refresh"
  BY <1>0, <1>1 DEF Refreshes, Refreshing
<1>10. ASSUME NEW l \in Tokens, l \notin forked'
       PROVE  OneRefresh(l)' /\ LiveOfRefresh(l)' /\ LivePair(l)'
  <2>1. OneRefresh(l) /\ LiveOfRefresh(l) /\ LivePair(l)
    BY <1>2, <1>10 DEF Unforked
  <2>2. OneRefresh(l)'
    BY <1>7, <2>1 DEF OneRefresh
  <2>3. LiveOfRefresh(l)'
    <3> SUFFICES ASSUME NEW v \in Workers, NEW t \in Tokens, Refreshes(v, l)',
                        LiveSession(t)', sessions'[t].login = l
                 PROVE  t = request'[v].token \/ t = request'[v].next
      BY DEF LiveOfRefresh
    <3>1. Refreshes(v, l) /\ l # n
      BY <1>7
    <3>2. CASE t = n
      <4>1. v = w /\ r.kind = "refresh"
        BY <1>9, <2>1, <3>1, <3>2 DEF OneRefresh
      <4> QED
        BY <1>4, <3>2, <4>1
    <3>3. CASE t # n
      <4>1. t = request[v].token \/ t = request[v].next
        BY <1>8, <2>1, <3>1, <3>3 DEF LiveOfRefresh
      <4>2. v = w => request[v].next = n
        BY <1>0, <1>00
      <4>3. request'[v].token = request[v].token
        BY <1>6, <3>1 DEF Refreshes
      <4> QED
        BY <1>1, <3>3, <4>1, <4>2, <4>3
    <3> QED
      BY <3>2, <3>3
  <2>4. LivePair(l)'
    <3> SUFFICES ASSUME NEW s \in Tokens, NEW t \in Tokens,
                        LiveSession(s)', LiveSession(t)', s # t,
                        sessions'[s].login = l, sessions'[t].login = l
                 PROVE  \E v \in Workers : Refreshes(v, l)' /\ request'[v].op = "revoke"
      BY DEF LivePair
    <3>1. CASE s # n /\ t # n
      <4>1. PICK v \in Workers : Refreshes(v, l) /\ request[v].op = "revoke"
        BY <1>8, <2>1, <3>1 DEF LivePair
      <4>2. v # w
        BY <1>0, <1>1, <4>1
      <4> QED
        BY <1>1, <1>7, <4>1, <4>2
    <3>2. CASE s = n \/ t = n
      <4>1. l # n /\ sessions'[n].login = l
        BY <1>8, <3>2
      <4>2. Refreshes(w, l) /\ r.kind = "refresh"
        BY <1>9, <4>1
      <4> QED
        BY <1>4, <1>7, <4>2
    <3> QED
      BY <3>1, <3>2
  <2> QED
    BY <2>2, <2>3, <2>4
<1> QED
  BY <1>10 DEF Unforked

LEMMA UnforkedOthers ==
  ASSUME TypeOK, Known, Unforked
  PROVE  /\ \A t \in Tokens : RemoveExpired(t) => Unforked'
         /\ \A u \in Users, b \in BOOLEAN : SetStatus(u, b) => Unforked'
         /\ Tick => Unforked'
         /\ UNCHANGED vars => Unforked'
<1>1. ASSUME RowsKept, UNCHANGED <<request, forked>> PROVE Unforked'
  <2>1. \A v \in Workers : Refreshing(v)' <=> Refreshing(v)
    BY <1>1 DEF Refreshing
  <2> QED
    BY <1>1, <2>1, UnforkedKept
<1> QED
  BY <1>1, RemoveExpiredKeeps, SameRowsKept DEF RemoveExpired, SetStatus, Tick, vars, history

-----------------------------------------------------------------------------
(* Logins that a change of password has ended *)

Refreshed(v, u, l) ==
  /\ request[v].kind = "refresh" /\ request[v].op \in {"compare", "load", "sign", "store"}
  /\ request[v].user = u /\ sessions[request[v].token].login = l

LEMMA StillRefreshedBy ==
  \A u, l : StillRefreshed(u, l) <=> \E v \in Workers : Refreshed(v, u, l)
BY DEF StillRefreshed, Refreshed

Pends(v, u) ==
  request[v].op = "revokeAll" /\ request[v].kind = "change" /\ request[v].user = u

\* A step that stores no row; a refresh that begins has found a live row.
LEMMA EndedKept ==
  ASSUME TypeOK, Known, EndedInv, RowsKept, ended' \subseteq ended,
         \A v \in Workers : \A u, l :
           Refreshed(v, u, l)' =>
             \/ Refreshed(v, u, l)
             \/ \E t \in Tokens : LiveSession(t) /\ sessions[t].login = l,
         \A v \in Workers : \A l \in ended' :
           Pends(v, sessions[l].user) => Pends(v, sessions[l].user)' \/ Dead(l)'
  PROVE  EndedInv'
<1> SUFFICES ASSUME NEW l \in Tokens, l \in ended'
             PROVE  Used(l)' /\ (Pending(sessions[l].user)' \/ Dead(l)')
  BY DEF EndedInv, TypeOK
<1>1. Used(l) /\ (Pending(sessions[l].user) \/ Dead(l))
  BY DEF EndedInv
<1>2. Used(l)' /\ sessions'[l].user = sessions[l].user
  BY <1>1 DEF RowsKept, Used
<1>3. PICK u : u = sessions[l].user
  OBVIOUS
<1>4. CASE Pending(u)
  <2>1. PICK v \in Workers : Pends(v, u)
    BY <1>4 DEF Pending, Pends
  <2>2. Pends(v, u)' \/ Dead(l)'
    BY <1>2, <1>3, <2>1 DEF Pends
  <2> QED
    BY <1>2, <1>3, <2>2 DEF Pending, Pends
<1>5. CASE Dead(l)
  <2>1. \A t \in Tokens : LiveSession(t)' => sessions'[t].login # l
    BY <1>5 DEF Dead, RowsKept
  <2>2. \A v \in Workers : ~Refreshed(v, u, l)'
    BY <1>3, <1>5, StillRefreshedBy DEF Dead
  <2>3. ~StillRefreshed(sessions[l].user, l)'
    BY <1>2, <1>3, <2>2 DEF StillRefreshed, Refreshed
  <2> QED
    BY <1>2, <2>1, <2>3 DEF Dead
<1> QED
  BY <1>1, <1>3, <1>4, <1>5, <1>2

LEMMA EndedQuiet ==
  ASSUME TypeOK, Known, EndedInv, NEW w \in Workers, Quiet(w)
  PROVE  EndedInv'
<1> DEFINE r == request[w]
<1>1. PICK q \in Request : /\ RequestOK(q) /\ Goto(w, q) /\ Moves(r, q)
                           /\ UNCHANGED <<rowTtl, sessions, held, now>>
  BY QuietMoves
<1>2. request'[w] = q /\ \A v \in Workers \ {w} : request'[v] = request[v]
  BY <1>1, GotoTyped
<1>3. ASSUME NEW v \in Workers, NEW u, NEW l, Refreshed(v, u, l)'
      PROVE  \/ Refreshed(v, u, l)
             \/ \E t \in Tokens : LiveSession(t) /\ sessions[t].login = l
  <2>1. CASE v # w
    BY <1>1, <1>2, <1>3, <2>1 DEF Refreshed
  <2>2. CASE v = w
    <3>1. /\ q.kind = "refresh" /\ q.op \in {"compare", "load", "sign", "store"}
          /\ q.user = u /\ sessions[q.token].login = l
      BY <1>1, <1>2, <1>3, <2>2 DEF Refreshed
    <3>2. Reads(r, q) \/ SignsOff(r, q)
      BY <1>1, <3>1, LastSteps DEF Moves, Begins, Presents, EndsAll, EndsOne, StampsOff
    <3>3. r.kind = "refresh" => r.token \in Tokens
      BY Fields DEF RequestOK
    <3> QED
      BY <2>2, <3>1, <3>2, <3>3 DEF Reads, SignsOff, SameWork, Refreshed
  <2> QED
    BY <2>1, <2>2
<1>4. \A v \in Workers \ {w} : \A u : Pends(v, u) => Pends(v, u)'
  BY <1>2 DEF Pends
<1>5. RowsKept
  BY <1>1, SameRowsKept
<1>6. CASE Saves(w) /\ r.kind = "change"
  <2>1. PICK u \in Users : r.user = u
    BY <1>6, Fields DEF Saves, Writes, RequestOK
  <2>2. Pends(w, u)'
    <3>1. Goto(w, RevokingAll(u, "change"))
      BY <1>6, <2>1 DEF Saves, Writes
    <3>2. request'[w] = RevokingAll(u, "change")
      BY <3>1, LastSteps, GotoTyped
    <3> QED
      BY <3>2, LastSteps DEF Pends
  <2>3. ended' = ended \cup {sessions[t].login : t \in IssuedTo(u)}
    BY <1>6, <2>1 DEF Saves, Writes
  <2>4. \A l \in ended' : l \in ended \/ (Used(l) /\ sessions[l].user = u)
    <3>1. u # None
      BY NoneAssumption
    <3>2. \A t \in IssuedTo(u) : Used(t) /\ sessions[t].user = u /\ t \in Tokens
      BY <3>1 DEF IssuedTo, Known, RowsKnown, NoRow
    <3> QED
      BY <2>3, <3>2 DEF Known, RowsKnown
  <2>5. ~Pends(w, u) /\ r.op = "save"
    BY <1>6 DEF Saves, Writes, Pends
  <2>6. ASSUME NEW l \in ended'
        PROVE  Used(l)' /\ (Pending(sessions[l].user)' \/ Dead(l)')
    <3>1. CASE sessions[l].user = u
      <4>1. Used(l)
        BY <2>4 DEF EndedInv
      <4> QED
        BY <1>1, <2>2, <3>1, <4>1 DEF Used, Pending, Pends
    <3>2. CASE sessions[l].user # u
      <4>1. l \in ended /\ Used(l) /\ l \in Tokens
        BY <2>4, <3>2 DEF EndedInv, TypeOK
      <4>2. CASE Pending(sessions[l].user)
        <5>1. PICK v \in Workers : Pends(v, sessions[l].user)
          BY <4>2 DEF Pending, Pends
        <5>2. v # w
          BY <2>5, <5>1 DEF Pends
        <5> QED
          BY <1>1, <1>2, <4>1, <5>1, <5>2 DEF Pending, Pends, Used
      <4>3. CASE Dead(l)
        <5>1. \A t \in Tokens : LiveSession(t)' => sessions'[t].login # l
          BY <1>1, <4>3 DEF Dead, LiveSession, Stored
        <5>2. ~StillRefreshed(sessions[l].user, l)'
          BY <1>1, <1>3, <4>3 DEF Dead, StillRefreshed, Refreshed
        <5> QED
          BY <1>1, <4>1, <5>1, <5>2 DEF Dead, Used
      <4> QED
        BY <4>1, <4>2, <4>3 DEF EndedInv
    <3> QED
      BY <3>1, <3>2
  <2> QED
    BY <2>6 DEF EndedInv
<1>7. CASE ~(Saves(w) /\ r.kind = "change")
  <2>1. ended' \subseteq ended
    BY <1>7, Zenon DEF Quiet, Login, ChangePassword, ResetPassword, Present, Signs, Finds,
         Compares, Loads, Stamps, Saves, Writes, CutOff, Starts, Continues, history
  <2>2. ASSUME NEW l \in ended', Pends(w, sessions[l].user) PROVE FALSE
    <3>1. r.op = "revokeAll" /\ r.kind = "change" /\ r.user = sessions[l].user
      BY <2>2 DEF Pends
    <3>2. CutOff(w)
      BY <3>1, LastSteps, Zenon DEF Quiet, Login, ChangePassword, ResetPassword, Present,
         Starts, Signs, Finds, Compares, Loads, Stamps, Saves, Writes
    <3>3. l \notin IssuedTo(r.user) /\ l \in Tokens
      BY <2>1, <3>1, <3>2 DEF CutOff, TypeOK
    <3> QED
      BY <3>1, <3>3 DEF IssuedTo
  <2>3. \A v \in Workers : \A l \in ended' :
          Pends(v, sessions[l].user) => Pends(v, sessions[l].user)'
    <3>1. \A v \in Workers \ {w} : \A l : Pends(v, sessions[l].user) => Pends(v, sessions[l].user)'
      BY <1>1, <1>2 DEF Pends
    <3> QED
      BY <2>2, <3>1
  <2> QED
    BY <1>3, <1>5, <2>1, <2>3, EndedKept
<1> QED
  BY <1>6, <1>7

LEMMA EndedRevokes ==
  ASSUME TypeOK, Known, EndedInv, NEW w \in Workers, Revokes(w) \/ RevokesAll(w)
  PROVE  EndedInv'
<1> DEFINE r == request[w]
<1>1. /\ RowsKept /\ ended' \subseteq ended
      /\ request'[w] = Idle /\ \A v \in Workers \ {w} : request'[v] = request[v]
  BY RevokesKeeps, RevokesAllKeeps, RevokesRows, RevokesAllRows DEF Revokes, RevokesAll, history
<1>2. ASSUME NEW v \in Workers, NEW u, NEW l, Refreshed(v, u, l)' PROVE Refreshed(v, u, l)
  <2>1. v # w /\ request'[v] = request[v]
    BY <1>1, <1>2, LastSteps DEF Refreshed
  <2>2. request[v].kind = "refresh" => request[v].token \in Tokens
    BY Fields DEF RequestOK
  <2> QED
    BY <1>1, <1>2, <2>1, <2>2 DEF Refreshed, RowsKept
<1>3. ASSUME NEW v \in Workers, NEW l \in ended', Pends(v, sessions[l].user)
      PROVE  Pends(v, sessions[l].user)' \/ Dead(l)'
  <2>0. l \in Tokens /\ sessions'[l].user = sessions[l].user
    BY <1>1 DEF TypeOK, RowsKept
  <2>1. CASE v # w
    BY <1>1, <1>3, <2>0, <2>1 DEF Pends
  <2>2. CASE v = w
    <3>1. RevokesAll(w) /\ r.kind = "change" /\ sessions[l].user = r.user
      BY <1>3, <2>2 DEF Pends, Revokes
    <3>2. ~StillRefreshed(r.user, l)
      BY <3>1 DEF RevokesAll
    <3>3. ~StillRefreshed(sessions[l].user, l)'
      BY <1>2, <2>0, <3>1, <3>2 DEF StillRefreshed, Refreshed
    <3>4. ASSUME NEW t \in Tokens, LiveSession(t)', sessions'[t].login = l PROVE FALSE
      <4>1. sessions[t].user # r.user /\ LiveSession(t) /\ sessions[t].login = l
        BY <1>1, <3>1, <3>4, RevokesAllKeeps DEF RowsKept
      <4>2. Used(t)
        BY <4>1 DEF LiveSession, Stored, Used
      <4> QED
        BY <3>1, <4>1, <4>2 DEF Known, RowsKnown
    <3> QED
      BY <3>3, <3>4 DEF Dead
  <2> QED
    BY <2>1, <2>2
<1> QED
  BY <1>1, <1>2, <1>3, EndedKept

LEMMA EndedStores ==
  ASSUME TypeOK, Known, EndedInv, NEW w \in Workers, Stores(w)
  PROVE  EndedInv'
<1>0. PICK r : r = request[w]
  OBVIOUS
<1>00. PICK n : n = r.next
  OBVIOUS
<1>1. /\ r.op = "store" /\ r.kind \in {"login", "refresh"} /\ r.user \in Users
      /\ n \in Tokens /\ ~Used(n) /\ n # None
      /\ r.kind = "refresh" => /\ r.token \in Tokens /\ Used(r.token)
                               /\ sessions[r.token].user = r.user
      /\ \A t \in Tokens \ {n} : sessions'[t] = sessions[t]
      /\ r.kind = "login" => sessions'[n].login = n
      /\ r.kind = "refresh" => sessions'[n].login = sessions[r.token].login
      /\ \A v \in Workers \ {w} : request'[v] = request[v]
      /\ r.kind = "login" => request'[w] = Idle
      /\ r.kind = "refresh" => request'[w] = Revoking(r.user, r.token, n)
  BY <1>0, <1>00, StoresRows
<1>2. ended' = ended
  BY DEF Stores
<1>3. ASSUME NEW v \in Workers, NEW u, NEW l, Refreshed(v, u, l)' PROVE Refreshed(v, u, l)
  <2>1. request'[w].op \in {"idle", "revoke"}
    BY <1>1, LastSteps
  <2>2. v # w /\ request'[v] = request[v] /\ request[v].kind = "refresh"
    BY <1>1, <1>3, <2>1 DEF Refreshed
  <2>3. request[v].token \in Tokens /\ Used(request[v].token)
    <3>1. RequestOK(request[v]) /\ RequestKnown(request[v]) /\ None \notin Tokens
      BY Fields DEF Known
    <3> QED
      BY <2>2, <3>1 DEF RequestOK, RequestKnown
  <2>4. sessions'[request[v].token] = sessions[request[v].token]
    BY <1>1, <2>3
  <2> QED
    BY <1>3, <2>2, <2>4 DEF Refreshed
<1>4. ASSUME NEW l \in Tokens, l \in ended
      PROVE  Used(l)' /\ (Pending(sessions[l].user)' \/ Dead(l)')
  <2>1. Used(l) /\ l # n /\ sessions'[l] = sessions[l]
    BY <1>1, <1>4 DEF EndedInv
  <2>2. Used(l)'
    BY <2>1 DEF Used
  <2>3. CASE Pending(sessions[l].user)
    <3>1. PICK v \in Workers : Pends(v, sessions[l].user)
      BY <2>3 DEF Pending, Pends
    <3>2. request'[v] = request[v]
      BY <1>0, <1>1, <3>1 DEF Pends
    <3> QED
      BY <2>1, <2>2, <3>1, <3>2 DEF Pending, Pends
  <2>4. CASE Dead(l)
    <3>1. ~StillRefreshed(sessions[l].user, l)'
      BY <1>3, <2>1, <2>4 DEF Dead, StillRefreshed, Refreshed
    <3>2. r.kind = "refresh" => sessions[r.token].login # l
      <4>1. r.kind = "refresh" /\ sessions[r.token].login = l => Refreshed(w, sessions[l].user, l)
        BY <1>0, <1>1 DEF Refreshed, Known, RowsKnown
      <4> QED
        BY <2>4, <4>1 DEF Dead, StillRefreshed, Refreshed
    <3>3. sessions'[n].login # l
      BY <1>1, <2>1, <3>2
    <3>4. \A t \in Tokens : LiveSession(t)' => sessions'[t].login # l
      BY <1>1, <2>4, <3>3 DEF Dead, LiveSession, Stored
    <3> QED
      BY <2>2, <3>1, <3>4 DEF Dead
  <2> QED
    BY <1>4, <2>3, <2>4 DEF EndedInv
<1> QED
  BY <1>2, <1>4 DEF EndedInv, TypeOK

LEMMA EndedOthers ==
  ASSUME TypeOK, Known, EndedInv
  PROVE  /\ \A t \in Tokens : RemoveExpired(t) => EndedInv'
         /\ \A u \in Users, b \in BOOLEAN : SetStatus(u, b) => EndedInv'
         /\ Tick => EndedInv'
         /\ UNCHANGED vars => EndedInv'
<1>1. ASSUME RowsKept, UNCHANGED <<request, ended>> PROVE EndedInv'
  <2>1. ASSUME NEW v \in Workers, NEW u, NEW l, Refreshed(v, u, l)' PROVE Refreshed(v, u, l)
    <3>1. request[v].kind = "refresh" => request[v].token \in Tokens
      BY Fields DEF RequestOK
    <3> QED
      BY <1>1, <2>1, <3>1 DEF Refreshed, RowsKept
  <2>2. \A v \in Workers : \A l \in ended' : Pends(v, sessions[l].user) => Pends(v, sessions[l].user)'
    BY <1>1 DEF Pends, RowsKept, TypeOK
  <2> QED
    BY <1>1, <2>1, <2>2, EndedKept
<1> QED
  BY <1>1, RemoveExpiredKeeps, SameRowsKept DEF RemoveExpired, SetStatus, Tick, vars, history

-----------------------------------------------------------------------------
(* When tokens were signed *)

Signing(r) == r.op \in {"store", "save"}

\* A step that stores no row and changes neither passwordChangedAt nor the
\* requests that have signed or stamped.
LEMMA DatedKept ==
  ASSUME TypeOK, Known, Dated, RowsKept, UNCHANGED <<outdated, gap>>,
         \A u \in Users : users'[u].changedAt = users[u].changedAt,
         \A v \in Workers :
           \/ request'[v] = request[v]
           \/ ~Signing(request[v]) /\ ~Signing(request'[v])
  PROVE  Dated'
<1>1. \A t \in Tokens : /\ Used(t)' <=> Used(t)
                        /\ Used(t) => sessions[t].user \in Users
                        /\ sessions'[t].user = sessions[t].user
                        /\ sessions'[t].signedAt = sessions[t].signedAt
  BY DEF RowsKept, Used, Known, RowsKnown
<1>2. \A v \in Workers : Signing(request[v]) => request[v].user \in Users
  BY Fields DEF Signing, RequestOK
<1>3. \A v \in Workers :
        /\ request'[v].op \in {"store", "save"} => request'[v] = request[v]
        /\ request[v].op \in {"store", "save"} => request'[v] = request[v]
  BY DEF Signing
<1>4. OutdatedRows'
  <2> SUFFICES ASSUME NEW t \in Tokens, t \in outdated
               PROVE  IF Used(t)'
                      THEN sessions'[t].signedAt <= users'[sessions'[t].user].changedAt
                      ELSE \E v \in Workers :
                             /\ request'[v].op = "store" /\ request'[v].next = t
                             /\ request'[v].at <= users'[request'[v].user].changedAt
    BY DEF OutdatedRows, TypeOK
  <2>1. CASE Used(t)
    <3>1. sessions[t].signedAt <= users[sessions[t].user].changedAt
      BY <2>1 DEF Dated, OutdatedRows
    <3> QED
      BY <1>1, <2>1, <3>1
  <2>2. CASE ~Used(t)
    <3>1. PICK v \in Workers : /\ request[v].op = "store" /\ request[v].next = t
                               /\ request[v].at <= users[request[v].user].changedAt
      BY <2>2 DEF Dated, OutdatedRows
    <3>2. request'[v] = request[v] /\ request[v].user \in Users
      BY <1>2, <1>3, <3>1 DEF Signing
    <3>3. users'[request'[v].user].changedAt = users[request[v].user].changedAt
      BY <3>2
    <3> QED
      BY <1>1, <2>2, <3>1, <3>2, <3>3
  <2> QED
    BY <2>1, <2>2
<1>5. ASSUME NEW v \in Workers, request'[v].op = "save" PROVE StampedAfter(v)'
  <2>1. request'[v] = request[v] /\ StampedAfter(v) /\ gap'[v] = gap[v]
    BY <1>3, <1>5 DEF Dated
  <2>2. \A t \in Tokens : Used(t)' /\ sessions'[t].user = request'[v].user /\ t \notin gap'[v] =>
                            sessions'[t].signedAt <= request'[v].at
    BY <1>1, <1>5, <2>1 DEF StampedAfter
  <2>3. \A x \in Workers :
          /\ request'[x].op = "store" /\ request'[x].user = request'[v].user
          /\ request'[x].next \notin gap'[v]
          => request'[x].at <= request'[v].at
    BY <1>3, <1>5, <2>1 DEF StampedAfter
  <2> QED
    BY <2>2, <2>3 DEF StampedAfter
<1>6. \A v \in Workers : request'[v].op # "save" => gap'[v] = {}
  BY <1>3 DEF Dated
<1> QED
  BY <1>4, <1>5, <1>6 DEF Dated, StampedAfter

LEMMA DatedSigns ==
  ASSUME TypeOK, Known, Timed, Dated, NEW w \in Workers, NEW s \in Tokens, Signs(w, s)
  PROVE  Dated'
<1>0. PICK r : r = request[w]
  OBVIOUS
<1>1. /\ r \in Request /\ RequestOK(r) /\ r.op = "sign" /\ ~Used(s) /\ now \in Nat
      /\ \A v \in Workers : request[v].next # s
      /\ UNCHANGED <<sessions, users, outdated>>
  BY <1>0, Fields DEF Signs, Used
<1>2. PICK q : q = HasSigned(r, s, now)
  OBVIOUS
<1>3. /\ q \in Request /\ q.op = "store" /\ q.kind = r.kind /\ q.user = r.user
      /\ q.token = r.token /\ q.next = s /\ q.at = now
  BY <1>1, <1>2, Signed
<1>4. Goto(w, q)
  BY <1>0, <1>2, Zenon DEF Signs, HasSigned
<1>5. RequestOK(q)
  BY <1>1, <1>3 DEF RequestOK
<1>6. request'[w] = q /\ \A v \in Workers \ {w} : request'[v] = request[v]
  BY <1>3, <1>4, <1>5, GotoTyped
<1>7. \A v \in Workers : gap'[v] = IF request[v].op = "save" /\ request[v].user = r.user
                                   THEN gap[v] \cup {s} ELSE gap[v]
  BY <1>0 DEF Signs
<1>8. OutdatedRows'
  <2> SUFFICES ASSUME NEW t \in outdated
               PROVE  IF Used(t)
                      THEN sessions[t].signedAt <= users[sessions[t].user].changedAt
                      ELSE \E v \in Workers :
                             /\ request'[v].op = "store" /\ request'[v].next = t
                             /\ request'[v].at <= users[request'[v].user].changedAt
    BY <1>1 DEF OutdatedRows, Used
  <2>1. CASE ~Used(t)
    <3>1. PICK v \in Workers : /\ request[v].op = "store" /\ request[v].next = t
                               /\ request[v].at <= users[request[v].user].changedAt
      BY <2>1 DEF Dated, OutdatedRows
    <3>2. v # w
      BY <1>0, <1>1, <3>1
    <3> QED
      BY <1>6, <2>1, <3>1, <3>2
  <2>2. CASE Used(t)
    BY <2>2 DEF Dated, OutdatedRows
  <2> QED
    BY <2>1, <2>2
<1>9. ASSUME NEW v \in Workers, request'[v].op = "save" PROVE StampedAfter(v)'
  <2>1. v # w /\ request'[v] = request[v] /\ request[v].op = "save" /\ gap[v] \subseteq gap'[v]
    BY <1>3, <1>6, <1>7, <1>9
  <2>2. StampedAfter(v)
    BY DEF Dated
  <2>3. \A t \in Tokens : Used(t)' /\ sessions'[t].user = request'[v].user /\ t \notin gap'[v] =>
                            sessions'[t].signedAt <= request'[v].at
    BY <1>1, <2>1, <2>2 DEF StampedAfter, Used
  <2>4. ASSUME NEW x \in Workers, request'[x].op = "store", request'[x].user = request'[v].user,
               request'[x].next \notin gap'[v]
        PROVE  request'[x].at <= request'[v].at
    <3>1. x # w
      BY <1>3, <1>6, <1>7, <2>1, <2>4
    <3> QED
      BY <1>6, <2>1, <2>2, <2>4, <3>1 DEF StampedAfter
  <2> QED
    BY <2>3, <2>4 DEF StampedAfter
<1>10. \A v \in Workers : request'[v].op # "save" => gap'[v] = {}
  BY <1>0, <1>1, <1>6, <1>7 DEF Dated
<1> QED
  BY <1>8, <1>9, <1>10 DEF Dated, StampedAfter

LEMMA DatedStamps ==
  ASSUME TypeOK, Known, Timed, Dated, NEW w \in Workers, Stamps(w)
  PROVE  Dated'
<1>0. PICK r : r = request[w]
  OBVIOUS
<1>1. /\ r \in Request /\ RequestOK(r) /\ r.op = "stamp" /\ now \in Nat
      /\ UNCHANGED <<sessions, users, outdated, gap>>
  BY <1>0, Fields DEF Stamps, Continues, history
<1>2. PICK q : q = HasStamped(r, now)
  OBVIOUS
<1>3. /\ q \in Request /\ q.op = "save" /\ q.user = r.user /\ q.kind = r.kind
      /\ q.token = r.token /\ q.at = now
  BY <1>1, <1>2, Stamped
<1>4. Goto(w, q)
  BY <1>0, <1>2, Zenon DEF Stamps, Continues, HasStamped
<1>5. RequestOK(q)
  BY <1>1, <1>3 DEF RequestOK
<1>6. request'[w] = q /\ \A v \in Workers \ {w} : request'[v] = request[v]
  BY <1>3, <1>4, <1>5, GotoTyped
<1>7. OutdatedRows'
  <2> SUFFICES ASSUME NEW t \in outdated
               PROVE  IF Used(t)
                      THEN sessions[t].signedAt <= users[sessions[t].user].changedAt
                      ELSE \E v \in Workers :
                             /\ request'[v].op = "store" /\ request'[v].next = t
                             /\ request'[v].at <= users[request'[v].user].changedAt
    BY <1>1 DEF OutdatedRows, Used
  <2>1. CASE ~Used(t)
    <3>1. PICK v \in Workers : /\ request[v].op = "store" /\ request[v].next = t
                               /\ request[v].at <= users[request[v].user].changedAt
      BY <2>1 DEF Dated, OutdatedRows
    <3>2. v # w
      BY <1>0, <1>1, <3>1
    <3> QED
      BY <1>6, <2>1, <3>1, <3>2
  <2>2. CASE Used(t)
    BY <2>2 DEF Dated, OutdatedRows
  <2> QED
    BY <2>1, <2>2
<1>8. ASSUME NEW v \in Workers, request'[v].op = "save" PROVE StampedAfter(v)'
  <2>1. CASE v = w
    <3>1. \A t \in Tokens : Used(t) => sessions[t].signedAt <= now
      BY DEF Timed, RowTimed
    <3>2. \A x \in Workers : request[x].at <= now
      BY DEF Timed, RequestTimed
    <3> QED
      BY <1>1, <1>3, <1>6, <2>1, <3>1, <3>2 DEF StampedAfter, Used
  <2>2. CASE v # w
    <3>1. StampedAfter(v) /\ request'[v] = request[v] /\ gap'[v] = gap[v]
      BY <1>1, <1>6, <2>2 DEF Dated
    <3>2. \A x \in Workers : request'[x].op = "store" => request'[x] = request[x]
      BY <1>3, <1>6
    <3> QED
      BY <1>1, <1>8, <3>1, <3>2 DEF StampedAfter, Used
  <2> QED
    BY <2>1, <2>2
<1>9. \A v \in Workers : request'[v].op # "save" => gap'[v] = {}
  BY <1>1, <1>3, <1>6 DEF Dated
<1> QED
  BY <1>7, <1>8, <1>9 DEF Dated, StampedAfter

LEMMA DatedSaves ==
  ASSUME TypeOK, Known, Dated, NEW w \in Workers, Saves(w)
  PROVE  Dated'
<1>0. PICK r : r = request[w]
  OBVIOUS
<1>1. /\ r.op = "save" /\ r.user \in Users /\ r.at \in Nat /\ r.next = None
      /\ None \notin Tokens \cup Users
      /\ sessions' = sessions
      /\ users' = [users EXCEPT ![r.user].version = @ + 1, ![r.user].changedAt = r.at]
      /\ outdated' = (outdated \cup SignedFor(r.user)) \ gap[w]
      /\ \A v \in Workers : gap'[v] = IF v = w THEN {} ELSE gap[v]
  <2>1. r.op = "save" /\ RequestOK(r) /\ RequestKnown(r) /\ r.at \in Nat
    BY <1>0, Fields DEF Saves, Writes, Known
  <2> QED
    BY <1>0, <2>1, NoneAssumption DEF Saves, Writes, RequestOK, RequestKnown, TypeOK
<1>2. /\ users'[r.user].changedAt = r.at
      /\ \A u \in Users \ {r.user} : users'[u] = users[u]
  BY <1>1, PasswordSet
<1>3. /\ ~Signing(request'[w]) /\ \A v \in Workers \ {w} : request'[v] = request[v]
  <2>1. CASE r.kind = "change"
    <3>1. Goto(w, RevokingAll(r.user, "change"))
      BY <1>0, <2>1 DEF Saves, Writes
    <3> QED
      BY <1>1, <3>1, LastSteps, GotoTyped DEF Signing
  <2>2. CASE r.kind # "change"
    <3>1. Goto(w, Idle)
      BY <1>0, <2>2 DEF Saves, Writes
    <3> QED
      BY <3>1, LastSteps, GotoTyped DEF Signing
  <2> QED
    BY <2>1, <2>2
<1>4. StampedAfter(w)
  BY DEF Dated
<1>5. ASSUME NEW t \in Tokens, t \in outdated', Used(t)
      PROVE  sessions[t].signedAt <= users'[sessions[t].user].changedAt
  <2>1. sessions[t].user \in Users
    BY <1>5 DEF Known, RowsKnown
  <2>2. CASE sessions[t].user = r.user
    BY <1>0, <1>1, <1>2, <1>4, <1>5, <2>2 DEF StampedAfter
  <2>3. CASE sessions[t].user # r.user
    <3>1. t \notin SignedFor(r.user)
      BY <1>5, <2>3 DEF SignedFor, IssuedTo, Known, RequestKnown
    <3>2. sessions[t].signedAt <= users[sessions[t].user].changedAt
      BY <1>1, <1>5, <3>1 DEF Dated, OutdatedRows
    <3> QED
      BY <1>2, <2>1, <2>3, <3>2
  <2> QED
    BY <2>2, <2>3
<1>6. ASSUME NEW t \in Tokens, t \in outdated', ~Used(t)
      PROVE  \E v \in Workers : /\ request'[v].op = "store" /\ request'[v].next = t
                                /\ request'[v].at <= users'[request'[v].user].changedAt
  <2>1. sessions[t].user # r.user
    BY <1>1, <1>6 DEF Known, RowsKnown, NoRow
  <2>2. PICK v \in Workers : /\ request[v].op = "store" /\ request[v].next = t
                             /\ request[v].user = r.user
                                \/ request[v].at <= users[request[v].user].changedAt
    <3>1. t \in outdated \/ t \in SignedFor(r.user)
      BY <1>1, <1>6
    <3>2. CASE t \in outdated
      BY <1>6, <3>2 DEF Dated, OutdatedRows
    <3>3. CASE t \in SignedFor(r.user)
      BY <2>1, <3>3 DEF SignedFor, IssuedTo
    <3> QED
      BY <3>1, <3>2, <3>3
  <2>3. v # w /\ request'[v] = request[v] /\ request[v].user \in Users
    BY <1>0, <1>1, <1>3, <2>2, Fields DEF RequestOK
  <2>4. request[v].at <= users'[request[v].user].changedAt
    <3>1. CASE request[v].user = r.user
      BY <1>0, <1>1, <1>2, <1>4, <1>6, <2>2, <3>1 DEF StampedAfter
    <3>2. CASE request[v].user # r.user
      BY <1>2, <2>2, <2>3, <3>2
    <3> QED
      BY <3>1, <3>2
  <2> QED
    BY <2>2, <2>3, <2>4
<1>7. outdated' \subseteq Tokens
  BY <1>1 DEF TypeOK, SignedFor, IssuedTo
<1>8. OutdatedRows'
  BY <1>1, <1>5, <1>6, <1>7 DEF OutdatedRows, Used
<1>9. ASSUME NEW v \in Workers, request'[v].op = "save" PROVE StampedAfter(v)'
  <2>1. v # w /\ request'[v] = request[v] /\ gap'[v] = gap[v] /\ StampedAfter(v)
    BY <1>1, <1>3, <1>9 DEF Signing, Dated
  <2>2. \A x \in Workers : request'[x].op = "store" => request'[x] = request[x]
    BY <1>3 DEF Signing
  <2> QED
    BY <1>1, <1>9, <2>1, <2>2 DEF StampedAfter, Used
<1>10. \A v \in Workers : request'[v].op # "save" => gap'[v] = {}
  BY <1>1, <1>3 DEF Dated
<1> QED
  BY <1>8, <1>9, <1>10 DEF Dated, StampedAfter

LEMMA DatedCutOff ==
  ASSUME TypeOK, Known, Dated, NEW w \in Workers, CutOff(w)
  PROVE  Dated'
<1>0. PICK r : r = request[w]
  OBVIOUS
<1>00. PICK unsent : unsent = IF r.op = "store" THEN {r.next} ELSE {}
  OBVIOUS
<1>1. /\ UNCHANGED <<sessions, users>>
      /\ outdated' = outdated \ unsent
      /\ \A v \in Workers : gap'[v] = IF v = w THEN {} ELSE gap[v] \ unsent
      /\ Goto(w, Idle)
  BY <1>0, <1>00 DEF CutOff
<1>2. request'[w] = Idle /\ \A v \in Workers \ {w} : request'[v] = request[v]
  BY <1>1, LastSteps, GotoTyped
<1>3. ASSUME NEW v \in Workers, v # w, request[v].op = "store" PROVE request[v].next \notin unsent
  <2>1. request[v].next # None
    BY <1>3, Fields DEF RequestOK
  <2> QED
    BY <1>0, <1>00, <1>3, <2>1 DEF Known, OwnNext
<1>4. \A t \in Tokens : t \in unsent => ~Used(t)
  BY <1>0, <1>00 DEF Known, RequestKnown
<1>5. OutdatedRows'
  <2> SUFFICES ASSUME NEW t \in outdated, t \notin unsent
               PROVE  IF Used(t)
                      THEN sessions[t].signedAt <= users[sessions[t].user].changedAt
                      ELSE \E v \in Workers :
                             /\ request'[v].op = "store" /\ request'[v].next = t
                             /\ request'[v].at <= users[request'[v].user].changedAt
    BY <1>1 DEF OutdatedRows, Used
  <2>1. CASE ~Used(t)
    <3>1. PICK v \in Workers : /\ request[v].op = "store" /\ request[v].next = t
                               /\ request[v].at <= users[request[v].user].changedAt
      BY <2>1 DEF Dated, OutdatedRows
    <3>2. v # w
      BY <1>0, <1>00, <3>1
    <3> QED
      BY <1>2, <2>1, <3>1, <3>2
  <2>2. CASE Used(t)
    BY <2>2 DEF Dated, OutdatedRows
  <2> QED
    BY <2>1, <2>2
<1>6. ASSUME NEW v \in Workers, request'[v].op = "save" PROVE StampedAfter(v)'
  <2>1. v # w /\ request'[v] = request[v] /\ gap'[v] = gap[v] \ unsent /\ StampedAfter(v)
    <3>1. v # w
      BY <1>2, <1>6, LastSteps
    <3>2. StampedAfter(v)
      BY DEF Dated
    <3> QED
      BY <1>1, <1>2, <3>1, <3>2
  <2>2. \A t \in Tokens : Used(t) /\ t \notin gap'[v] => t \notin gap[v]
    BY <1>4, <2>1
  <2>3. \A x \in Workers : request'[x].op = "store" =>
          /\ request'[x] = request[x]
          /\ request[x].next \notin gap'[v] => request[x].next \notin gap[v]
    BY <1>2, <1>3, <2>1, LastSteps
  <2> QED
    BY <1>1, <1>6, <2>1, <2>2, <2>3 DEF StampedAfter, Used
<1>7. \A v \in Workers : request'[v].op # "save" => gap'[v] = {}
  BY <1>1, <1>2 DEF Dated
<1> QED
  BY <1>5, <1>6, <1>7 DEF Dated, StampedAfter

LEMMA DatedQuiet ==
  ASSUME TypeOK, Known, Timed, Dated, NEW w \in Workers, Quiet(w)
  PROVE  Dated'
<1>1. CASE \E t \in Tokens : Signs(w, t)
  BY <1>1, DatedSigns
<1>2. CASE Stamps(w) \/ Saves(w) \/ CutOff(w)
  BY <1>2, DatedStamps, DatedSaves, DatedCutOff
<1>3. CASE ~(Stamps(w) \/ Saves(w) \/ CutOff(w) \/ \E t \in Tokens : Signs(w, t))
  <2>1. UNCHANGED <<users, outdated, gap>> /\ request[w].op \notin {"sign", "stamp", "store", "save"}
    BY <1>3, LastSteps, Zenon DEF Quiet, Login, ChangePassword, ResetPassword, Present, Finds,
         Compares, Loads, Starts, Continues, history
  <2>2. PICK q \in Request : /\ RequestOK(q) /\ Goto(w, q) /\ Moves(request[w], q)
                             /\ UNCHANGED <<rowTtl, sessions, held, now>>
    BY QuietMoves
  <2>3. request'[w] = q /\ \A v \in Workers \ {w} : request'[v] = request[v]
    BY <2>2, GotoTyped
  <2>4. ~Signing(q) /\ ~Signing(request[w])
    BY <2>1, <2>2, LastSteps DEF Moves, Begins, Presents, EndsAll, EndsOne, Reads, SignsOff,
                                 StampsOff, Signing
  <2> QED
    BY <2>1, <2>2, <2>3, <2>4, SameRowsKept, DatedKept
<1> QED
  BY <1>1, <1>2, <1>3

LEMMA DatedRevokes ==
  ASSUME TypeOK, Known, Dated, NEW w \in Workers, Revokes(w) \/ RevokesAll(w)
  PROVE  Dated'
<1>1. /\ RowsKept /\ UNCHANGED <<users, outdated, gap>>
      /\ request'[w] = Idle /\ \A v \in Workers \ {w} : request'[v] = request[v]
      /\ request[w].op \in {"revoke", "revokeAll"}
  BY RevokesKeeps, RevokesAllKeeps, RevokesRows, RevokesAllRows DEF Revokes, RevokesAll, history
<1>2. ~Signing(request[w]) /\ ~Signing(request'[w])
  BY <1>1, LastSteps DEF Signing
<1> QED
  BY <1>1, <1>2, DatedKept

LEMMA DatedStores ==
  ASSUME TypeOK, Known, Dated, NEW w \in Workers, Stores(w)
  PROVE  Dated'
<1>0. PICK r : r = request[w]
  OBVIOUS
<1>00. PICK n : n = r.next
  OBVIOUS
<1>1. /\ r.op = "store" /\ r.kind \in {"login", "refresh"} /\ r.user \in Users
      /\ n \in Tokens /\ ~Used(n) /\ n # None
      /\ r.kind = "refresh" => r.token \in Tokens
      /\ \A t \in Tokens \ {n} : sessions'[t] = sessions[t]
      /\ sessions'[n].state = "stored" /\ sessions'[n].user = r.user
      /\ sessions'[n].signedAt = r.at
      /\ \A v \in Workers \ {w} : request'[v] = request[v]
      /\ r.kind = "login" => request'[w] = Idle
      /\ r.kind = "refresh" => request'[w] = Revoking(r.user, r.token, n)
      /\ UNCHANGED <<users, outdated, gap>>
  BY <1>0, <1>00, StoresRows DEF Stores
<1>2. request'[w].op \in {"idle", "revoke"}
  BY <1>1, LastSteps
<1>3. \A v \in Workers \ {w} : request[v].next # n
  BY <1>0, <1>00, <1>1 DEF Known, OwnNext
<1>4. OutdatedRows'
  <2> SUFFICES ASSUME NEW t \in Tokens, t \in outdated
               PROVE  IF Used(t)'
                      THEN sessions'[t].signedAt <= users[sessions'[t].user].changedAt
                      ELSE \E v \in Workers :
                             /\ request'[v].op = "store" /\ request'[v].next = t
                             /\ request'[v].at <= users[request'[v].user].changedAt
    BY <1>1 DEF OutdatedRows, TypeOK
  <2>1. CASE t = n
    <3>1. r.at <= users[r.user].changedAt
      BY <1>0, <1>1, <1>3, <2>1 DEF Dated, OutdatedRows
    <3> QED
      BY <1>1, <2>1, <3>1 DEF Used
  <2>2. CASE t # n /\ Used(t)
    BY <1>1, <2>2 DEF Dated, OutdatedRows, Used
  <2>3. CASE t # n /\ ~Used(t)
    <3>1. PICK v \in Workers : /\ request[v].op = "store" /\ request[v].next = t
                               /\ request[v].at <= users[request[v].user].changedAt
      BY <2>3 DEF Dated, OutdatedRows
    <3>2. v # w
      BY <1>0, <1>00, <2>3, <3>1
    <3> QED
      BY <1>1, <2>3, <3>1, <3>2 DEF Used
  <2> QED
    BY <2>1, <2>2, <2>3
<1>5. ASSUME NEW v \in Workers, request'[v].op = "save" PROVE StampedAfter(v)'
  <2>1. v # w /\ request'[v] = request[v] /\ gap'[v] = gap[v] /\ StampedAfter(v)
    BY <1>1, <1>2, <1>5 DEF Dated
  <2>2. \A x \in Workers : request'[x].op = "store" => request'[x] = request[x]
    BY <1>1, <1>2
  <2>3. ASSUME NEW t \in Tokens, Used(t)', sessions'[t].user = request[v].user, t \notin gap[v]
        PROVE  sessions'[t].signedAt <= request[v].at
    <3>1. CASE t = n
      BY <1>0, <1>00, <1>1, <1>5, <2>1, <2>3, <3>1 DEF StampedAfter
    <3>2. CASE t # n
      BY <1>1, <1>5, <2>1, <2>3, <3>2 DEF StampedAfter, Used
    <3> QED
      BY <3>1, <3>2
  <2>4. ASSUME NEW x \in Workers, request'[x].op = "store", request'[x].user = request'[v].user,
               request'[x].next \notin gap'[v]
        PROVE  request'[x].at <= request'[v].at
    BY <1>5, <2>1, <2>2, <2>4 DEF StampedAfter
  <2> QED
    BY <2>1, <2>3, <2>4 DEF StampedAfter
<1>6. \A v \in Workers : request'[v].op # "save" => gap'[v] = {}
  <2>1. gap[w] = {}
    BY <1>0, <1>1 DEF Dated
  <2> QED
    BY <1>1, <2>1 DEF Dated
<1> QED
  BY <1>4, <1>5, <1>6 DEF Dated, StampedAfter

LEMMA DatedOthers ==
  ASSUME TypeOK, Known, Dated
  PROVE  /\ \A t \in Tokens : RemoveExpired(t) => Dated'
         /\ \A u \in Users, b \in BOOLEAN : SetStatus(u, b) => Dated'
         /\ Tick => Dated'
         /\ UNCHANGED vars => Dated'
<1>1. ASSUME RowsKept, UNCHANGED <<request, outdated, gap>>,
             \A u \in Users : users'[u].changedAt = users[u].changedAt
      PROVE  Dated'
  BY <1>1, DatedKept
<1>2. ASSUME NEW u \in Users, NEW b \in BOOLEAN, SetStatus(u, b)
      PROVE  \A v \in Users : users'[v].changedAt = users[v].changedAt
  BY <1>2 DEF SetStatus, TypeOK
<1>3. ASSUME NEW u \in Users, NEW b \in BOOLEAN, SetStatus(u, b) PROVE Dated'
  <2>1. UNCHANGED <<sessions, request, outdated, gap>>
    BY <1>3 DEF SetStatus
  <2> QED
    BY <1>1, <1>2, <1>3, <2>1, SameRowsKept
<1> QED
  BY <1>1, <1>3, RemoveExpiredKeeps, SameRowsKept DEF RemoveExpired, Tick, vars, history

-----------------------------------------------------------------------------
(* Who is let in *)

LEMMA AdmittedStep ==
  ASSUME TypeOK, Known, Admitted, NEW w \in Workers, Serves(w)
  PROVE  Admitted'
<1>1. CASE Quiet(w)
  <2>1. PICK q \in Request : /\ RequestOK(q) /\ Goto(w, q) /\ Moves(request[w], q)
                             /\ UNCHANGED <<rowTtl, sessions, held, now>>
    BY <1>1, QuietMoves
  <2>2. request'[w] = q /\ \A v \in Workers \ {w} : request'[v] = request[v]
    BY <2>1, GotoTyped
  <2>3. \A u \in Users : users'[u].active = users[u].active
    <3>1. CASE Saves(w)
      <4>1. /\ request[w].user \in Users /\ request[w].at \in Nat
            /\ users' = [users EXCEPT ![request[w].user].version = @ + 1,
                                      ![request[w].user].changedAt = request[w].at]
        BY <3>1, Fields DEF Saves, Writes, RequestOK
      <4> QED
        BY <4>1, PasswordSet
    <3>2. CASE ~Saves(w)
      BY <1>1, <3>2 DEF Quiet, Login, ChangePassword, ResetPassword, Present, Signs, Finds,
                  Compares, Loads, Stamps, CutOff, Starts, Continues
    <3> QED
      BY <3>1, <3>2
  <2>4. \A v \in Workers \ {w} : v \in overtaken => v \in overtaken'
    BY <1>1, Zenon DEF Quiet, Login, ChangePassword, ResetPassword, Present, Signs, Finds,
         Compares, Loads, Stamps, Saves, Writes, CutOff, Starts, Continues, history
  <2>5. q # Idle => (w \in overtaken => w \in overtaken')
    <3>1. CutOff(w) => request'[w] = Idle
      BY LastSteps, GotoTyped DEF CutOff
    <3> QED
      BY <1>1, <2>2, <3>1, Zenon DEF Quiet, Login, ChangePassword, ResetPassword, Present, Signs,
         Finds, Compares, Loads, Stamps, Saves, Writes, Starts, Continues, history
  <2>6. q.op \in {"sign", "store"} =>
          q.user = request[w].user /\ (users[q.user].active \/ w \in overtaken')
    <3>1. q.op \in {"sign", "store"} => Reads(request[w], q) \/ SignsOff(request[w], q)
      BY <2>1, LastSteps DEF Moves, Begins, Presents, EndsAll, EndsOne, StampsOff
    <3> QED
      BY <2>5, <3>1, LastSteps DEF Reads, SignsOff, SameWork, Admitted
  <2>7. \A v \in Workers : /\ request[v].op \in {"sign", "store"} => request[v].user \in Users
                           /\ request'[v].op \in {"sign", "store"} => request'[v].user \in Users
    <3>1. q.op \in {"sign", "store"} => q.user \in Users
      BY <2>1 DEF RequestOK
    <3> QED
      BY <2>2, <3>1, Fields DEF RequestOK
  <2> QED
    BY <2>2, <2>3, <2>4, <2>6, <2>7 DEF Admitted
<1>2. CASE Stores(w)
  <2>1. request'[w].op \in {"idle", "revoke"} /\ \A v \in Workers \ {w} : request'[v] = request[v]
    <3>1. LET r == request[w] IN
          /\ r.kind \in {"login", "refresh"} /\ r.user \in Users /\ r.next \in Tokens
          /\ r.kind = "refresh" => r.token \in Tokens
          /\ \A v \in Workers \ {w} : request'[v] = request[v]
          /\ r.kind = "login" => request'[w] = Idle
          /\ r.kind = "refresh" => request'[w] = Revoking(r.user, r.token, r.next)
      BY <1>2, StoresRows
    <3> QED
      BY <3>1, LastSteps
  <2>2. users' = users /\ overtaken' = overtaken \ {w}
    BY <1>2 DEF Stores
  <2> QED
    BY <2>1, <2>2 DEF Admitted
<1>3. CASE Revokes(w) \/ RevokesAll(w)
  <2>1. /\ UNCHANGED <<users, overtaken>>
        /\ request'[w] = Idle /\ \A v \in Workers \ {w} : request'[v] = request[v]
    BY <1>3, RevokesRows, RevokesAllRows DEF Revokes, RevokesAll, history
  <2> QED
    BY <2>1, LastSteps DEF Admitted
<1> QED
  BY <1>1, <1>2, <1>3 DEF Serves, Quiet

LEMMA AdmittedOthers ==
  ASSUME TypeOK, Admitted
  PROVE  /\ \A t \in Tokens : RemoveExpired(t) => Admitted'
         /\ \A u \in Users, b \in BOOLEAN : SetStatus(u, b) => Admitted'
         /\ Tick => Admitted'
         /\ UNCHANGED vars => Admitted'
<1>1. UNCHANGED <<users, request, overtaken>> => Admitted'
  BY DEF Admitted
<1>2. ASSUME NEW u \in Users, NEW b \in BOOLEAN, SetStatus(u, b) PROVE Admitted'
  <2>1. /\ request' = request /\ users'[u].active = b
        /\ \A v \in Users \ {u} : users'[v] = users[v]
    BY <1>2 DEF SetStatus, TypeOK
  <2>2. \A w \in Workers : request[w].op \in {"sign", "store"} => request[w].user \in Users
    BY Fields DEF RequestOK
  <2>3. \A w \in Workers : w \in overtaken => w \in overtaken'
    BY <1>2 DEF SetStatus
  <2>4. \A w \in Workers :
          request[w].op \in {"sign", "store"} /\ request[w].user = u /\ ~b => w \in overtaken'
    BY <1>2 DEF SetStatus
  <2> QED
    BY <2>1, <2>2, <2>3, <2>4 DEF Admitted
<1> QED
  BY <1>1, <1>2 DEF RemoveExpired, Tick, vars, history

-----------------------------------------------------------------------------
(* The invariant *)

LEMMA InitInv == Init => SessionsInv
<1> SUFFICES ASSUME Init PROVE SessionsInv
  OBVIOUS
<1>1. TypeOK
  BY InitTyped
<1>2. /\ \A t \in Tokens : sessions[t] = NoRow
      /\ \A w \in Workers : request[w] = Idle /\ gap[w] = {}
      /\ held = {} /\ forked = {} /\ ended = {} /\ outdated = {} /\ now = 0
  BY DEF Init
<1>3. \A t \in Tokens : ~Used(t) /\ ~Stored(t) /\ ~LiveSession(t)
                        /\ sessions[t].replacedBy = None /\ sessions[t].expiresAt = 0
  BY <1>2 DEF NoRow, Used, Stored, LiveSession
<1>4. Known
  BY <1>2, <1>3, LastSteps DEF Known, RowsKnown, RequestKnown, OwnNext, ReplacedByStored
<1>5. Timed
  BY <1>2, <1>3, LastSteps DEF Timed, RowTimed, RequestTimed
<1>6. \A w \in Workers : ~Refreshing(w)
  BY <1>2, LastSteps DEF Refreshing
<1>7. Unforked
  BY <1>3, <1>6 DEF Unforked, OneRefresh, LiveOfRefresh, LivePair, Refreshes
<1>8. EndedInv
  BY <1>2 DEF EndedInv
<1>9. Dated
  BY <1>2, LastSteps DEF Dated, OutdatedRows, StampedAfter
<1>10. Admitted
  BY <1>2, LastSteps DEF Admitted
<1> QED
  BY <1>1, <1>4, <1>5, <1>7, <1>8, <1>9, <1>10 DEF SessionsInv

LEMMA NextInv == SessionsInv /\ [Next]_vars => SessionsInv'
<1> SUFFICES ASSUME SessionsInv, [Next]_vars PROVE SessionsInv'
  OBVIOUS
<1>0. TypeOK /\ Known /\ Timed /\ Unforked /\ EndedInv /\ Dated /\ Admitted
  BY DEF SessionsInv
<1>1. ASSUME NEW w \in Workers, Serves(w) PROVE SessionsInv'
  <2>1. Admitted'
    BY <1>0, <1>1, AdmittedStep
  <2>2. CASE Quiet(w)
    BY <1>0, <2>1, <2>2, QuietTyped, KnownQuiet, TimedQuiet, UnforkedQuiet, EndedQuiet,
       DatedQuiet DEF SessionsInv
  <2>3. CASE Stores(w)
    BY <1>0, <2>1, <2>3, RowStepsTyped, KnownStores, TimedStores, UnforkedStores, EndedStores,
       DatedStores DEF SessionsInv
  <2>4. CASE Revokes(w) \/ RevokesAll(w)
    BY <1>0, <2>1, <2>4, RowStepsTyped, KnownRevokes, TimedRevokes, UnforkedRevokes,
       EndedRevokes, DatedRevokes DEF SessionsInv
  <2> QED
    BY <1>1, <2>2, <2>3, <2>4 DEF Serves, Quiet
<1>2. ASSUME NEW u \in Users, NEW b \in BOOLEAN, SetStatus(u, b) PROVE SessionsInv'
  BY <1>0, <1>2, OthersTyped, KnownOthers, TimedOthers, UnforkedOthers, EndedOthers,
     DatedOthers, AdmittedOthers DEF SessionsInv
<1>3. ASSUME NEW t \in Tokens, RemoveExpired(t) PROVE SessionsInv'
  BY <1>0, <1>3, OthersTyped, KnownOthers, TimedOthers, UnforkedOthers, EndedOthers,
     DatedOthers, AdmittedOthers DEF SessionsInv
<1>4. ASSUME Tick \/ UNCHANGED vars PROVE SessionsInv'
  BY <1>0, <1>4, OthersTyped, KnownOthers, TimedOthers, UnforkedOthers, EndedOthers,
     DatedOthers, AdmittedOthers DEF SessionsInv
<1> QED
  BY <1>1, <1>2, <1>3, <1>4 DEF Next

\* The inductive invariant: what rows and requests refer to, their times, the way
\* of each login from row to row, what a change of password has ended and
\* outdated, and whose status was read.
THEOREM SessionsInvariant == Spec => []SessionsInv
<1>1. Init => SessionsInv
  BY InitInv
<1>2. SessionsInv /\ [Next]_vars => SessionsInv'
  BY NextInv
<1> QED
  BY <1>1, <1>2, PTL DEF Spec

\* A session is replaced only by one that was stored before, for the same
\* login: a refresh cut off between its two writes leaves a way forward.
THEOREM ForwardIsStored == Spec => []ReplacedByStored
<1>1. SessionsInv => ReplacedByStored
  BY DEF SessionsInv, Known
<1> QED
  BY <1>1, SessionsInvariant, PTL

\* For any lifetime that parseTtlToSeconds understands, the row of a refresh token
\* is there while its signature verifies, whatever time passes between signing and
\* storing.  For any other, no refresh ever succeeds: no session is replaced.
THEOREM RowsOutliveTokens == Spec => []RowOutlivesToken
<1>1. SessionsInv => RowOutlivesToken
  <2> SUFFICES ASSUME SessionsInv, NEW t \in Tokens, sessions[t].state # "unused"
               PROVE  IF rowTtl = 0 THEN sessions[t].replacedBy = None
                      ELSE Verifies(t) => Stored(t) /\ now < sessions[t].expiresAt
    BY DEF RowOutlivesToken
  <2>1. /\ now \in Nat /\ Ttl \in Nat /\ sessions[t].signedAt \in Nat
        /\ sessions[t].expiresAt \in Nat /\ rowTtl \in {Ttl, 0}
    BY Fields, TtlAssumption DEF SessionsInv, TypeOK, Row
  <2>2. /\ WholeSecond(sessions[t].signedAt) \in Int
        /\ WholeSecond(sessions[t].signedAt) <= sessions[t].signedAt
    BY <2>1, WholeSecondBelow
  <2>3. RowTimed(t)
    BY DEF SessionsInv, Timed
  <2>4. CASE rowTtl = 0
    BY <2>3, <2>4 DEF RowTimed
  <2>5. CASE rowTtl # 0 /\ Verifies(t)
    <3>1. now < WholeSecond(sessions[t].signedAt) + Ttl /\ rowTtl = Ttl
      BY <2>1, <2>5 DEF Verifies
    <3>2. Stored(t)
      BY <2>1, <2>2, <2>3, <3>1 DEF RowTimed, Used
    <3>3. sessions[t].signedAt + Ttl <= sessions[t].expiresAt
      BY <2>3, <3>1, <3>2 DEF RowTimed
    <3> QED
      BY <2>1, <2>2, <2>5, <3>1, <3>2, <3>3
  <2> QED
    BY <2>4, <2>5
<1> QED
  BY <1>1, SessionsInvariant, PTL

\* A login that no two refreshes forked from one row, and none of whose refreshes
\* was cut off between its writes, has one live session; two only while a refresh
\* has stored the one and is about to revoke the other.
THEOREM OneSessionEach == Spec => []OneLivePerLogin
<1>1. SessionsInv => OneLivePerLogin
  <2> SUFFICES ASSUME SessionsInv, NEW s \in Tokens, NEW t \in Tokens,
                      LiveSession(s), LiveSession(t), s # t,
                      sessions[s].login = sessions[t].login,
                      sessions[s].login \notin forked
               PROVE  \E w \in Workers :
                        /\ request[w].op = "revoke"
                        /\ {request[w].token, request[w].next} = {s, t}
    BY DEF OneLivePerLogin
  <2> DEFINE l == sessions[s].login
  <2>1. l \in Tokens
    BY DEF SessionsInv, Known, RowsKnown, LiveSession, Stored, Used
  <2>2. LiveOfRefresh(l) /\ LivePair(l)
    BY <2>1 DEF SessionsInv, Unforked
  <2>3. PICK w \in Workers : Refreshes(w, l) /\ request[w].op = "revoke"
    BY <2>2 DEF LivePair
  <2>4. /\ s = request[w].token \/ s = request[w].next
        /\ t = request[w].token \/ t = request[w].next
    BY <2>2, <2>3 DEF LiveOfRefresh
  <2> QED
    BY <2>3, <2>4
<1> QED
  BY <1>1, SessionsInvariant, PTL

\* Once the sessions of a user who has changed the password are revoked, no login
\* from before that change has a live session, whatever else is under way; left
\* out are a change cut off before it revoked and the logins one of whose rows a
\* refresh had read by then and goes on from.
THEOREM NewPasswordEndsSessions == Spec => []ChangeEndsSessions
<1>1. SessionsInv => ChangeEndsSessions
  <2> SUFFICES ASSUME SessionsInv, NEW t \in Tokens, LiveSession(t), sessions[t].login \in ended
               PROVE  \E w \in Workers :
                        /\ request[w].op = "revokeAll" /\ request[w].kind = "change"
                        /\ request[w].user = sessions[t].user
    BY DEF ChangeEndsSessions
  <2>1. sessions[sessions[t].login].user = sessions[t].user
    BY DEF SessionsInv, Known, RowsKnown, LiveSession, Stored, Used
  <2>2. Pending(sessions[t].user)
    BY <2>1 DEF SessionsInv, EndedInv, Dead
  <2> QED
    BY <2>2 DEF Pending
<1> QED
  BY <1>1, SessionsInvariant, PTL

\* An access token signed before the password that is stored was stamped is
\* refused, whatever the rounding of iat makes of the moment it was signed and
\* even if its session was stored after the password; left out are those signed
\* on the tick of the stamp and those signed between the stamp and its write.
THEOREM OldTokensRefused == Spec => []OldAccessTokensRefused
<1>1. SessionsInv => OldAccessTokensRefused
  <2> SUFFICES ASSUME SessionsInv, NEW t \in outdated, sessions[t].state # "unused",
                      sessions[t].signedAt # users[sessions[t].user].changedAt
               PROVE  ~AccessAccepted(t)
    BY DEF OldAccessTokensRefused
  <2>1. t \in Tokens /\ sessions[t].user \in Users
    BY DEF SessionsInv, TypeOK, Known, RowsKnown, Used
  <2>2. sessions[t].signedAt <= users[sessions[t].user].changedAt
    BY DEF SessionsInv, Dated, OutdatedRows, Used
  <2>3. sessions[t].signedAt \in Nat /\ users[sessions[t].user].changedAt \in Nat
    BY <2>1, Fields DEF SessionsInv, Row
  <2>4. /\ WholeSecond(sessions[t].signedAt) \in Int
        /\ WholeSecond(sessions[t].signedAt) <= sessions[t].signedAt
    BY <2>3, WholeSecondBelow
  <2>5. ~(WholeSecond(sessions[t].signedAt) >= users[sessions[t].user].changedAt)
    BY <2>2, <2>3, <2>4
  <2> QED
    BY <2>5 DEF AccessAccepted
<1> QED
  BY <1>1, SessionsInvariant, PTL

\* Nobody gets a session while he is blocked, unless that block came after the
\* request had read his status for the last time.
THEOREM BlockedStayOut == Spec => BlockedGetNoSession
<1>1. SessionsInv /\ [Next]_vars =>
        [\A t \in Tokens :
           sessions[t].state = "unused" /\ sessions'[t].state = "stored" =>
             \E w \in Workers :
               /\ request[w].op = "store" /\ request[w].next = t
               /\ users[request[w].user].active \/ w \in overtaken]_vars
  <2> SUFFICES ASSUME SessionsInv, Next, NEW t \in Tokens,
                      sessions[t].state = "unused", sessions'[t].state = "stored"
               PROVE  \E w \in Workers :
                        /\ request[w].op = "store" /\ request[w].next = t
                        /\ users[request[w].user].active \/ w \in overtaken
    OBVIOUS
  <2>0. TypeOK /\ Known /\ Admitted
    BY DEF SessionsInv
  <2>1. ~RowsKept
    BY DEF RowsKept, Used
  <2>2. ASSUME NEW w \in Workers, Stores(w)
        PROVE  /\ request[w].op = "store" /\ request[w].next = t
               /\ users[request[w].user].active \/ w \in overtaken
    <3>1. /\ request[w].op = "store"
          /\ \A s \in Tokens \ {request[w].next} : sessions'[s] = sessions[s]
      BY <2>0, <2>2, StoresRows
    <3> QED
      BY <2>0, <3>1 DEF Admitted
  <2>3. ASSUME NEW w \in Workers, Revokes(w) \/ RevokesAll(w) PROVE FALSE
    BY <2>0, <2>1, <2>3, RevokesKeeps, RevokesAllKeeps
  <2>4. ASSUME NEW w \in Workers, Quiet(w) PROVE FALSE
    BY <2>0, <2>1, <2>4, QuietMoves, SameRowsKept
  <2>5. ASSUME NEW s \in Tokens, RemoveExpired(s) PROVE FALSE
    BY <2>0, <2>1, <2>5, RemoveExpiredKeeps
  <2>6. ASSUME NEW u \in Users, NEW b \in BOOLEAN, SetStatus(u, b) PROVE FALSE
    BY <2>1, <2>6, SameRowsKept DEF SetStatus
  <2>7. Tick => FALSE
    BY <2>1, SameRowsKept DEF Tick
  <2> QED
    BY <2>2, <2>3, <2>4, <2>5, <2>6, <2>7 DEF Next, Serves, Quiet
<1> QED
  BY <1>1, SessionsInvariant, PTL DEF Spec, BlockedGetNoSession
=============================================================================
