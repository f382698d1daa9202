------------------------------ MODULE Sessions ------------------------------
(***************************************************************************)
(* AuthService: refresh-token sessions and the access tokens issued with   *)
(* them.  A session row is stored for every refresh token; a refresh       *)
(* stores the row of the next token and then revokes the row it came with. *)
(* Each request is a series of database calls, and the token is signed     *)
(* between two of them, so time passes and other requests run in between.  *)
(*                                                                         *)
(* A password is the number of changes so far.  Time is in ticks; the iat  *)
(* and exp of a token are whole seconds.  The variables of history record  *)
(* what the properties ask about past events; no guard and no other        *)
(* variable depends on them.                                               *)
(***************************************************************************)
EXTENDS Naturals, FiniteSets

CONSTANTS
  Users,
  Tokens,     \* refresh tokens (their jti), each with its access token
  Workers,    \* requests in flight at the same time
  Second,     \* ticks in a second
  Ttl,        \* REFRESH_TOKEN_EXPIRES_IN as jsonwebtoken reads it, in ticks
  MaxTime,    \* bound on the clock
  MaxLogins,  \* bound on the logins that are stored or under way
  MaxChanges, \* bound on the changes of a password
  None        \* no token

ASSUME NoneAssumption == None \notin Tokens \cup Users
ASSUME SecondAssumption == Second \in Nat \ {0}
ASSUME TtlAssumption == Ttl \in Nat \ {0} /\ Ttl % Second = 0
ASSUME BoundsAssumption == MaxTime \in Nat /\ MaxLogins \in Nat /\ MaxChanges \in Nat

VARIABLES
  rowTtl,    \* REFRESH_TOKEN_EXPIRES_IN as parseTtlToSeconds reads it
  sessions,  \* the AuthSession collection, by token
  users,     \* status, password and passwordChangedAt
  request,   \* the request each worker serves
  held,      \* tokens that a response has handed to a client
  now,
  forked,    \* history: logins two refreshes went on from the same row, or one was
             \* cut off between its two writes
  ended,     \* history: logins their user has ended by a change of password
  outdated,  \* history: tokens signed before the password that is stored was stamped
  gap,       \* history: tokens of the user signed since a worker stamped
  overtaken  \* history: workers whose user was blocked after they read his status

history == <<forked, ended, outdated, gap, overtaken>>
vars == <<rowTtl, sessions, users, request, held, now, history>>

-----------------------------------------------------------------------------

\* The whole second a moment falls in, as iat has it.
WholeSecond(t) == t - (t % Second)

NoRow ==
  [state |-> "unused", user |-> None, revoked |-> FALSE, replacedBy |-> None,
   signedAt |-> 0, expiresAt |-> 0, login |-> None]

\* A request whose next step is op, for a user and the token he came with.
Serving(op, kind, u, t) ==
  [op |-> op, kind |-> kind, user |-> u, token |-> t, next |-> None, at |-> 0]

Idle == Serving("idle", "none", None, None)

Stored(t) == sessions[t].state = "stored"

\* Neither revoked nor removed: a refresh with it goes through.
LiveSession(t) == Stored(t) /\ ~sessions[t].revoked

\* verifyAsync: exp is iat plus the lifetime.
Verifies(t) == now < WholeSecond(sessions[t].signedAt) + Ttl

\* Mutant: both sides are compared in whole seconds.
AccessAcceptedBySecond(t) ==
  LET u == sessions[t].user IN
  /\ users[u].active
  /\ WholeSecond(sessions[t].signedAt) >= WholeSecond(users[u].changedAt)

\* JwtStrategy.validate on the access token issued with t; that it may have
\* expired is left out.
AccessAccepted(t) ==
  LET u == sessions[t].user IN
  /\ users[u].active
  /\ WholeSecond(sessions[t].signedAt) >= users[u].changedAt

\* parseTtlToSeconds makes 0 of what it does not match, such as '1w'.
Init ==
  /\ rowTtl \in {Ttl, 0}
  /\ sessions = [t \in Tokens |-> NoRow]
  /\ users = [u \in Users |-> [active |-> TRUE, version |-> 0, changedAt |-> 0]]
  /\ request = [w \in Workers |-> Idle]
  /\ held = {}
  /\ now = 0
  /\ forked = {} /\ ended = {} /\ outdated = {}
  /\ gap = [w \in Workers |-> {}]
  /\ overtaken = {}

-----------------------------------------------------------------------------
(* How a request starts and goes on *)

Goto(w, r) == request' = [request EXCEPT ![w] = r]

\* The first step of a request that is let in.
Starts(w, r) ==
  /\ request[w] = Idle
  /\ Goto(w, r)
  /\ UNCHANGED <<rowTtl, sessions, users, held, now, history>>

\* A step of a request that writes nothing.
Continues(w, r) ==
  Goto(w, r) /\ UNCHANGED <<rowTtl, sessions, users, held, now, history>>

\* What is left to do when the rest is known.
RevokingAll(u, kind) == Serving("revokeAll", kind, u, None)
Revoking(u, t, next) == [Serving("revoke", "none", u, t) EXCEPT !.next = next]

\* validateUser: found, active, and the password matches.
Login(w, u) ==
  /\ users[u].active
  /\ Cardinality({t \in Tokens : sessions[t].login = t})
       + Cardinality({v \in Workers : request[v].kind = "login"}) < MaxLogins
  /\ Starts(w, Serving("load", "login", u, None))

\* verifyAsync: a token whose signature has expired is refused without a trace.
Present(w, t, kind) ==
  /\ t \in held
  /\ Verifies(t)
  /\ Starts(w, Serving("find", kind, sessions[t].user, t))

\* UsersService.assertPassword.
ChangePassword(w, u) ==
  /\ users[u].active
  /\ users[u].version < MaxChanges
  /\ Starts(w, Serving("stamp", "change", u, None))

\* updateForActor of somebody with full access, with a password.
ResetPassword(w, u) ==
  /\ users[u].version < MaxChanges
  /\ Starts(w, Serving("stamp", "reset", u, None))

\* A refresh that goes on from a row and has not revoked it yet.
Refreshing(w) ==
  \/ request[w].kind = "refresh" /\ request[w].op \in {"compare", "load", "sign", "store"}
  \/ request[w].op = "revoke" /\ request[w].next # None

Forks(w) ==
  /\ request[w].kind = "refresh"
  /\ LiveSession(request[w].token)
  /\ \E v \in Workers : Refreshing(v) /\ request[v].token = request[w].token

\* findOne: a token without a row is refused, one whose row is revoked was used
\* twice.
Finds(w) ==
  LET r == request[w] IN
  /\ r.op = "find"
  /\ Goto(w, IF ~Stored(r.token) THEN Idle
             ELSE IF sessions[r.token].revoked THEN RevokingAll(r.user, "none")
             ELSE [r EXCEPT !.op = "compare"])
  /\ forked' = IF Forks(w) THEN forked \cup {sessions[r.token].login} ELSE forked
  /\ UNCHANGED <<rowTtl, sessions, users, held, now, ended, outdated, gap, overtaken>>

\* The expiry of the row that was found against the clock.
Compares(w) ==
  LET r == request[w] IN
  /\ r.op = "compare"
  /\ Continues(w, IF sessions[r.token].expiresAt <= now
                  THEN Revoking(r.user, r.token, None)
                  ELSE [r EXCEPT !.op = "load"])

\* Mutant: only a login looks at the status.
LoadsUnchecked(w) ==
  LET r == request[w]
      ok == users[r.user].active
  IN /\ r.op = "load"
     /\ \/ r.kind = "login" /\ ~ok /\ Continues(w, Idle)
        \/ r.kind = "logout" /\ Continues(w, Revoking(r.user, r.token, None))
        \/ /\ r.kind = "refresh" \/ (r.kind = "login" /\ ok)
           /\ Continues(w, [r EXCEPT !.op = "sign"])

\* The user is read again.  A user who may not authenticate loses every
\* session, but only when it is a token that brought him here.
Loads(w) ==
  LET r == request[w]
      ok == users[r.user].active
  IN /\ r.op = "load"
     /\ \/ ~ok /\ r.kind = "login" /\ Continues(w, Idle)
        \/ ~ok /\ r.kind # "login" /\ Continues(w, RevokingAll(r.user, "none"))
        \/ ok /\ r.kind = "logout" /\ Continues(w, Revoking(r.user, r.token, None))
        \/ ok /\ r.kind # "logout" /\ Continues(w, [r EXCEPT !.op = "sign"])

\* buildTokenPair signs; randomUUID gives the new token its id.
Signs(w, t) ==
  LET r == request[w] IN
  /\ r.op = "sign"
  /\ sessions[t].state = "unused"
  /\ \A v \in Workers : request[v].next # t
  /\ Goto(w, [r EXCEPT !.op = "store", !.next = t, !.at = now])
  /\ gap' = [v \in Workers |->
       IF request[v].op = "save" /\ request[v].user = r.user
       THEN gap[v] \cup {t} ELSE gap[v]]
  /\ UNCHANGED <<rowTtl, sessions, users, held, now, forked, ended, outdated, overtaken>>

\* Mutant: a second is taken off so that the row is gone before the token.
ExpiryWithMargin(t) == IF rowTtl = 0 THEN t ELSE t + rowTtl - Second

\* getExpiryDate, evaluated after the token was signed.
Expiry(t) == t + rowTtl

\* Mutant: a refresh does not wait for the row, which may never be stored.
StoresUnawaited(w) ==
  LET r == request[w] IN
  /\ r.op = "store"
  /\ sessions' = IF r.kind = "refresh" THEN sessions
                 ELSE [sessions EXCEPT ![r.next] =
                   [NoRow EXCEPT !.state = "stored", !.user = r.user, !.login = r.next,
                                 !.signedAt = r.at, !.expiresAt = Expiry(now)]]
  /\ Goto(w, IF r.kind = "refresh"
             THEN Revoking(r.user, r.token, r.next) ELSE Idle)
  /\ held' = IF r.kind = "refresh" THEN held ELSE held \cup {r.next}
  /\ overtaken' = overtaken \ {w}
  /\ UNCHANGED <<rowTtl, users, now, forked, ended, outdated, gap>>

\* The row is created.  A login answers at once, a refresh has to revoke yet.
Stores(w) ==
  LET r == request[w] IN
  /\ r.op = "store"
  /\ sessions' = [sessions EXCEPT ![r.next] =
       [state |-> "stored", user |-> r.user, revoked |-> FALSE,
        replacedBy |-> None, signedAt |-> r.at, expiresAt |-> Expiry(now),
        login |-> IF r.kind = "login" THEN r.next ELSE sessions[r.token].login]]
  /\ Goto(w, IF r.kind = "refresh"
             THEN Revoking(r.user, r.token, r.next) ELSE Idle)
  /\ held' = IF r.kind = "refresh" THEN held ELSE held \cup {r.next}
  /\ overtaken' = overtaken \ {w}
  /\ UNCHANGED <<rowTtl, users, now, forked, ended, outdated, gap>>

\* Mutant: only a logout marks the row as revoked.
RevokedKeepingRotated(row, next) ==
  [row EXCEPT !.revoked = (next = None), !.replacedBy = next]

\* revokeSession: whatever the row says by now.
Revoked(row, next) ==
  [row EXCEPT !.revoked = TRUE, !.replacedBy = IF next = None THEN @ ELSE next]

\* The last step of a refresh, a logout or a refused token that has expired.
Revokes(w) ==
  LET r == request[w] IN
  /\ r.op = "revoke"
  /\ sessions' = IF Stored(r.token)
                 THEN [sessions EXCEPT ![r.token] = Revoked(@, r.next)]
                 ELSE sessions
  /\ held' = IF r.next = None THEN held ELSE held \cup {r.next}
  /\ Goto(w, Idle)
  /\ UNCHANGED <<rowTtl, users, now, history>>

\* A refresh of the user that read a row of the login while it was live.
StillRefreshed(u, login) ==
  \E v \in Workers :
    LET r == request[v] IN
    /\ r.kind = "refresh" /\ r.op \in {"compare", "load", "sign", "store"}
    /\ r.user = u /\ sessions[r.token].login = login

\* revokeAllUserSessions, after a reused token, for a user who may not
\* authenticate, or after a new password.
RevokesAll(w) ==
  LET r == request[w] IN
  /\ r.op = "revokeAll"
  /\ sessions' = [t \in Tokens |->
       IF LiveSession(t) /\ sessions[t].user = r.user
       THEN [sessions[t] EXCEPT !.revoked = TRUE] ELSE sessions[t]]
  /\ Goto(w, Idle)
  /\ ended' = IF r.kind = "change"
              THEN {l \in ended : ~StillRefreshed(r.user, l)} ELSE ended
  /\ UNCHANGED <<rowTtl, users, held, now, forked, outdated, gap, overtaken>>

-----------------------------------------------------------------------------
(* UsersService.changePassword, and updateForActor with a password, which    *)
(* leaves the sessions as they are                                           *)

IssuedTo(u) == {t \in Tokens : sessions[t].user = u}

SignedFor(u) ==
  IssuedTo(u) \cup
    {t \in Tokens : \E v \in Workers :
       request[v].op = "store" /\ request[v].next = t /\ request[v].user = u}

\* The new hash is there; passwordChangedAt is taken from the clock.
Stamps(w) ==
  /\ request[w].op = "stamp"
  /\ Continues(w, [request[w] EXCEPT !.op = "save", !.at = now])

\* The user is written.
Writes(w, next) ==
  LET r == request[w] IN
  /\ r.op = "save"
  /\ users' = [users EXCEPT ![r.user].version = @ + 1, ![r.user].changedAt = r.at]
  /\ Goto(w, next)
  /\ outdated' = (outdated \cup SignedFor(r.user)) \ gap[w]
  /\ ended' = IF r.kind = "change"
              THEN ended \cup {sessions[t].login : t \in IssuedTo(r.user)} ELSE ended
  /\ gap' = [gap EXCEPT ![w] = {}]
  /\ UNCHANGED <<rowTtl, sessions, held, now, forked, overtaken>>

\* Mutant: changePassword forgets the sessions.
SavesOnly(w) == Writes(w, Idle)

Saves(w) ==
  LET r == request[w] IN
  Writes(w, IF r.kind = "change" THEN RevokingAll(r.user, "change") ELSE Idle)

-----------------------------------------------------------------------------
(* The rest of the system *)

\* updateStatusForActor.
SetStatus(u, active) ==
  /\ users' = [users EXCEPT ![u].active = active]
  /\ overtaken' = IF active THEN overtaken
                  ELSE overtaken \cup {w \in Workers : request[w].user = u /\
                                                      request[w].op \in {"sign", "store"}}
  /\ UNCHANGED <<rowTtl, sessions, request, held, now, forked, ended, outdated, gap>>

\* The process dies or loses the database.
CutOff(w) ==
  LET r == request[w]
      unsent == IF r.op = "store" THEN {r.next} ELSE {}
  IN
  /\ r # Idle
  /\ Goto(w, Idle)
  /\ forked' = IF r.op = "revoke" /\ r.next # None
               THEN forked \cup {sessions[r.token].login} ELSE forked
  /\ ended' = IF r.op = "revokeAll" /\ r.kind = "change"
              THEN ended \ IssuedTo(r.user) ELSE ended
  /\ outdated' = outdated \ unsent
  /\ gap' = [v \in Workers |-> IF v = w THEN {} ELSE gap[v] \ unsent]
  /\ overtaken' = overtaken \ {w}
  /\ UNCHANGED <<rowTtl, sessions, users, held, now>>

\* The TTL index.  What the token says of itself remains.
RemoveExpired(t) ==
  /\ Stored(t) /\ sessions[t].expiresAt <= now
  /\ sessions' = [sessions EXCEPT
       ![t] = [@ EXCEPT !.state = "removed", !.revoked = FALSE,
                        !.replacedBy = None, !.expiresAt = 0]]
  /\ UNCHANGED <<rowTtl, users, request, held, now, history>>

Tick ==
  /\ now < MaxTime
  /\ now' = now + 1
  /\ UNCHANGED <<rowTtl, sessions, users, request, held, history>>

Serves(w) ==
  \/ \E u \in Users : Login(w, u) \/ ChangePassword(w, u) \/ ResetPassword(w, u)
  \/ \E t \in Tokens : \/ Present(w, t, "refresh") \/ Present(w, t, "logout")
                       \/ Signs(w, t)
  \/ Finds(w) \/ Compares(w) \/ Loads(w) \/ Stores(w) \/ Revokes(w) \/ RevokesAll(w)
  \/ Stamps(w) \/ Saves(w)
  \/ CutOff(w)

Next ==
  \/ \E w \in Workers : Serves(w)
  \/ \E u \in Users, b \in BOOLEAN : SetStatus(u, b)
  \/ \E t \in Tokens : RemoveExpired(t)
  \/ Tick

Spec == Init /\ [][Next]_vars

-----------------------------------------------------------------------------

Row ==
  [state : {"unused", "stored", "removed"}, user : Users \cup {None},
   revoked : BOOLEAN, replacedBy : Tokens \cup {None}, signedAt : Nat,
   expiresAt : Nat, login : Tokens \cup {None}]

Request ==
  [op : {"idle", "find", "compare", "load", "sign", "store", "revoke", "revokeAll",
         "stamp", "save"},
   kind : {"none", "login", "refresh", "logout", "change", "reset"},
   user : Users \cup {None}, token : Tokens \cup {None},
   next : Tokens \cup {None}, at : Nat]

\* A request holds what its next step uses.
RequestOK(r) ==
  /\ r.op = "idle" \/ r.user \in Users
  /\ r.kind \in {"refresh", "logout"} => r.token \in Tokens
  /\ r.op \in {"find", "compare"} => r.kind \in {"refresh", "logout"}
  /\ r.op = "load" => r.kind \in {"login", "refresh", "logout"}
  /\ r.op \in {"sign", "store"} => r.kind \in {"login", "refresh"}
  /\ r.op = "revoke" => r.token \in Tokens
  /\ r.op = "store" => r.next \in Tokens

TypeOK ==
  /\ rowTtl \in {Ttl, 0}
  /\ sessions \in [Tokens -> Row]
  /\ users \in [Users -> [active : BOOLEAN, version : Nat, changedAt : Nat]]
  /\ request \in [Workers -> Request]
  /\ \A w \in Workers : RequestOK(request[w])
  /\ held \subseteq Tokens
  /\ now \in Nat
  /\ forked \subseteq Tokens /\ ended \subseteq Tokens /\ outdated \subseteq Tokens
  /\ gap \in [Workers -> SUBSET Tokens]
  /\ overtaken \subseteq Workers

\* A refresh that is cut off between its two writes, or that overlaps with a
\* logout or another refresh, never loses the way forward: a session is marked
\* as replaced only by one that was stored before, for the same login.
ReplacedByStored ==
  \A t \in Tokens :
    LET n == sessions[t].replacedBy IN
    n # None => /\ sessions[n].state # "unused"
                /\ sessions[n].login = sessions[t].login
                /\ sessions[n].user = sessions[t].user

\* If parseTtlToSeconds understands the lifetime, the row of a refresh token is
\* there and has not expired as long as the signature of the token verifies,
\* so the only refusals are revocations; the rounding of iat and the time
\* between signing and storing are on the safe side.  If it does not, every row
\* is born expired, although the token is good: no refresh ever succeeds.
RowOutlivesToken ==
  \A t \in Tokens :
    sessions[t].state # "unused" =>
      IF rowTtl = 0 THEN sessions[t].replacedBy = None
      ELSE Verifies(t) => Stored(t) /\ now < sessions[t].expiresAt

\* A login has two live sessions only while a refresh that has stored the one is
\* about to revoke the other, unless two refreshes went on from the same row
\* (refresh has no lock), or one was cut off between its two writes: then the
\* login stays forked.
OneLivePerLogin ==
  \A s, t \in Tokens :
    /\ LiveSession(s) /\ LiveSession(t) /\ s # t
    /\ sessions[s].login = sessions[t].login
    /\ sessions[s].login \notin forked
    => \E w \in Workers :
         /\ request[w].op = "revoke"
         /\ {request[w].token, request[w].next} = {s, t}

\* Once a user has changed the password and his sessions are revoked, no login
\* from before the change has a live session.  Left out are a change that was
\* cut off before it revoked, and a login one of whose rows a refresh had read
\* by then and goes on from; neither excuses a later change.
ChangeEndsSessions ==
  \A t \in Tokens :
    LiveSession(t) /\ sessions[t].login \in ended =>
      \E w \in Workers :
        /\ request[w].op = "revokeAll" /\ request[w].kind = "change"
        /\ request[w].user = sessions[t].user

\* An access token that was signed before the password now stored was stamped is
\* refused, although iat is rounded, nothing is stored about the token, and it
\* may have been on its way when the password was written.  Left out, as the
\* code accepts them, are one signed between the stamp and the write of that
\* password and one signed on the tick of the stamp.
OldAccessTokensRefused ==
  \A t \in outdated :
    /\ sessions[t].state # "unused"
    /\ sessions[t].signedAt # users[sessions[t].user].changedAt
    => ~AccessAccepted(t)

\* Nobody gets a session while he is blocked, unless that block came after the
\* request had read his status for the last time.
BlockedGetNoSession ==
  [][\A t \in Tokens :
       sessions[t].state = "unused" /\ sessions'[t].state = "stored" =>
         \E w \in Workers :
           /\ request[w].op = "store" /\ request[w].next = t
           /\ users[request[w].user].active \/ w \in overtaken]_vars
=============================================================================
