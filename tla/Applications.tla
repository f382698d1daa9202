----------------------------- MODULE Applications -----------------------------
(***************************************************************************)
(* Applications for a place, made to the Telegram bot or by HTTP           *)
(* (PhoneRequestService), and their approval by the administrators, which  *)
(* creates a student (StudentsService).  Updates are handled concurrently; *)
(* a handler is cut into the steps between its awaits, any of which may    *)
(* throw.  The session of a chat is in memory and gone after a restart.    *)
(*                                                                         *)
(* Chats are those with one person; that person's id names the chat.       *)
(***************************************************************************)
EXTENDS Naturals, FiniteSets

CONSTANTS
  People,       \* Telegram ids
  Updates,      \* handlers of updates and HTTP requests at the same time
  MaxRequests,  \* bound on the applications stored
  MaxMessages,  \* bound on the messages to the administrators about each
  Absent

ASSUME ApplicationsAssumption ==
  /\ MaxRequests \in Nat /\ MaxMessages \in Nat
  /\ Absent \notin People \cup Nat

Ids == 1..MaxRequests       \* _ids, in the order of insertion
Messages == 1..MaxMessages
Verdicts == {"approved", "rejected"}

VARIABLES
  session,    \* of each chat
  requests,   \* the phonerequests collection
  students,   \* the Telegram ids of the students collection
  messages,   \* what became of each message to the administrators
  handler,    \* updates being handled
  enrolled,   \* requests a student was created from
  cut,        \* requests whose handler was cut off before one of two steps, with the step
  doubled     \* people two of whose applications were inserted at once

applyVars == <<session, requests, students, messages, handler, enrolled, cut, doubled>>

shared == <<session, requests, students, messages, enrolled, cut, doubled>>

\* contact: whose number the chat has sent; step: what its next text is taken
\* for, a name, nothing, or something the login or a broadcast asked for.
Fresh == [step |-> "none", contact |-> Absent]

NoRequest == [telegramId |-> Absent, status |-> "none", bot |-> FALSE]

Stored == {i \in Ids : requests[i].status # "none"}
Of(q) == {i \in Stored : requests[i].telegramId = q}

\* findOne({ telegramId }): without a sort the one inserted first.
Oldest(q) == IF Of(q) = {} THEN Absent ELSE CHOOSE i \in Of(q) : \A j \in Of(q) : i <= j

Idle == [step |-> "idle"]

Applying(chat, q) ==
  [step |-> "find", chat |-> chat, telegramId |-> q, id |-> Absent, late |-> FALSE]

Deciding(i, m, step, status) == [step |-> step, id |-> i, message |-> m, status |-> status]

ApplyInit ==
  /\ session = [p \in People |-> Fresh]
  /\ requests = [i \in Ids |-> NoRequest]
  /\ students = {}
  /\ messages = [i \in Ids |-> [m \in Messages |-> "unsent"]]
  /\ handler = [h \in Updates |-> Idle]
  /\ enrolled = {} /\ cut = {} /\ doubled = {}

\* A handler that starts, and one that goes on to its next step.
Starts(h, r) ==
  /\ handler[h] = Idle
  /\ handler' = [handler EXCEPT ![h] = r]
  /\ UNCHANGED shared

Goes(h, r) == handler' = [handler EXCEPT ![h] = r]

\* An update that is handled in one step and only changes its session.
Answers(p, s) ==
  /\ session' = [session EXCEPT ![p] = s]
  /\ UNCHANGED <<requests, students, messages, handler, enrolled, cut, doubled>>

-----------------------------------------------------------------------------
(* Applying: a contact, then a name *)

\* The contact may be someone else's, or of somebody without an account;
\* whatever the session was is dropped.
Contact(p, q) == Answers(p, [Fresh EXCEPT !.contact = q])

TapWriteName(p) == Answers(p, [session[p] EXCEPT !.step = "name"])

\* /login or a broadcast: the contact stays, the next text is not a name.
AskForSomethingElse(p) == Answers(p, [session[p] EXCEPT !.step = "other"])

\* ... until it is answered, wrong, or taken.
SomethingElseDone(p) ==
  /\ session[p].step = "other"
  /\ \/ Answers(p, Fresh)
     \/ Answers(p, [session[p] EXCEPT !.step = "none"])

TapTelegramName(h, p) ==
  /\ session[p].contact # Absent
  /\ Starts(h, Applying(p, session[p].contact))

TextName(h, p) ==
  /\ session[p].step = "name" /\ session[p].contact # Absent
  /\ Starts(h, Applying(p, session[p].contact))

\* POST /phone-request and /phone-request/tg-request: no chat.
ApplyByHttp(h, q) == Starts(h, Applying(Absent, q))

\* Mutant: a pending one is not looked for.
FindAnew(h) ==
  LET r == handler[h] IN
  /\ r.step = "find"
  /\ Goes(h, [r EXCEPT !.step = "save"])
  /\ UNCHANGED shared

\* PhoneRequestService.create looks at the oldest request only.
Find(h) ==
  LET r == handler[h]
      i == Oldest(r.telegramId) IN
  /\ r.step = "find"
  /\ Goes(h, [r EXCEPT !.step = "save",
                       !.id = IF i # Absent /\ requests[i].status = "pending" THEN i ELSE Absent])
  /\ UNCHANGED shared

AfterSave(r, i) ==
  IF r.chat = Absent THEN Idle ELSE [r EXCEPT !.step = "announce", !.id = i]

\* Mutant: applying again makes the application pending again.
SaveExistingAnew(h) ==
  LET r == handler[h] IN
  /\ r.step = "save" /\ r.id # Absent
  /\ requests' = [requests EXCEPT ![r.id].status = "pending"]
  /\ Goes(h, AfterSave(r, r.id))
  /\ UNCHANGED <<session, students, messages, enrolled, cut, doubled>>

\* Only the modified paths are saved, and the status is none of them: a
\* decision made since is not undone.
SaveExisting(h) ==
  LET r == handler[h] IN
  /\ r.step = "save" /\ r.id # Absent
  /\ Goes(h, AfterSave(r, r.id))
  /\ UNCHANGED shared

NextId == Cardinality(Stored) + 1

\* 'late' marks those that have looked before this one was there.
Insert(h) ==
  LET r == handler[h]
      q == r.telegramId IN
  /\ r.step = "save" /\ r.id = Absent
  /\ NextId \in Ids
  /\ requests' = [requests EXCEPT ![NextId] =
                    [telegramId |-> q, status |-> "pending", bot |-> r.chat # Absent]]
  /\ doubled' = IF r.late THEN doubled \cup {q} ELSE doubled
  /\ handler' = [g \in Updates |->
       IF g = h THEN AfterSave(r, NextId)
       ELSE IF handler[g].step = "save" /\ handler[g].telegramId = q
       THEN [handler[g] EXCEPT !.late = TRUE]
       ELSE handler[g]]
  /\ UNCHANGED <<session, students, messages, enrolled, cut>>

\* The administrators get a message with buttons.
Announce(h) ==
  LET r == handler[h] IN
  /\ r.step = "announce"
  /\ \E m \in Messages :
       /\ messages[r.id][m] = "unsent"
       /\ messages' = [messages EXCEPT ![r.id][m] = "open"]
  /\ Goes(h, [r EXCEPT !.step = "reply"])
  /\ UNCHANGED <<session, requests, students, enrolled, cut, doubled>>

\* The reply is out; the session is dropped, whatever has become of it.
Applied(h) ==
  LET r == handler[h] IN
  /\ r.step = "reply"
  /\ session' = [session EXCEPT ![r.chat] = Fresh]
  /\ Goes(h, Idle)
  /\ UNCHANGED <<requests, students, messages, enrolled, cut, doubled>>

-----------------------------------------------------------------------------
(* Deciding *)

\* Nothing asks whether the request has been decided before.
TapApprove(h, i, m) ==
  /\ messages[i][m] = "open"
  /\ Starts(h, Deciding(i, m, "student", "approved"))

TapReject(h, i, m) ==
  /\ messages[i][m] = "open"
  /\ Starts(h, Deciding(i, m, "handle", "rejected"))

\* Mutant: the approval ends with the student, and the message loses its
\* buttons.
EnrolApplicantAndEdit(h) ==
  LET r == handler[h] IN
  /\ r.step = "student"
  /\ requests[r.id].telegramId \notin students
  /\ students' = students \cup {requests[r.id].telegramId}
  /\ enrolled' = enrolled \cup {r.id}
  /\ Goes(h, [r EXCEPT !.step = "edit"])
  /\ UNCHANGED <<session, requests, messages, cut, doubled>>

\* telegramId has a unique index: a second student is an error (Throw).
EnrolApplicant(h) ==
  LET r == handler[h] IN
  /\ r.step = "student"
  /\ requests[r.id].telegramId \notin students
  /\ students' = students \cup {requests[r.id].telegramId}
  /\ enrolled' = enrolled \cup {r.id}
  /\ Goes(h, [r EXCEPT !.step = "handle"])
  /\ UNCHANGED <<session, requests, messages, cut, doubled>>

Handle(h) ==
  LET r == handler[h] IN
  /\ r.step = "handle"
  /\ requests' = [requests EXCEPT ![r.id].status = r.status]
  /\ Goes(h, [r EXCEPT !.step = "edit"])
  /\ UNCHANGED <<session, students, messages, enrolled, cut, doubled>>

\* PATCH /phone-request: a status, and nothing else.
HandleByHttp(i, s) ==
  /\ i \in Stored
  /\ requests' = [requests EXCEPT ![i].status = s]
  /\ UNCHANGED <<session, students, messages, handler, enrolled, cut, doubled>>

\* The message tapped gets the verdict in place of its buttons.  Telegram
\* refuses to put there what is there already (Throw).
Edit(h) ==
  LET r == handler[h] IN
  /\ r.step = "edit" /\ messages[r.id][r.message] # r.status
  /\ messages' = [messages EXCEPT ![r.id][r.message] = r.status]
  /\ Goes(h, [r EXCEPT !.step = "tell"])
  /\ UNCHANGED <<session, requests, students, enrolled, cut, doubled>>

\* The applicant is told.
Tell(h) ==
  /\ handler[h].step = "tell"
  /\ Goes(h, Idle)
  /\ UNCHANGED shared

\* POST /students with a Telegram id, or PATCH /students/:id of one without.
\* Students are archived, never removed.
StaffAddsId(q) ==
  /\ q \notin students
  /\ students' = students \cup {q}
  /\ UNCHANGED <<session, requests, messages, handler, enrolled, cut, doubled>>

\* Absent: an id that is no applicant's.
StaffChangesId(q, other) ==
  /\ q \in students /\ other \notin students
  /\ students' = (students \ {q}) \cup ({other} \ {Absent})
  /\ UNCHANGED <<session, requests, messages, handler, enrolled, cut, doubled>>

-----------------------------------------------------------------------------
(* What goes wrong *)

\* An application is stored and the administrators are not told of it, or its
\* student is created and it is not marked as approved.
CutOff(r) ==
  IF r.step = "announce" \/ (r.step = "handle" /\ r.status = "approved")
  THEN {<<r.id, r.step>>} ELSE {}

\* A step throws: the error is answered and the rest of the handler skipped.
Throw(h) ==
  /\ handler[h] # Idle
  /\ Goes(h, Idle)
  /\ cut' = cut \cup CutOff(handler[h])
  /\ UNCHANGED <<session, requests, students, messages, enrolled, doubled>>

Restart ==
  /\ session' = [p \in People |-> Fresh]
  /\ handler' = [h \in Updates |-> Idle]
  /\ cut' = cut \cup UNION {CutOff(handler[h]) : h \in Updates}
  /\ UNCHANGED <<requests, students, messages, enrolled, doubled>>

-----------------------------------------------------------------------------

Continues(h) ==
  \/ Find(h) \/ SaveExisting(h) \/ Insert(h) \/ Announce(h) \/ Applied(h)
  \/ EnrolApplicant(h) \/ Handle(h) \/ Edit(h) \/ Tell(h)
  \/ Throw(h)

ApplyNext ==
  \/ \E p \in People :
       \/ \E q \in People \cup {Absent} : Contact(p, q)
       \/ TapWriteName(p) \/ AskForSomethingElse(p) \/ SomethingElseDone(p)
       \/ StaffAddsId(p)
       \/ \E q \in People \cup {Absent} : StaffChangesId(p, q)
  \/ \E h \in Updates :
       \/ \E p \in People : TapTelegramName(h, p) \/ TextName(h, p) \/ ApplyByHttp(h, p)
       \/ \E i \in Ids, m \in Messages : TapApprove(h, i, m) \/ TapReject(h, i, m)
       \/ Continues(h)
  \/ \E i \in Ids, s \in Verdicts : HandleByHttp(i, s)
  \/ Restart

ApplySpec == ApplyInit /\ [][ApplyNext]_applyVars

-----------------------------------------------------------------------------

\* While the request that create looks at is pending it is the person's only
\* one: applying again changes it and adds none, unless two applications
\* were inserted at once.
OldestPendingIsOnly ==
  \A q \in People \ doubled :
    Oldest(q) # Absent /\ requests[Oldest(q)].status = "pending" => Of(q) = {Oldest(q)}

\* Those whose handler was cut off when it was to tell the administrators, and
\* when it was to mark them as approved.
Untold == {i \in Ids : <<i, "announce">> \in cut}
Unmarked == {i \in Ids : <<i, "handle">> \in cut}

\* A pending application made in the bot can be decided: a message with
\* buttons is out or about to be, unless a handler was cut off just before it
\* was to send one.
PendingIsKnown ==
  \A i \in Stored \ Untold :
    requests[i].status = "pending" /\ requests[i].bot =>
      \/ \E m \in Messages : messages[i][m] = "open"
      \/ \E h \in Updates : handler[h].step = "announce" /\ handler[h].id = i

\* A request from which a student was created is pending no longer, unless
\* the handler is at it or was cut off between the two writes: approving it
\* again would fail on the student for ever.
EnrolledIsHandled ==
  \A i \in enrolled \ Unmarked :
    requests[i].status # "pending"
      \/ \E h \in Updates : handler[h].step = "handle" /\ handler[h].id = i
                           /\ handler[h].status = "approved"
=============================================================================
