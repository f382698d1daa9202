# Verification of the neduco backend

TLA+ models of the NestJS backend of a chain of training centres (`src/src`):
payments, debt reminders, login sessions, staff accounts, the academic
catalogue, rosters, who sees what, applications through the Telegram bot, and
the rate limit of the public endpoints.
TLC checks the models on small instances, TLAPS proves the most important of
the properties for all values of the constants.

The program is a set of services over MongoDB collections. No document carries
a version check, and no handler reads and writes in one transaction: it reads,
decides, and writes in a later database call. `create` and `addPayment` of the
payments do open a transaction, but after what they read, so that it holds one
write. Every behaviour that is hard to test here
comes from that, from the background jobs that run next to the requests and on
every server, and from values that are derived, stored, and trusted later.

## 1. Inventory

| component | state | operations | talks to |
|---|---|---|---|
| Payments (`payments/`) | `payments` collection, unique index on (studentId, courseId, year, month) | create, addPayment, freeze, unfreeze, update, delete, generateMonthlyPayments, recalculateDebtAging, reports | courses and users for prices; called by the scheduler |
| Scheduler (`scheduler/`) | one in-memory flag per job | three cron handlers and their manual twins | payments, reminders |
| Debt reminders, SMS (`notifications/`) | `notificationdeliveries` collection | sendDebtReminders, processRecipient, sendSms | payments, users, the SMS provider |
| Authentication (`auth/`) | `authsessions` collection with a TTL index, JWTs held by clients | login, refresh, logout, changePassword | users |
| Users and roles (`users/`, `roles/`) | `users` collection, unique indexes on username, email and telegramId | create, own profile, PUT, updateRole, updateStatus, changePassword, remove | read by everything |
| Courses, groups, schedule, rooms, attendance | one collection each, no index beyond (user, schedule) of attendance and the names | create, update, remove, membership, marking | each validates against the others before it writes |
| Students (`students/`) | `students` collection, unique student number and telegramId | create, update, softDelete | branches, phone requests |
| Branches (`branches/`) | `branches` collection | create, update | referenced by all |
| Telegram bot, phone requests (`telegram/`, `phone-request/`) | one chat session per user in memory, `phonerequests` collection | contact, callback, registration, approve, reject | users, the Telegram API |
| Homework, grades, attendance records, statistics | a collection each | CRUD | students, rosters, branches |
| Scopes (`common/access/` and a private part of every service) | none | for every list and every single document: may this actor? | roles and branches of users, rosters |
| Rate limiting (`common/rate-limit/`, `common/guards/`) | a map in each process, or Redis | one increment per public request | the public controllers |
| Notification deliveries | reads `notificationdeliveries` | lists and counts | payments, students |
| Guards, filters, config, health, scripts | none | per request, by hand | all controllers |

### What is hard in it, and what must hold

- **Payments.** A payment document is money plus five fields derived from it.
  Five write paths recompute them from a document that may be stale; three of
  them `save()` (a patch of the changed paths), one is `findByIdAndUpdate`
  (all listed fields), one is a job that writes from a snapshot. Must hold: no
  interleaving invents credit, drops a history entry, doubles a month or brings
  a deleted payment back; without overlap the derived fields agree with the
  history, the reports and reminders see exactly the debtors, nothing but a raised
  price makes a settled payment owe again, an overdue one is marked.
- **Debt reminders.** Count, send and record are three calls, once per
  recipient; every server runs the same cron; the flag against overlap is
  process memory. Must hold: the daily limit is exceeded by a bounded amount at
  most, one failure does not stop the batch, the flag never stays up.
- **Sessions.** A refresh stores the next row and then revokes the old one;
  a reused token revokes everything; expiry is in whole seconds on one side and
  milliseconds on the other. Must hold: no client is left without a way
  forward, the row outlives the token, old access tokens are refused, a
  password change ends the sessions - up to exactly those overlaps that the code
  leaves open, each excused at the event that causes it and no longer.
- **Catalogue.** Groups, lessons and attendance refer to courses, rooms and
  users. Every rule is check-then-write. Must hold: no room, teacher, group or
  student is booked twice, nothing refers to what has been removed, group and
  lesson teachers teach the course - and the interesting question is which of
  these survive overlapping requests and later edits of the other side.
- **Users.** The last-owner rules and the uniqueness of contacts are checks
  before a write, and the PUT of the whole user writes role and status without
  them. Must hold: nothing but an overlap or that PUT loses the last owner or
  shares a phone number, and nobody is moved between branches by an edit that
  does not name them.
- **Rosters.** Course, groups and lessons each list their students, nothing
  carries a change from one to the other, and records are kept of students who
  may be archived at any time. Must hold: nobody is listed twice, a lesson gets
  no student who is not enrolled, records of archived students do not change,
  except by the overlap (or the roster) that a property names.
- **Scopes.** Every service answers "may this actor see it?" twice, in a query
  for its list and in code for a single document, and four services each count
  a teacher's students in their own way. Must hold: what a list shows can be
  opened, and a student who is shown can be graded, however people have moved -
  and where the code does not keep this, in which cases exactly.
- **Telegram.** An application is stored, announced, decided by one of several
  administrators; the approval is two writes and two messages, each of which
  can throw, and nothing resumes it. Must hold: applications do not pile up,
  do not get lost to the administrators, and a student made means a request
  handled, unless a handler was cut off between exactly those two steps.
- **Rate limit.** Fixed windows; under Redis the count and the answer are apart,
  and either can be late or lost. Must hold: a bound on what any span of the
  length of a window lets through, and nobody locked out for ever.

## 2. Plan

Each module is one component; each has an `MC` module with its instances, and a
`Proofs` module when theorems about it are proved. They are built in the order
of what the centre would lose first if they were wrong: money, messages to
debtors, logins, the timetable, the references of the catalogue.

| order | modules | state |
|---|---|---|
| 1 | `PaymentLifecycle` (pure part), `PaymentLedger` (abstract ledger), `Payments` (service and jobs; implements the ledger), `PaymentsProofs` | done |
| 2 | `DebtReminders`, `DebtRemindersProofs` | done |
| 3 | `Sessions`, `SessionsProofs` | done |
| 4 | `Timetable`, `TimetableProofs` | done |
| 5 | `Catalog`, `CatalogProofs` | done |
| 6 | `Accounts`, `AccountsProofs` | done |
| 7 | `Enrolment`, `EnrolmentProofs` | done |
| 8 | `Scopes`, `Applications`, `AccessProofs` | done |
| 9 | `RateLimit`, proved about in `AccessProofs` too | done |

`Catalog`, `Enrolment`, `Scopes` and `Timetable` are four views of the same
services: which documents refer to which, who is on the rosters, who sees
what, and when things take place. Each abstracts what the others have. What
ties them is that each over-approximates the checks of the others: `Catalog`
lets any student be enrolled, `Timetable` takes any combination, `Scopes` makes
every request one step. A property of one therefore holds whatever the others
refuse.

Abstract specifications worth stating: the ledger (done); a booking calendar
that `Timetable` implements when requests do not overlap.

## 3. How the models read

A request is two steps, or more where the code makes more database calls: a
step that reads, decides and computes the write, and the write. Between the two
any other request may run. `Workers` is the number of requests in flight at a
time; with one worker the requests run one after the other. A request may be
cut off before its write (`Abort`, `CutOff`): a lost connection or a process
that dies. A refusal that writes nothing is not a step.

Every handler is one action whose guard holds its checks in the order of the
code, so a definition and the lines named for it in `PROJECT.json` can be read
side by side. Definitions marked `Mutant:` are not part of the specification:
each is the definition after it with a plausible mistake in it, and shows that a
property depends on that line of code.

Some variables are read by no action of the code: `Sessions!history`,
`Timetable!raced` and `Catalog!excused` with the `since` of a request,
`Accounts!excused` with the `moved` of a request, `Enrolment!doubled`, `dropped`
and `reinstated`, `Applications!cut` and `doubled`. They remember what a property has
to know about the past: whether two requests overlapped, or which of them
wrote. None of them is set by the step alone that breaks the rule; it is set
where the reason is, and the property is that there is no other reason.

### Payments

`PaymentLifecycle` has what `calculatePaymentLifecycle` derives from a document
and the filters of the debtors report and of the reminders. `Payments` has the
collection, the clock and the requests. `payments[id]` is a document; its
`paymentHistory` is a length (`entries`) and a sum (`ledger`).

| action | code |
|---|---|
| `ReadCreate`, `CommitInsert` | `create`: duplicate check, insert under the unique index |
| `ReadAddPayment`, `CommitWrite` | `addPayment`: load, lift the freeze, push, `save()` |
| `ReadFreeze`, `ReadUnfreeze` | `freezePayment`, `unfreezePayment` |
| `ReadUpdate` | `update` with an amount or a due date |
| `ReadDelete`, `CommitDelete` | `delete` |
| `StartGeneration`, `SkipPair`, `ReadPair` | `generateMonthlyPayments` |
| `StartAging`, `AgeOne` | `recalculateDebtAging`: one find, one write per document |

A write is a patch: `save()` sends the paths that differ from the loaded
document (`Delta`), `findByIdAndUpdate` those it lists (`Listed`), a push is
relative to the stored array (`Pushed`). This is where the interleavings bite.

Left out: edits of the comment alone; the dry runs of the jobs; old documents
without a due date; branch scoping of the actor; changes of rosters and prices
while a generation runs (`Billing` is fixed). The clock is read once per handler.

### Debt reminders

`overdue` is what the query of `sendDebtReminders` selects, `run[s]` the pass
under way on server `s` with the place it is at, `running[s]` the flag of the
scheduler, `counted` the deliveries that the daily limit counts.
`CronFires` and `Returns` are the cron handler and its `finally`, `Finds`,
`TakesPayment`, `Ends` the loop, `Counts`, `Sends`, `Records` the three calls of
`processRecipient`, `Throws` any of them throwing, `Crashes` and `Restarts` the
process. Payments are settled and fall due at any moment (`Changes`).
The scheduler is taken to be enabled; the manual run of an administrator is not
modelled apart from the cron.

### Sessions

`sessions[t]` is the row of refresh token `t`, `held` the tokens a client has,
`users` what authentication reads of a user, `rowTtl` the lifetime as
`parseTtlToSeconds` reads it: that of the token, or 0 for a text it does not
match although jsonwebtoken does, such as `1w` or `7 days`. `Login`, `Present`
(`verifyAsync` of a token, to refresh or to log out), `Finds` (its row),
`Compares` (the row's expiry with the clock), `Loads`, `Signs`, `Stores`,
`Revokes`, `RevokesAll` are the steps of a request between its awaits, in their
order; `ChangePassword` and `ResetPassword` (by the PUT of a user) take the stamp
in `Stamps` and write it in `Saves`, after which only the first revokes;
`SetStatus` is the staff's block, `RemoveExpired` the TTL index. Time is in
ticks, several to the second, as iat and exp are whole seconds and the row has
milliseconds. The access and the refresh token of a pair are signed at one
moment; the expiry of access tokens is left out; a logout with another user's
token is a refusal.

Each variable of the history is about one kind of event, and excuses only what
that event can cause: `forked` the logins with two refreshes from one row, or
with one cut off between its writes; `ended` the logins a change of password has
ended, from which one leaves when the change is cut off before it revokes or a
refresh that had read a row of it goes on; `outdated` the tokens signed before
the stored password was stamped, `gap` those signed between a stamp and its
write; `overtaken` the requests whose user was blocked after they had read his
status. A later change or block of the same user starts anew.

### Timetable

`Instant`, `UtcDay`, `LocalDay`, `Upcoming` are the date arithmetic of
`ScheduleService`, in slots instead of minutes and with the offset of the local
time zone. `NewSpans` and `MovedSpans` are the spans `toScheduleState` can make
of a request, from which `ReadCreate` and `ReadUpdate` take one, `Accepted` the
conflict query, `Saved` what the update really stores. Which course, room and
teacher may be combined is over-approximated by `Asks`; `Catalog` has it.
Weekdays after the first are stored by the code but never scheduled, and are
left out, as are lessons repeated weekly, which the code does not check.

### Catalog

A document is the ids it refers to and one flag: `docs`. The guard of each
action is the look-ups of its handler; `LessonFits` is the whole of
`validateRelationsAndConflicts` but the conflicts. Rosters of students and the
check that a student is enrolled are left out, which allows more than the code
does; so are a course's legacy single teacher and the PATCH of a reference to
null. A handler's several look-ups are one step; they are independent reads
before the write, and the interesting overlap is with the write.

### Accounts

`docs` is the users collection; what a user is to other collections is in
`Catalog`, its password and sessions in `Sessions`. A body (`Asks`) names any of
role, status, contacts and branches. `Create`, `UpdateOwnProfile`, `UpdateRole`,
`UpdateStatus` and `Remove` check and then write (`Commit`); the PUT
(`updateForActor`) loads its target first (`Load`), checks later (`Check`) and
writes back branches it loaded. `MayAsk` is what routes, roles and
`assertActorCanManageTarget` let through. `Lands` has the unique indexes, which
the code relies on for every contact but the phone number. `excused` collects
the rules a write has broken for a reason the code leaves open: its check is out
of date (`moved`) or it has none (the role in a PUT; a removal counts owners who
are not active). The self-service password change and the hidden fields of the
answers are left out.

### Enrolment

`standing`, `course`, `group`, `lesson` and `work` are the students' isActive and
status, the rosters, and one record of each kind per student. `course` counts,
because a list may name somebody twice. `Payload` is the rule by which status
and isActive decide each other. `AddStudents` and `PushStudents` are
`addManyStudentsToCourse`; `CreateLesson`, and `LoadLesson`, `CheckLesson`,
`WriteLesson`, the create and the update of a lesson as far as students go: an
update with `group: null` is checked without a group and stored with the old
one. `MarkAttendance`, `CreateHomework`, `MarkComplete`, `AddGrade`,
`UpdateGrade`, `RemoveGrade` check the student and write later (`WriteWork`).
`dropped` are the students of a lesson whom a roster has dropped since they were
checked, `doubled` those added by two requests at once, `reinstated` those whom a
PATCH with isActive alone has made active again while the status still says
archived, inactive or deleted.

### Scopes

One request is one step; who is in whose scope are operators over the state.
For each service one operator is its list (`...Listed`), one its check of a
single document (`...Readable`, `...WithinScope`), and `StudentsOf...` the four
ways of counting a teacher's students. Payments and lessons have two lists each:
`PaymentListed` is `getAll`, `PaymentListedByStudent` is `getByStudent`;
`LessonListed` is the schedule, `LessonListedBy` the schedule of one person
(`GET /schedule/user/:id`). The rest of the module moves users and students
between branches and hands courses, groups and lessons to others, with the
checks of the code on who may.

Some queries look for students among the users, where they were before
`scripts/migrate-students-from-users.mjs`. `account` are the accounts that
migrated students still have there, with the ids they keep: the model starts
when the script has written the students, and `DeleteAccounts` is its last
call. Until then staff may edit account and student apart, and the lists and the
checks read different ones of the two. A student created since has no account.

### Applications

`session` is the state of a chat, `requests` the applications, `students` the
Telegram ids of students, `messages` the buttons the administrators have. A
handler is cut at its awaits, and at each may throw (`Throw`); `Restart` takes
all handlers and sessions. `cut` notes two of these cases only (`CutOff`): the
application is stored and the message to the administrators is not sent, or its
student is created and it is not approved. Someone may send another's contact, apply twice at
once, or by HTTP; two administrators may tap at once. `AskForSomethingElse` is
what the login and the broadcasts do to the same session.

### RateLimit

One key, under either store. `Guard` is the synchronous count in memory; under
Redis `Ask`, `Run` and `Reply` are the command, its execution and its answer,
`GivesUp` the timer, after which the command may still be run (`Ghost`) or not
(`Lost`). `bucket` has the count and what is left of the window. `admitted` has, for the
property, the admissions of the last window: each with its age and its place
among those of the same tick, which tell admissions apart, and with the count it
got and how long ago the window opened that counted it, which the proof uses to
tell them apart in another way.

## 4. Runs

| run | question | bounds | result |
|---|---|---|---|
| `payments_serial` | Without overlap, do amounts and status follow the history, do the report and the reminders see exactly the debtors, can a settled payment owe again by anything but a raised price, is an overdue one marked? | 2 payments, 2 months, 1 request, 2 prices, 2 moments, 2 history entries | holds |
| `payments_concurrent` | What survives overlapping requests and jobs? No double month, no invented credit, no lost history, no payment brought back: the ledger is implemented | 2 payments, 1 month, 2 requests | holds |
| `reminders_faults` | Two servers, failing provider and database, crashes: how far is the limit exceeded, does the batch go on, is the flag right, do passes end? | 2 payments, 2 servers, 2 phones (one shared by student and parent, one unusable), limit 1, 2 days | holds |
| `sessions` | Rotation, reuse, expiry, password changes and blocks: is each excuse the only one? | 1 user, 3 tokens, 2 requests, 1 login, 1 change of password, 2 ticks to the second, clock up to 2, lifetime 2 or not understood | holds |
| `timetable` | Is anything double-booked except by an overlap? | 2 lessons, 2 requests, 2 local days of 4 slots, offset of 1 slot, 3 combinations of room, teacher, group, student | holds |
| `catalog` | Which references can dangle, and is an overlap always to blame? | one document of each kind, 2 requests; one at a time once there is a payment (`PaymentsAlone`) | holds |
| `catalog_paid` | Does a course with payments stay? | one document of each kind, 1 request | violated: the look-up names a field that payments do not have |
| `accounts` | Can the last owner be lost, a phone number be shared, a user be moved, other than by an overlap? | 2 users, 2 requests, 1 branch, 1 contact without an index, bodies that name one thing | holds |
| `enrolment` | Where do rosters, lessons and records part? | 1 student, 2 groups, 1 lesson, 2 requests; once there are records one group is left alone (`WorkWithOneGroup`) | holds |
| `scopes` | Where do lists and single documents, and the services that count a teacher's students, part? | 2 users besides the owner, 1 student, 2 branches, 1 course, 1 group, 1 lesson; a figure is kept apart from lessons, courses with students and accounts, a group from lessons and courses with students while accounts remain, and an inactive student from documents and accounts (`Apart`) | holds |
| `applications` | Do applications pile up, get lost, or stay pending with a student made? | 1 person, 2 handlers, 2 applications, 1 message about each | holds |
| `ratelimit` | How much gets through in a window, is anyone locked out? | 1 server, 3 requests waiting for Redis, window and timeout of 2 ticks, limit 2 | holds |

**Why the bounds are enough.** Every race in these services is between the read
and the write of one request and one other write, so two workers show it; the
proofs, which cover any number, confirm this for payments, reminders and the
timetable. Two payments (lessons, courses) are the least with which uniqueness
and conflict can be asked. Two prices put the amount paid below, at and above
what is expected; the times put the due date before, at and after the clock.
In `timetable` the offset puts local midnight and UTC midnight at different
slots of a day, so that lessons fall on both sides of each; a week of one day
is enough, as no property depends on which day a weekday means. In `accounts` two
users are enough to lose both owners and to share a number; the contacts that
have an index are not in the run, `AccountsProofs` covers any set of indexes. In
`enrolment` one student is enough, as no rule relates two; two groups are needed
for a lesson to move between, and the two constraints (there and in `catalog`)
keep apart what does not concern each other: records never look at groups but
the one of their lesson, and no look-up finds a payment. In `ratelimit` the
bound of `SpanBounded` is tight: either store lets exactly one less through
than `Most * Windows`, and three waiting requests are one more than the limit. In `sessions` three
tokens are a login and two refreshes, one after the other or from the same row;
two ticks are the least that tell a second from a moment in it, and a clock that
goes to 2 reaches the expiry of what was issued at 0 or at 1. In `scopes` the list
and the check of a figure look at its metadata, the branches of users and the
groups only; while accounts remain, each list of groups, courses and lessons is
about one such document; and `isActive` is asked for only of students to be
graded, for whom nothing is claimed if they are not active: this is what `Apart`
leaves out. It
bounds what TLC explores from, not what it checks: the states one step beyond,
such as a figure filed while accounts remain, are checked too. A second teacher of a course who is of another branch needs
three users; that exception of `ListedIsReadable` is covered by the proof alone. In
`applications` there is one message about each application, so the run never
gets to announce one a second time; `PendingAreAnnounced` is proved for any
number of messages.

**Deadlock** is not checked where identifiers, the calendar or the clock are
bounded: there the model stops when they are used up, the program does not.

**Symmetry** is used for interchangeable ids and workers and only in runs
without liveness.

**Fairness.** `Payments!FairSpec`: the database answers (weak fairness of the
writes and of the steps of a job), the aging job is started again and again
because it is a daily cron, and a run is not cut short for ever at the same
document (strong fairness of `StartAging` and `AgeOne`). It is what
`OverdueBecomesDebt` needs: a payment that stays overdue is marked.
`DebtReminders!FairSpec`: a pass makes progress while its process lives (weak
fairness of `Step`), as each call returns or throws. `RateLimit!LimitSpec`: time
passes, and the timer of a request that waits too long fires (weak fairness of
`Tick` and of `GivesUp` once the timeout is over); replies of Redis need never
come and clients need never stop asking. No fairness is assumed of requests, of
crashes, or of the calendar.

**Properties with and without overlap.** What the code keeps only while
requests do not overlap is checked with one worker (`AmountsAgree`,
`RefsLive`), or stated with the overlap in it (`OneLivePerLogin`,
`ClashOnlyByRace`, `RefsLiveUnlessRaced`, `TeachersTeach`). The second form says
more: that the overlap is the only way.

## 5. Findings

A course with payments is deleted: `CoursesService.remove` looks payments up by
`course`, a field that only the other collections have (`catalog_paid`).

Other places where the code differs from what it says, seen while modelling and
not given a run of their own. The models follow the code in each:

- A freeze without an end is lifted by any deposit (`addPayment`), though the
  refusal says that a frozen payment cannot be modified; and a payment can be
  deleted together with a deposit recorded between its check and its deletion.
- Two servers exceed the daily limit of reminders, by one for each server more
  than one and never by more (`OvershootBounded`). A student without any phone
  makes the reminder fail instead of being skipped, as the record of the skip
  fails validation.
- `mapCourseResponse` adds the teacher of a course to its teachers, so the
  branch check of a single course counts one account too few: an admin is shown
  a course with one teacher, may remove it, and cannot open it
  (`Scopes!CourseReadable`). He is also shown courses of nobody, and courses of
  two teachers one of whom is of another branch, which he may not open.
- `GET /schedule/user/:id` shows an admin the lessons of a person of his
  branches with everybody on them; the single lesson is refused to him when
  anybody on it is of another branch.
- Students are looked for among the users in the lists of courses and groups, in
  the schedule of a person and in the check of a figure's metadata
  (`AccountOverlaps`). Once the migration has deleted their accounts, courses
  and groups with students are never in the list of an admin; until then they
  are listed by the branches of the account and opened by those of the student.
- A student named twice on a course makes it unreadable for an admin.
- `getByStudent` lists to an admin all payments of a student of his branches,
  whichever branch the payment names; those of another branch he cannot open
  (`PaymentListedByStudent`, `PaymentReadable`).
- Attendance has no courses among what makes a student a teacher's, so a student
  of a course alone is shown to the teacher, graded by him, and refused there.
- An archived student can be made active by a PATCH of isActive and stay
  archived. The checks of attendance, homework and grades ask for isActive, so
  his records change, although the message says they cannot be changed for
  archived students (`attendance.service.ts:103`). `ActiveStatusMeansActive` is one
  direction only for this reason, and `ClosedRecordsStay` excepts these students
  by name (`reinstated`).
- REFRESH_TOKEN_EXPIRES_IN is any text. With one that jsonwebtoken reads and
  `parseTtlToSeconds` does not, every row expires at once and no refresh ever
  succeeds (`RowOutlivesToken`, `rowTtl = 0`).
- A reset of a password by staff leaves the sessions of the user as they are, and
  an access token that a login with the old password signs between the stamp and
  its write stays good (`gap`).
- A lesson whose student has left the roster cannot be updated without naming
  the students anew (`CheckLesson`).
- An application that was handled is the one `create` goes on to look at: each
  further one is added, and none can be approved once the student exists, as his
  telegramId is unique. PATCH of a request approves without making a student.
- `ctx.session = {}` after the answer to an application wipes a login that was
  begun in the meantime (`Applied`).
- `courseIds` and `groupIds` of a student are never brought in line with rosters.

## 6. Proofs

`tlapm` checks the modules below to the last leaf. They assume what the
`ASSUME`s of the modules say of the constants and nothing else: any finite or
infinite sets of ids, keys, workers, phones, any prices, any calendar; servers
are finite in number, because a bound speaks of their number.

- **`PaymentsProofs`.** `TypeCorrect`; `MoneySafe`, from which
  `CreditsAreBacked` and `PeriodsAreUnique` follow; `Implements`, the refinement
  of the ledger. `CreditBackedByLedger` is not inductive: a save under way may be
  about to write any amount. `MoneyInv` adds what a write in flight holds: a
  save that credits money carries a history entry and credits no more than that
  entry and the history stored at the moment can back (`SaveInFlight`; the
  history only grows, so this stays true while it waits), and an insert holds an
  unused id of its own and an opening entry for its amount (`InsertInFlight`).
  The refinement then has one lemma for each writing step.
  The five properties that need requests not to overlap are proved under that
  hypothesis (`OneAtATime`: there are no two workers) and for everything else as
  it is, from `SerialInv`, which TLC checks too. Neither amounts nor status are
  inductive: the write under way may store anything. `SerialInv` says what the
  write of the only request does to the document as it is stored: the result has
  the amounts of its history (`Balanced`), a status of its moment
  (`StatusFollows`). As nobody else
  writes, the stored document is still the one loaded; what then has to be shown
  of each handler is that its patch, merged into that document, gives what the
  lifecycle computed - for a `save()`, which sends only what differs, this is
  the lemma that merging the difference gives the changed document. The job of
  debt aging holds all its documents at once, and they are those that are stored
  (the last part of `RightRequest`). `SerialSafe`; then `AmountsFollowHistory`,
  `StatusFollowsLifecycle`, and `DebtorsAreListed` and `DebtorsAreReminded` by the
  arithmetic of the lifecycle. `NoPaymentUnsettles` is about every write and
  every payment, not of one status only: of two balanced documents with
  histories one of which extends the other, the later one asks for more only if
  its price is higher.
- **`DebtRemindersProofs`.** `RemindersTyped`; `LimitKept`, whose invariant
  counts the passes that have found room under the limit and have not recorded
  yet (`Committed`): the count and they together never exceed the limit by more
  than the number of other servers; `OvershootIsBounded` follows. `FlagIsRight`
  and `BatchesGoOn` rest on a lemma that a step of a pass goes on or returns.
- **`SessionsProofs`.** `SessionsInvariant` has six parts beside the types.
  `Known`: a token a request holds was stored for the request's user, the next
  token is unused until it is stored and two requests never sign the same one,
  and from then on it is of the login of the one it replaces. `Timed`: a row
  expires no earlier than its signature, and one that was removed had outlived
  it; if the lifetime is not understood, a refresh gets no further than the
  clock (`Compares`). `Unforked`: a login that is not forked has one refresh at a
  time, and its live sessions are the one this holds or has stored. `EndedInv`: a
  login that was ended has nothing that lives or that a refresh goes on from, or
  is about to be revoked. `Dated`: what is outdated was signed by the stamp of
  the stored password, and what was signed after a stamp still to be written is
  in `gap`. `Admitted`: a request that signs or stores is of an active user, or
  overtaken by a block. The six properties of the run follow (`ForwardIsStored`,
  `RowsOutliveTokens`, `OneSessionEach`, `NewPasswordEndsSessions`,
  `OldTokensRefused`, `BlockedStayOut`), for any users, tokens and requests and
  any lifetime of whole seconds.
- **`TimetableProofs`.** `BookingsSafe`: a booking in flight clashes at most
  with lessons written since its check (`since`). Its core is the lemma
  `ClashIsFound`: two spans that overlap and stay in a UTC day each are on the
  same day, so the query by day misses no conflict. `ClashesAreRaces` and
  `LessonsStayInOneDay` follow, and `SerialNeverClashes`: if there is never more
  than one request, no two lessons clash.
- **`CatalogProofs`.** `CatalogInvariant`. `RefsLiveUnlessRaced` says nothing of
  the writes under way, so it is not inductive; `CatalogInv` adds that a planned
  write refers only to what is there and fit, and that nobody refers to what a
  planned deletion takes away, but for the documents written since the look-up
  (`Grounded`). Three lemmas (`InsertPreserves`, `SavePreserves`,
  `DeletePreserves`) reduce every handler to what its look-ups find;
  `LookUpsComplete` shows that each deletion asks all collections that can refer
  to the document, except payments, which is why `Checked` leaves them out. A
  write is then taken through the four parts of the invariant, with `Excuses`
  for the pairs that raced. `ReferencesLive` and `TeachersHaveRole` follow, and
  `NothingDanglesAlone`: if there is one worker, nothing dangles at all.

- **`AccountsProofs`.** `AccountsInvariant`, inductive: for each request under
  way, what its check established still holds unless the request has been noted
  as overtaken - another owner (`OwnerChecked`), another active owner, nobody
  else with the contacts it names (`ContactsChecked`), the branches it loaded.
  A write is then taken through it: a commit that takes the last owner
  contradicts its own check, or finds its excuse. Counting enters once
  (`AnotherOne`). `SomebodyOwns`, `NoSharedContacts` (for any choice of indexes)
  and `EditsDoNotMove` follow.
- **`EnrolmentProofs`.** `EnrolmentInvariant`: whom a request adds is not there
  yet, a planned lesson has the students of its roster, who is about to get a
  record is active, each but for what has been noted since; and an update stores
  the group it was checked with, or none, when it was checked against the course
  (`StoresChecked`). `NobodyEnrolledTwice`, `LessonsFollowRosters`,
  `ActiveStudentsCanWork` and, for the action property `ClosedRecordsStay`,
  `RecordsOfTheClosedStay` follow: a write has been checked against isActive, and
  isActive of a closed status means `reinstated`.
- **`AccessProofs`**, about three components, `Scopes`, `Applications` and
  `RateLimit` (whose names differ for that). Of `Scopes`, `TypeCorrect` is what the two others
  need: rosters name students who exist, and no id is both a user's and a
  student's. `ListsAndDocumentsAgree` and `ServicesAgreeOnStudents` compare the
  operators under it. In the first, each look-up among the accounts is compared
  with the check over the documents of the students: they differ in those who
  left a branch but for an account (`LeftBehind`) and, where the list asks for
  one of several people, in the others (`OthersElsewhere`, a second teacher).
  Of `Applications`, `ApplicationsInvariant`, whose `ApplyInv` TLC checks too,
  says what a handler may rely on (`HandlerRight`): one that has looked, found
  nothing pending and is not late, still finds nothing; whoever it announces or
  decides is stored; and it changes a message only after the decision. It is
  stated about the first application (`First`), as `findOne` without a sort
  gives the one inserted first: that this one is pending makes it the only one.
  An insertion (`InsertStep`) is the hard step: it makes the handlers of the
  same person late, and its own application is the person's first or its
  handler was late. That `cut` names the step, and not only the application,
  makes the other two sharp: `HandlerStep` has to show of each handler that stops
  what it leaves undone (`CutOff`). `OnePendingEach`, `PendingAreAnnounced` and
  `StudentsAreDecided` follow.
  Of `RateLimit`, `LimitInvariant`: what was counted, whether it waits for its
  reply or went through, is of the window its bucket is in and has a count no
  higher than the bucket's, or is of a window that was over when this one opened
  (`PlacedIn`); so windows of admissions are the same or do not overlap
  (`Apart`), no two admissions have the same count of the same window, and an
  admission is no later than its window and the timeout allow (`Dated`).
  `SpansAreBounded` then counts (`AdmissionsCounted`): dividing the time since a
  window opened by its length numbers the windows, so an admission is a pair of
  a number up to `Windows - 1` and a count up to `Most`, and one pair cannot
  occur, as the first request of the oldest window is too old. The bound is a
  strict one for this reason; `LimitInv` was checked by TLC for several lengths
  of the window and the timeout before.

In the last module some leaves are for Zenon alone: those where the CHOOSE of
`Oldest` or `FiledUnder` is expanded, which the SMT backend does not treat
reliably when two such values are compared.

**Only model-checked**: liveness (`OverdueBecomesDebt`, `PassesEnd`,
`BlockedIsLetIn`), as the prover has no rule for fairness and ENABLED. Every
invariant and every action property of the passing runs is stated by a theorem.
Inductions over data would stay with TLC too; the models have none so far.

## 7. Not modelled

Section 1 lists all parts, `PROJECT.json` gives the reason for each.

- **Left out of modelled parts.** Student numbers (random, with a retry under a
  unique index); the fields of a document no rule is about; searching, sorting
  and paging; the self-service password change apart from what it does to
  sessions; the manual run of the reminders.
- **The bot beyond applications.** Its commands show homework, grades and
  lessons of the caller. They take the id of the user from a field the answer
  does not have, so they show nothing; the broadcast by role is not reached by
  its button, and `/check` looks among users only. There is no state in them.
- **Branches.** Editing one changes its name and address; no rule reads its
  isActive. The backfill is run once by hand.
- **Delivery reports.** `Scopes` has who sees which delivery; the rest is an
  aggregation that writes nothing.
- **Controllers of notifications, templates, guards other than the rate limit,
  filters, configuration, health, scripts.** Wiring, wording and one-off tools.
