---------------------------- MODULE DebtReminders ----------------------------
(***************************************************************************)
(* The daily debt reminders: PaymentsSchedulerService fires the job on     *)
(* every server, DebtRemindersService walks over the overdue payments it   *)
(* found and sends an SMS to each recipient, SmsService passes it to the   *)
(* provider.  For each recipient a pass counts the deliveries of the day,  *)
(* sends, and records the delivery, in three calls; nothing ties them      *)
(* together, and nothing ties the passes of two servers together.          *)
(*                                                                         *)
(* A payment is what the reminder query sees of it: overdue or not.        *)
(***************************************************************************)
EXTENDS Naturals, Sequences, FiniteSets

CONSTANTS
  Payments,
  Servers,    \* processes with the scheduler enabled
  Phones,     \* normalised numbers
  Unusable,   \* a number of which normalizePhone leaves nothing
  Contacts,   \* what collectRecipients returns: student first, then parent
  MaxPerDay,  \* sms.maxDebtRemindersPerDay
  MaxDay,     \* bound on the calendar
  DryRun,     \* scheduler.dryRun || sms.dryRun
  SmsEnabled, \* sms.enabled
  Faults,     \* what may go wrong: "provider", "database", "crash"
  None        \* no payment

ASSUME ServersAssumption == IsFiniteSet(Servers) /\ Servers # {}
ASSUME ContactsAssumption ==
  /\ Unusable \notin Phones /\ None \notin Payments
  /\ Contacts \in [Payments -> Seq(Phones \cup {Unusable})]
ASSUME LimitAssumption == MaxPerDay \in Nat \ {0} /\ MaxDay \in Nat
ASSUME SwitchesAssumption == DryRun \in BOOLEAN /\ SmsEnabled \in BOOLEAN

VARIABLES
  overdue,  \* the payments the query selects
  day,      \* the UTC day
  fired,    \* for each server, the first day on which its cron has yet to fire
  running,  \* debtRemindersRunning of each server
  run,      \* the pass under way on each server
  counted   \* deliveries by payment, phone and dateKey, not the skipped ones

vars == <<overdue, day, fired, running, run, counted>>

Days == 0..MaxDay

Outcomes == {"none", "sent", "failed", "dry_run", "skipped"}

\* A pass: todo are the payments still to come, calls the recipients left for
\* the payment it is at, the current one first; failed are the payments whose
\* exception the loop caught.
Resting ==
  [pc |-> "rest", dateKey |-> 0, todo |-> {}, at |-> None, calls |-> <<>>,
   outcome |-> "none", failed |-> {}]

Init ==
  /\ overdue \in SUBSET Payments
  /\ day = 0
  /\ fired = [s \in Servers |-> 0]
  /\ running = [s \in Servers |-> FALSE]
  /\ run = [s \in Servers |-> Resting]
  /\ counted = [c \in Payments \X Phones \X Days |-> 0]

-----------------------------------------------------------------------------
(* PaymentsSchedulerService *)

\* The tick is dropped when the pass of an earlier day is still going on.
CronFires(s) ==
  /\ run[s].pc # "down"
  /\ fired[s] <= day
  /\ fired' = [fired EXCEPT ![s] = day + 1]
  /\ IF running[s]
     THEN UNCHANGED <<running, run>>
     ELSE /\ running' = [running EXCEPT ![s] = TRUE]
          /\ run' = [run EXCEPT ![s] =
                       [Resting EXCEPT !.pc = "find", !.dateKey = day]]
  /\ UNCHANGED <<overdue, day, counted>>

\* Mutant: the flag is cleared only after a pass that went well.
ReturnsKeepingFlag(s, ok) ==
  /\ running' = [running EXCEPT ![s] = ~ok]
  /\ run' = [run EXCEPT ![s].pc = "rest"]
  /\ UNCHANGED <<overdue, day, fired, counted>>

\* The finally of the handler, after its try or its catch.
Returns(s, ok) ==
  /\ running' = [running EXCEPT ![s] = FALSE]
  /\ run' = [run EXCEPT ![s].pc = "rest"]
  /\ UNCHANGED <<overdue, day, fired, counted>>

-----------------------------------------------------------------------------
(* DebtRemindersService.sendDebtReminders *)

\* The pass of s goes on as r.
Continues(s, r) ==
  run' = [run EXCEPT ![s] = r] /\ UNCHANGED <<overdue, day, fired, running>>

Finds(s) ==
  /\ run[s].pc = "find"
  /\ Continues(s, [run[s] EXCEPT !.pc = "next", !.todo = overdue])
  /\ UNCHANGED counted

FindFails(s) ==
  /\ "database" \in Faults
  /\ run[s].pc = "find"
  /\ Returns(s, FALSE)

Ends(s) ==
  /\ run[s].pc = "next" /\ run[s].todo = {}
  /\ Returns(s, TRUE)

\* The catch inside the loop: the payment counts as failed, its other
\* recipients are dropped, the pass goes on.
Caught(r) ==
  [r EXCEPT !.pc = "next", !.failed = @ \cup {r.at}, !.calls = <<>>]

\* recordSkipped with an empty phone does not pass the validation of the
\* NotificationDelivery schema, which requires one, and throws.
TakesPayment(s, p) ==
  LET r == [run[s] EXCEPT !.todo = @ \ {p}, !.at = p, !.calls = Contacts[p]]
  IN /\ run[s].pc = "next" /\ p \in run[s].todo
     /\ Continues(s, IF Contacts[p] = <<>> THEN Caught(r)
                     ELSE [r EXCEPT !.pc = "count"])
     /\ UNCHANGED counted

-----------------------------------------------------------------------------
(* processRecipient *)

\* Mutant: the count made for the first recipient serves for the second too.
AdvancedUncounted(r) ==
  [r EXCEPT !.pc = IF Len(r.calls) = 1 THEN "next" ELSE "send",
            !.calls = Tail(@)]

\* On to the next recipient, or to the next payment.
Advanced(r) ==
  [r EXCEPT !.pc = IF Len(r.calls) = 1 THEN "next" ELSE "count",
            !.calls = Tail(@)]

Counter(r) == <<r.at, Head(r.calls), r.dateKey>>

\* Mutant: one delivery too many is allowed.
BelowLimitOffByOne(n) == n <= MaxPerDay

BelowLimit(n) == n < MaxPerDay

\* At the limit a skipped delivery is recorded, which the count leaves out.
Counts(s) ==
  LET r == run[s] IN
  /\ r.pc = "count"
  /\ Continues(s,
       IF Head(r.calls) = Unusable THEN Caught(r)
       ELSE IF BelowLimit(counted[Counter(r)]) THEN [r EXCEPT !.pc = "send"]
       ELSE Advanced(r))
  /\ UNCHANGED counted

\* SmsService.sendSms: what it returns without an exception.
Results ==
  IF DryRun THEN {"dry_run"}
  ELSE IF ~SmsEnabled THEN {"skipped"}
  ELSE {"sent"} \cup (IF "provider" \in Faults THEN {"failed"} ELSE {})

Sends(s, outcome) ==
  /\ run[s].pc = "send"
  /\ outcome \in Results
  /\ Continues(s, [run[s] EXCEPT !.pc = "record", !.outcome = outcome])
  /\ UNCHANGED counted

Records(s) ==
  LET r == run[s] IN
  /\ r.pc = "record"
  /\ counted' = IF r.outcome = "skipped" THEN counted
                ELSE [counted EXCEPT ![Counter(r)] = @ + 1]
  /\ Continues(s, Advanced(r))

\* Mutant: the exception leaves the loop and ends the pass.
ThrowsOut(s) ==
  /\ \/ run[s].pc = "send" /\ "provider" \in Faults /\ "sent" \in Results
     \/ run[s].pc \in {"count", "record"} /\ "database" \in Faults
  /\ Returns(s, FALSE)

\* The provider throws, or the database does: after the SMS has gone out, in
\* the case of the record.
Throws(s) ==
  /\ \/ run[s].pc = "send" /\ "provider" \in Faults /\ "sent" \in Results
     \/ run[s].pc \in {"count", "record"} /\ "database" \in Faults
  /\ Continues(s, Caught(run[s]))
  /\ UNCHANGED counted

-----------------------------------------------------------------------------
(* The environment *)

\* The flag and the pass live in the memory of the process.
Crashes(s) ==
  /\ "crash" \in Faults
  /\ run[s].pc # "down"
  /\ run' = [run EXCEPT ![s] = [Resting EXCEPT !.pc = "down"]]
  /\ running' = [running EXCEPT ![s] = FALSE]
  /\ UNCHANGED <<overdue, day, fired, counted>>

Restarts(s) ==
  /\ run[s].pc = "down"
  /\ run' = [run EXCEPT ![s] = Resting]
  /\ UNCHANGED <<overdue, day, fired, running, counted>>

\* Payments fall due and are settled by requests the pass knows nothing of.
Changes(p) ==
  /\ overdue' = IF p \in overdue THEN overdue \ {p} ELSE overdue \cup {p}
  /\ UNCHANGED <<day, fired, running, run, counted>>

Midnight ==
  /\ day < MaxDay
  /\ day' = day + 1
  /\ UNCHANGED <<overdue, fired, running, run, counted>>

Step(s) ==
  \/ Finds(s) \/ FindFails(s) \/ Ends(s)
  \/ \E p \in Payments : TakesPayment(s, p)
  \/ Counts(s) \/ Records(s) \/ Throws(s)
  \/ \E o \in Outcomes : Sends(s, o)

Next ==
  \/ \E s \in Servers : CronFires(s) \/ Step(s) \/ Crashes(s) \/ Restarts(s)
  \/ \E p \in Payments : Changes(p)
  \/ Midnight

Spec == Init /\ [][Next]_vars

\* A pass under way makes progress as long as its process lives.
FairSpec == Spec /\ \A s \in Servers : WF_vars(Step(s))

-----------------------------------------------------------------------------

Pass ==
  [pc : {"rest", "down", "find", "next", "count", "send", "record"},
   dateKey : Days, todo : SUBSET Payments, at : Payments \cup {None},
   calls : Seq(Phones \cup {Unusable}), outcome : Outcomes,
   failed : SUBSET (Payments \cup {None})]

\* What a pass holds at the places where it is about to use it.
TypeOK ==
  /\ overdue \subseteq Payments
  /\ day \in Days
  /\ fired \in [Servers -> Nat]
  /\ running \in [Servers -> BOOLEAN]
  /\ run \in [Servers -> Pass]
  /\ counted \in [Payments \X Phones \X Days -> Nat]
  /\ \A s \in Servers :
       /\ run[s].pc \in {"count", "send", "record"} =>
            run[s].at \in Payments /\ run[s].calls # <<>>
       /\ run[s].pc \in {"send", "record"} => Head(run[s].calls) \in Phones

\* The passes that have found counter c below the limit and not yet recorded
\* what they do about it.
Committed(c) ==
  {s \in Servers : run[s].pc \in {"send", "record"} /\ Counter(run[s]) = c}

\* Servers that overlap exceed the daily limit of a payment and phone by at
\* most one reminder for each server more than one, also when student and
\* parent share the phone, a pass goes on past midnight, or calls fail.
OvershootBounded ==
  \A c \in DOMAIN counted : counted[c] <= MaxPerDay + Cardinality(Servers) - 1

\* Its inductive form: the reminders still to be recorded count already.
LimitInv ==
  \A c \in Payments \X Phones \X Days :
    counted[c] + Cardinality(Committed(c)) <= MaxPerDay + Cardinality(Servers) - 1

\* The flag is up exactly while a pass is under way, whatever failed in it: it
\* neither lets a second pass of the server in nor locks out all later ones.
FlagMatchesPass ==
  \A s \in Servers : running[s] <=> run[s].pc \notin {"rest", "down"}

\* "provider failure does not stop the batch": unless its first query fails or
\* the process dies, a pass ends only when every payment it found had its turn.
BatchGoesOn ==
  [][\A s \in Servers :
       run[s].pc \notin {"rest", "down", "find"} /\ run'[s].pc = "rest"
         => run[s].todo = {}]_vars

\* A pass that was started comes to an end, and the next day's can start.
PassesEnd == \A s \in Servers : running[s] ~> ~running[s]
=============================================================================
