---------------------------- MODULE Notifications ----------------------------
(***************************************************************************)
(* The transactional outbox and the e-mail delivery workers of             *)
(* apps/api/modules/notifications.                                         *)
(*                                                                         *)
(* Publishing a curriculum revision writes one NotificationOutbox row per  *)
(* affected enrollment.  Any number of process_notifications commands      *)
(* (Workers) run passes over the database.  A pass fixes its clock, lists  *)
(* the due outbox rows, fans each out in a transaction of its own into one *)
(* in-app and one e-mail NotificationDelivery, then lists the due e-mails  *)
(* and delivers each in three steps: claim (transaction), send (outside    *)
(* any transaction), record the result (transaction).  A step of the model *)
(* is one such transaction, or one call of the provider.                   *)
(*                                                                         *)
(* Time is relative: a row holds the ticks left until it is due (wait) and *)
(* the ticks since its last claim (age, which stops at Lease), so the      *)
(* clock needs no bound.                                                   *)
(***************************************************************************)
EXTENDS Integers, FiniteSets

CONSTANTS
    NumEvents,    \* publication events 1..NumEvents, revisions of one plan in order
    NumEnrollments, \* enrollments 1..NumEnrollments, in the order of their ids
    Users,        \* the students
    Owner,        \* the user of each enrollment
    Workers,      \* process_notifications commands that may run at once
    Deployments,  \* bound: commands that are scheduled, with the events there may be
    Impacts,      \* bound: the sets of enrollments a publication may affect
    Choices,      \* bound: the preferences a student may set
    Unsendable,   \* bound: e-mails that the provider refuses at every attempt
    None,         \* no e-mail in hand
    Limit,        \* --limit of each command
    Lease,        \* ticks of the five minutes a SENDING claim is honoured
    MaxSend,      \* bound: ticks from a claim to the record of its result
    RetryBase, RetryExp, RetryCap, \* back-off: min(cap, base * 2^min(n, exp))
    MaxFaults     \* bound: provider errors and killed workers

Events == 1 .. NumEvents
Enrollments == 1 .. NumEnrollments
Requests == Events \X Enrollments   \* NotificationOutbox rows
Emails == Events \X Users           \* NotificationDelivery rows of one channel

ASSUME BoundsAssumption ==
    /\ NumEvents \in Nat /\ NumEnrollments \in Nat
    /\ Limit \in [Workers -> Nat \ {0}] /\ Lease \in Nat \ {0} /\ MaxSend \in Nat
    /\ RetryBase \in Nat /\ RetryExp \in Nat /\ RetryCap \in Nat
    /\ MaxFaults \in Nat
ASSUME OwnerAssumption == Owner \in [Enrollments -> Users]
ASSUME InputsAssumption ==
    /\ Deployments \subseteq [workers : SUBSET Workers, events : SUBSET Events]
    /\ Impacts \in [Events -> SUBSET SUBSET Enrollments]
    /\ Choices \subseteq [inApp : BOOLEAN, email : BOOLEAN]
    /\ Unsendable \subseteq Emails
ASSUME NoneAssumption == None \notin Emails

VARIABLES
    source,      \* status of the revision each event announces
    outbox,      \* NotificationOutbox rows
    event,       \* NotificationEvent rows that exist
    preference,  \* NotificationPreference of each user
    verified,    \* User.email_verified_at is set
    inApp,       \* NotificationDelivery rows, IN_APP channel
    email,       \* NotificationDelivery rows, EMAIL channel
    created,     \* e-mail rows created so far (the order of created_at)
    adapterOn,   \* settings.NOTIFICATIONS_EMAIL_ENABLED
    pc,          \* where each worker stands in dispatch_pending_notifications
    outboxIds,   \* outbox rows its pass has listed and not yet handled
    dueEmails,   \* e-mails with available_at <= the clock its pass fixed
    emailIds,    \* e-mails its pass has listed and not yet handled
    current,     \* the e-mail it has claimed
    sendAge,     \* ticks since that claim
    mailed,      \* messages the provider has accepted
    lost,        \* those whose acceptance never reached the database
    faults

db == <<source, outbox, event, preference, verified, inApp, email, created>>
workerVars == <<pc, outboxIds, dueEmails, emailIds, current, sendAge>>
vars == <<db, adapterOn, workerVars, mailed, lost, faults>>

-----------------------------------------------------------------------------
SourceStatus == {"DRAFT", "PUBLISHED", "SUPERSEDED", "RETIRED"}
RequestStatus == {"NONE", "QUEUED", "FAILED", "SENT"}
EmailStatus == {"NONE", "QUEUED", "SENDING", "SENT", "FAILED", "SUPPRESSED"}
PcStatus == {"absent", "idle", "materialize", "deliver", "sending", "accepted", "refused"}
InAppStatus == {"NONE", "SENT", "READ", "SUPPRESSED"}
Settled == {"SENT", "SUPPRESSED"}
Retryable == {"QUEUED", "FAILED"}

MinOf(a, b) == IF a <= b THEN a ELSE b
Before1(n) == IF n = 0 THEN 0 ELSE n - 1

\* Attempt counts matter only up to the exponent at which the back-off stops.
CountAttempt(n) == MinOf(n + 1, RetryExp)
RetryDelay(n) == MinOf(RetryCap, RetryBase * (2 ^ MinOf(n, RetryExp)))

\* Holds because powers of two are natural; the provers have no theory of powers.
ASSUME DelayAssumption == \A n \in 0 .. RetryExp : RetryDelay(n) \in Nat

\* Meta.ordering of the two tables: oldest request first, newest e-mail first.
RequestBefore(q, r) == q[1] < r[1] \/ (q[1] = r[1] /\ q[2] < r[2])
EmailBefore(c, d) == email[c].born > email[d].born
OwnedBy(r) == <<r[1], Owner[r[2]]>>

Missing == [status |-> "NONE", attempts |-> 0, wait |-> 0, age |-> 0, born |-> 0]

Init ==
    /\ outbox = [r \in Requests |-> [status |-> "NONE", attempts |-> 0, wait |-> 0]]
    /\ event = {}
    /\ preference = [u \in Users |-> [inApp |-> TRUE, email |-> FALSE]]
    /\ verified \in [Users -> BOOLEAN]
    /\ inApp = [d \in Emails |-> "NONE"]
    /\ email = [d \in Emails |-> Missing]
    /\ created = 0
    /\ adapterOn \in BOOLEAN
    /\ \E d \in Deployments :
         /\ source = [e \in Events |-> IF e \in d.events THEN "DRAFT" ELSE "RETIRED"]
         /\ pc = [w \in Workers |-> IF w \in d.workers THEN "idle" ELSE "absent"]
    /\ outboxIds = [w \in Workers |-> {}]
    /\ dueEmails = [w \in Workers |-> {}]
    /\ emailIds = [w \in Workers |-> {}]
    /\ current = [w \in Workers |-> None]
    /\ sendAge = [w \in Workers |-> 0]
    /\ mailed = [d \in Emails |-> 0]
    /\ lost = [d \in Emails |-> 0]
    /\ faults = 0

-----------------------------------------------------------------------------
(* The environment: editors, students and the clock.                       *)

\* Publishing the next revision supersedes the current one and requests one
\* notification per affected enrollment, all in one transaction.
Publish(e) ==
    /\ source[e] = "DRAFT"
    /\ \A f \in Events : f < e => source[f] # "DRAFT"
    /\ \E affected \in Impacts[e] :
         outbox' = [r \in Requests |->
             IF r[1] = e /\ r[2] \in affected
             THEN [status |-> "QUEUED", attempts |-> 0, wait |-> 0]
             ELSE outbox[r]]
    /\ source' = [f \in Events |->
                    CASE f = e -> "PUBLISHED"
                      [] f # e /\ source[f] = "PUBLISHED" -> "SUPERSEDED"
                      [] OTHER -> source[f]]
    /\ UNCHANGED <<event, preference, verified, inApp, email, created,
                   adapterOn, workerVars, mailed, lost, faults>>

\* CurriculumRevisionService.retire: a plan may be left with no published revision.
Retire(e) ==
    /\ source[e] = "PUBLISHED"
    /\ source' = [source EXCEPT ![e] = "RETIRED"]
    /\ UNCHANGED <<outbox, event, preference, verified, inApp, email, created,
                   adapterOn, workerVars, mailed, lost, faults>>

UpdatePreference(u) ==
    /\ \E p \in Choices :
         preference' = [preference EXCEPT ![u] = p]
    /\ UNCHANGED <<source, outbox, event, verified, inApp, email, created,
                   adapterOn, workerVars, mailed, lost, faults>>

MarkRead(d) ==
    /\ inApp[d] = "SENT"
    /\ inApp' = [inApp EXCEPT ![d] = "READ"]
    /\ UNCHANGED <<source, outbox, event, preference, verified, email, created,
                   adapterOn, workerVars, mailed, lost, faults>>

MarkAllRead(u) ==
    /\ \E d \in Emails : d[2] = u /\ inApp[d] = "SENT"
    /\ inApp' = [d \in Emails |-> IF d[2] = u /\ inApp[d] = "SENT"
                                  THEN "READ" ELSE inApp[d]]
    /\ UNCHANGED <<source, outbox, event, preference, verified, email, created,
                   adapterOn, workerVars, mailed, lost, faults>>

InFlight(w) == pc[w] \in {"sending", "accepted", "refused"}

Tick ==
    /\ \A w \in Workers : InFlight(w) => sendAge[w] < MaxSend
    /\ outbox' = [r \in Requests |-> [outbox[r] EXCEPT !.wait = Before1(@)]]
    /\ email' = [d \in Emails |-> [email[d] EXCEPT !.wait = Before1(@),
                    !.age = IF email[d].status = "SENDING" THEN MinOf(@ + 1, Lease) ELSE @]]
    /\ sendAge' = [w \in Workers |-> IF InFlight(w) THEN sendAge[w] + 1 ELSE sendAge[w]]
    /\ UNCHANGED <<source, event, preference, verified, inApp, created, adapterOn,
                   pc, outboxIds, dueEmails, emailIds, current, mailed, lost, faults>>

-----------------------------------------------------------------------------
(* dispatch_pending_notifications and materialize_outbox.                  *)

\* The first rows of a query, up to the limit, in the order of its table.
FirstRows(w, rows, Precedes(_, _)) ==
    {r \in rows : Cardinality({q \in rows : Precedes(q, r)}) < Limit[w]}

IsFirst(r, rows, Precedes(_, _)) == r \in rows /\ \A q \in rows : ~Precedes(q, r)

\* Mutant: next_attempt_at <= now without its null alternative.
NeverTriedNotDue ==
    {r \in Requests : outbox[r].status \in Retryable /\ outbox[r].wait = 0
                       /\ outbox[r].attempts > 0}
DueRequests ==
    {r \in Requests : outbox[r].status \in Retryable /\ outbox[r].wait = 0}

BeginPass(w) ==
    /\ pc[w] = "idle"
    /\ outboxIds' = [outboxIds EXCEPT ![w] = FirstRows(w, DueRequests, RequestBefore)]
    /\ dueEmails' = [dueEmails EXCEPT ![w] =
         {d \in Emails : email[d].status # "NONE" /\ email[d].wait = 0}]
    /\ pc' = [pc EXCEPT ![w] = "materialize"]
    /\ UNCHANGED <<db, adapterOn, emailIds, current, sendAge, mailed, lost, faults>>

\* The request worker w handles next leaves its list.
TakeRequest(w, r) ==
    /\ pc[w] = "materialize"
    /\ IsFirst(r, outboxIds[w], RequestBefore)
    /\ outboxIds' = [outboxIds EXCEPT ![w] = @ \ {r}]
    /\ UNCHANGED <<source, preference, verified, adapterOn,
                   pc, dueEmails, emailIds, current, sendAge, mailed, lost, faults>>

SkipRequest(w, r) ==
    /\ TakeRequest(w, r)
    /\ outbox[r].status = "SENT"
    /\ UNCHANGED <<outbox, event, inApp, email, created>>

\* Mutant: the status of the source revision is not looked at.
AnySource(r) == TRUE
SourcePublished(r) == source[r[1]] = "PUBLISHED"

RejectRequest(w, r) ==
    /\ TakeRequest(w, r)
    /\ outbox[r].status # "SENT"
    /\ ~SourcePublished(r)
    /\ LET n == CountAttempt(outbox[r].attempts)
       IN  outbox' = [outbox EXCEPT ![r] =
               [status |-> "FAILED", attempts |-> n, wait |-> RetryDelay(n)]]
    /\ UNCHANGED <<event, inApp, email, created>>

\* get_or_create: a row that exists is left as it is.
\* Mutants: update_or_create; no row for a suppressed channel.
OverwriteEmail(row, new) == new
NoSuppressedEmail(row, new) ==
    IF row.status = "NONE" /\ new.status # "SUPPRESSED" THEN new ELSE row
UpsertInApp(row, new) == IF row = "NONE" THEN new ELSE row
UpsertEmail(row, new) == IF row.status = "NONE" THEN new ELSE row

EmailStatusFor(u) ==
    IF preference[u].email /\ verified[u] THEN "QUEUED" ELSE "SUPPRESSED"

NewEmail(u) ==
    [status |-> EmailStatusFor(u), attempts |-> 0, wait |-> 0, age |-> 0, born |-> created + 1]

FanOut(w, r) ==
    LET d == OwnedBy(r)
    IN  /\ TakeRequest(w, r)
        /\ outbox[r].status # "SENT"
        /\ SourcePublished(r)
        /\ event' = event \cup {r[1]}
        /\ inApp' = [inApp EXCEPT ![d] = UpsertInApp(@,
                       IF preference[d[2]].inApp THEN "SENT" ELSE "SUPPRESSED")]
        /\ email' = [email EXCEPT ![d] = UpsertEmail(@, NewEmail(d[2]))]
        /\ created' = IF email[d].status = "NONE" THEN created + 1 ELSE created
        /\ outbox' = [outbox EXCEPT ![r] =
               [status |-> "SENT", attempts |-> CountAttempt(outbox[r].attempts), wait |-> 0]]

\* Mutant: the e-mail query forgets the FAILED rows.
FailedNotListed(w) == {d \in dueEmails[w] : email[d].status = "QUEUED"}
DueEmails(w) == {d \in dueEmails[w] : email[d].status \in Retryable}

ListEmails(w) ==
    /\ pc[w] = "materialize"
    /\ outboxIds[w] = {}
    /\ emailIds' = [emailIds EXCEPT ![w] = FirstRows(w, DueEmails(w), EmailBefore)]
    /\ pc' = [pc EXCEPT ![w] = "deliver"]
    /\ UNCHANGED <<db, adapterOn, outboxIds, dueEmails, current, sendAge, mailed, lost, faults>>

EndPass(w) ==
    /\ pc[w] = "deliver"
    /\ emailIds[w] = {}
    /\ pc' = [pc EXCEPT ![w] = "idle"]
    /\ dueEmails' = [dueEmails EXCEPT ![w] = {}]
    /\ UNCHANGED <<db, adapterOn, outboxIds, emailIds, current, sendAge, mailed, lost, faults>>

-----------------------------------------------------------------------------
(* deliver_email.                                                          *)

\* Mutant: a SENDING row may be claimed at any age.
NoLease(d) == FALSE
Leased(d) == email[d].status = "SENDING" /\ email[d].age < Lease

\* The e-mail worker w handles next leaves its list.
TakeEmail(w, d) ==
    /\ pc[w] = "deliver"
    /\ IsFirst(d, emailIds[w], EmailBefore)
    /\ emailIds' = [emailIds EXCEPT ![w] = @ \ {d}]
    /\ UNCHANGED <<source, outbox, event, preference, verified, inApp, created,
                   adapterOn, outboxIds, dueEmails, mailed, lost, faults>>

SkipEmail(w, d) ==
    /\ TakeEmail(w, d)
    /\ email[d].status \in Settled \/ Leased(d)
    /\ UNCHANGED <<email, pc, current, sendAge>>

SuppressEmail(w, d) ==
    /\ TakeEmail(w, d)
    /\ email[d].status \notin Settled /\ ~Leased(d)
    /\ ~adapterOn
    /\ email' = [email EXCEPT ![d].status = "SUPPRESSED"]
    /\ UNCHANGED <<pc, current, sendAge>>

Claim(w, d) ==
    /\ TakeEmail(w, d)
    /\ email[d].status \notin Settled /\ ~Leased(d)
    /\ adapterOn
    /\ email' = [email EXCEPT ![d] = [@ EXCEPT !.status = "SENDING",
                              !.attempts = CountAttempt(email[d].attempts), !.age = 0]]
    /\ pc' = [pc EXCEPT ![w] = "sending"]
    /\ current' = [current EXCEPT ![w] = d]
    /\ sendAge' = [sendAge EXCEPT ![w] = 0]

\* adapter.send: the provider is given no idempotency key, so each call it
\* accepts is one more message.
Answer(w, answer) ==
    /\ pc[w] = "sending"
    /\ pc' = [pc EXCEPT ![w] = answer]
    /\ UNCHANGED <<db, adapterOn, outboxIds, dueEmails, emailIds, current, sendAge>>

SendAccepted(w) ==
    /\ current[w] \notin Unsendable
    /\ Answer(w, "accepted")
    /\ mailed' = [mailed EXCEPT ![current[w]] = @ + 1]
    /\ UNCHANGED <<lost, faults>>

SendRefused(w) ==
    /\ \/ current[w] \in Unsendable /\ UNCHANGED faults
       \/ faults < MaxFaults /\ faults' = faults + 1
    /\ Answer(w, "refused")
    /\ UNCHANGED <<mailed, lost>>

\* The message is taken but the call raises, for instance on the closing reply.
SendUnreported(w) ==
    /\ current[w] \notin Unsendable
    /\ faults < MaxFaults
    /\ faults' = faults + 1
    /\ Answer(w, "refused")
    /\ mailed' = [mailed EXCEPT ![current[w]] = @ + 1]
    /\ lost' = [lost EXCEPT ![current[w]] = @ + 1]

\* Back to the list of e-mails, nothing in hand.
Release(w) ==
    /\ pc' = [pc EXCEPT ![w] = "deliver"]
    /\ current' = [current EXCEPT ![w] = None]
    /\ sendAge' = [sendAge EXCEPT ![w] = 0]
    /\ UNCHANGED <<source, outbox, event, preference, verified, inApp, created,
                   adapterOn, outboxIds, emailIds, mailed, lost, faults>>

RecordSent(w) ==
    /\ pc[w] = "accepted"
    /\ email' = [email EXCEPT ![current[w]] = [@ EXCEPT !.status = "SENT", !.age = 0]]
    /\ Release(w)
    /\ UNCHANGED dueEmails

\* available_at moves past the clock of every pass under way.
RecordFailed(w) ==
    /\ pc[w] = "refused"
    /\ email' = [email EXCEPT ![current[w]] = [@ EXCEPT !.status = "FAILED", !.age = 0,
                     !.wait = RetryDelay(email[current[w]].attempts)]]
    /\ dueEmails' = [v \in Workers |-> dueEmails[v] \ {current[w]}]
    /\ Release(w)

\* The command is killed: its transaction rolls back and its lists are lost.
Crash(w) ==
    /\ pc[w] \notin {"absent", "idle"}
    /\ faults < MaxFaults
    /\ faults' = faults + 1
    /\ pc' = [pc EXCEPT ![w] = "idle"]
    /\ outboxIds' = [outboxIds EXCEPT ![w] = {}]
    /\ dueEmails' = [dueEmails EXCEPT ![w] = {}]
    /\ emailIds' = [emailIds EXCEPT ![w] = {}]
    /\ current' = [current EXCEPT ![w] = None]
    /\ sendAge' = [sendAge EXCEPT ![w] = 0]
    /\ lost' = [d \in Emails |-> IF pc[w] = "accepted" /\ current[w] = d
                              THEN lost[d] + 1 ELSE lost[d]]
    /\ UNCHANGED <<db, adapterOn, mailed>>

-----------------------------------------------------------------------------
HandleRequest(w) ==
    \E r \in Requests : SkipRequest(w, r) \/ RejectRequest(w, r) \/ FanOut(w, r)

HandleEmail(w) ==
    \E d \in Emails : SkipEmail(w, d) \/ SuppressEmail(w, d) \/ Claim(w, d)

Step(w) ==
    \/ BeginPass(w) \/ HandleRequest(w) \/ ListEmails(w) \/ HandleEmail(w) \/ EndPass(w)
    \/ SendAccepted(w) \/ SendRefused(w) \/ SendUnreported(w)
    \/ RecordSent(w) \/ RecordFailed(w)

Environment ==
    \/ \E e \in Events : Publish(e) \/ Retire(e)
    \/ \E u \in Users : UpdatePreference(u) \/ MarkAllRead(u)
    \/ \E d \in Emails : MarkRead(d)

Next == Environment \/ Tick \/ \E w \in Workers : Step(w) \/ Crash(w)

\* Time passes, and a command that is scheduled runs again and again.  The subscripts
\* are what a tick, and each step of worker w, must change.
Fairness ==
    /\ WF_<<outbox, email, sendAge>>(Tick)
    /\ \A w \in Workers : WF_<<pc[w], outboxIds[w], emailIds[w]>>(Step(w))

Spec == Init /\ [][Next]_vars /\ Fairness

-----------------------------------------------------------------------------
(* Properties.                                                             *)

\* Every variable stays within its type.
TypeOK ==
    /\ source \in [Events -> SourceStatus]
    /\ outbox \in [Requests -> [status : RequestStatus, attempts : 0 .. RetryExp, wait : Nat]]
    /\ event \in SUBSET Events
    /\ preference \in [Users -> [inApp : BOOLEAN, email : BOOLEAN]]
    /\ verified \in [Users -> BOOLEAN]
    /\ inApp \in [Emails -> InAppStatus]
    /\ email \in [Emails -> [status : EmailStatus, attempts : 0 .. RetryExp,
                              wait : Nat, age : Nat, born : Nat]]
    /\ created \in Nat
    /\ adapterOn \in BOOLEAN
    /\ pc \in [Workers -> PcStatus]
    /\ outboxIds \in [Workers -> SUBSET Requests]
    /\ dueEmails \in [Workers -> SUBSET Emails]
    /\ emailIds \in [Workers -> SUBSET Emails]
    /\ current \in [Workers -> Emails \cup {None}]
    /\ sendAge \in [Workers -> Nat]
    /\ mailed \in [Emails -> Nat]
    /\ lost \in [Emails -> Nat]
    /\ faults \in Nat

\* The fan-out is all or nothing: a user has a row in each of the two channels
\* exactly when some request of theirs for that event is SENT, however many
\* enrollments, workers and killed transactions were involved
\* (materialize_outbox is one transaction).
FanOutAtomic ==
    \A d \in Emails :
        LET done == \E r \in Requests : OwnedBy(r) = d /\ outbox[r].status = "SENT"
        IN  /\ (email[d].status # "NONE") <=> done
            /\ (inApp[d] # "NONE") <=> done
            /\ done => d[1] \in event

\* As long as a send ends within the lease, the SENDING status is a lock: one
\* worker at most is sending a given e-mail, and until it has recorded its
\* result no other worker has settled or failed that row (deliver_email).
ClaimIsExclusive ==
    \A w \in Workers : InFlight(w) =>
        /\ email[current[w]].status = "SENDING"
        /\ \A v \in Workers : InFlight(v) /\ current[v] = current[w] => v = w

\* A retry sends a second message only when the acceptance of the first never
\* reached the database: a call that raised after the provider took the
\* message, or a worker killed before its last transaction.
MailedOnceUnlessLost == \A d \in Emails : mailed[d] <= 1 + lost[d]

\* SENT and SUPPRESSED are final for an e-mail: neither a late result of a
\* slow worker nor the request of the user's second enrollment reopens it.
SettledIsFinal ==
    [][\A d \in Emails : email[d].status \in Settled => email'[d].status = email[d].status]_vars

\* The e-mail channel implements the ledger: a row is opened at most once per
\* event and user, only for a published revision, and is settled once.
LedgerEntry(d) ==
    CASE email[d].status = "NONE" -> "none"
      [] email[d].status \in {"QUEUED", "SENDING", "FAILED"} -> "owed"
      [] email[d].status = "SENT" -> "delivered"
      [] email[d].status = "SUPPRESSED" -> "declined"

Ledger == INSTANCE NotificationLedger WITH ledger <- [d \in Emails |-> LedgerEntry(d)]

RefinesLedger == Ledger!Spec

\* The claim of a worker that was killed before it recorded its result.
Orphaned(d) ==
    email[d].status = "SENDING" /\ \A w \in Workers : ~(InFlight(w) /\ current[w] = d)

\* Rows ahead of r, or of d, that fail at every attempt: requests of a revision that
\* is no longer the published one, e-mails that the provider does not take.
FailingRequests(r) ==
    {q \in Requests : RequestBefore(q, r) /\ outbox[q].status \in Retryable /\ ~SourcePublished(q)}

FailingEmails(d) ==
    {c \in Unsendable : EmailBefore(c, d) /\ email[c].status \notin Settled \cup {"NONE"}}

\* Some command that is scheduled lists more rows than these.
RoomBehind(rows) ==
    \E w \in Workers : pc[w] # "absent" /\ Cardinality(rows) < Limit[w]

OpenRequests ==
    {r \in Requests : /\ outbox[r].status \in Retryable
                      /\ SourcePublished(r)
                      /\ RoomBehind(FailingRequests(r))}

OpenEmails ==
    {d \in Emails \ Unsendable : /\ email[d].status \notin Settled \cup {"NONE"}
                                 /\ ~Orphaned(d)
                                 /\ RoomBehind(FailingEmails(d))}

\* Killed workers, refusals of the provider and rows that fail for ever only delay
\* what is due: again and again nothing is left to do.  A request is fanned out,
\* unless its revision stops being the published one, and an e-mail is sent or
\* suppressed, unless a killed worker has claimed it, although rows that fail come
\* back in front of it; what they may do is fill the passes of every command.
BacklogSettles == []<>(OpenRequests = {} /\ OpenEmails = {})
=============================================================================
