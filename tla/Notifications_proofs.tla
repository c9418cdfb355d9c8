------------------------- MODULE Notifications_proofs -------------------------
(***************************************************************************)
(* Proofs of the safety properties of Notifications, for every number of   *)
(* events, enrollments, users and workers and every back-off.              *)
(***************************************************************************)
EXTENDS Notifications, TLAPS

Requested == [status : RequestStatus, attempts : 0 .. RetryExp, wait : Nat]
Row == [status : EmailStatus, attempts : 0 .. RetryExp, wait : Nat, age : Nat, born : Nat]

LEMMA MinIsNat == ASSUME NEW m \in Nat, NEW n \in Nat PROVE MinOf(m, n) \in Nat
  BY DEF MinOf

LEMMA Before1IsNat == ASSUME NEW n \in Nat PROVE Before1(n) \in Nat
  BY DEF Before1

LEMMA CountIsBounded ==
  ASSUME NEW n \in 0 .. RetryExp PROVE CountAttempt(n) \in 0 .. RetryExp
  BY BoundsAssumption DEF CountAttempt, MinOf

LEMMA OwnedIsEmail == ASSUME NEW r \in Requests PROVE OwnedBy(r) \in Emails
  BY OwnerAssumption DEF OwnedBy, Requests, Emails

\* The three ways a worker rewrites a row.
LEMMA ClaimedIsRow ==
  ASSUME NEW row \in Row, NEW n \in 0 .. RetryExp
  PROVE  [row EXCEPT !.status = "SENDING", !.attempts = n, !.age = 0] \in Row
  BY DEF Row, EmailStatus

LEMMA SentIsRow ==
  ASSUME NEW row \in Row PROVE [row EXCEPT !.status = "SENT", !.age = 0] \in Row
  BY DEF Row, EmailStatus

LEMMA FailedIsRow ==
  ASSUME NEW row \in Row, NEW n \in Nat
  PROVE  [row EXCEPT !.status = "FAILED", !.age = 0, !.wait = n] \in Row
  BY DEF Row, EmailStatus

-----------------------------------------------------------------------------
(* Types.                                                                  *)

LEMMA TypeInit == Init => TypeOK
<1> SUFFICES ASSUME Init PROVE TypeOK  OBVIOUS
<1>1. Missing \in Row
  BY BoundsAssumption DEF Missing, Row, EmailStatus
<1>2. QED
  BY <1>1, BoundsAssumption DEF Init, TypeOK, Row, SourceStatus, RequestStatus,
     InAppStatus, PcStatus

LEMMA TypeEnvironment == TypeOK /\ Environment => TypeOK'
<1> SUFFICES ASSUME TypeOK, Environment PROVE TypeOK'  OBVIOUS
<1> USE BoundsAssumption DEF TypeOK, db, workerVars
<1>1. ASSUME NEW e \in Events, Publish(e) PROVE TypeOK'
  BY <1>1 DEF Publish, SourceStatus, RequestStatus
<1>2. ASSUME NEW e \in Events, Retire(e) PROVE TypeOK'
  BY <1>2 DEF Retire, SourceStatus
<1>3. ASSUME NEW u \in Users, UpdatePreference(u) PROVE TypeOK'
  BY <1>3, InputsAssumption DEF UpdatePreference
<1>4. ASSUME NEW u \in Users, MarkAllRead(u) PROVE TypeOK'
  BY <1>4 DEF MarkAllRead, InAppStatus
<1>5. ASSUME NEW d \in Emails, MarkRead(d) PROVE TypeOK'
  BY <1>5 DEF MarkRead, InAppStatus
<1>6. QED
  BY <1>1, <1>2, <1>3, <1>4, <1>5 DEF Environment

LEMMA TypeTick == TypeOK /\ Tick => TypeOK'
<1> SUFFICES ASSUME TypeOK, Tick PROVE TypeOK'  OBVIOUS
<1>1. outbox' \in [Requests -> Requested]
  <2>1. SUFFICES ASSUME NEW r \in Requests
                 PROVE [outbox[r] EXCEPT !.wait = Before1(@)] \in Requested
    BY DEF Tick
  <2>2. outbox[r] \in Requested
    BY DEF TypeOK, Requested
  <2>3. Before1(outbox[r].wait) \in Nat
    BY <2>2, Before1IsNat DEF Requested
  <2>4. QED
    BY <2>2, <2>3 DEF Requested
<1>2. email' \in [Emails -> Row]
  <2>1. SUFFICES ASSUME NEW d \in Emails
                 PROVE [email[d] EXCEPT !.wait = Before1(@),
                          !.age = IF email[d].status = "SENDING"
                                  THEN MinOf(@ + 1, Lease) ELSE @] \in Row
    BY DEF Tick
  <2>2. email[d] \in Row
    BY DEF TypeOK, Row
  <2>3. Before1(email[d].wait) \in Nat
    BY <2>2, Before1IsNat DEF Row
  <2>4. email[d].age + 1 \in Nat /\ Lease \in Nat
    BY <2>2, BoundsAssumption DEF Row
  <2>5. MinOf(email[d].age + 1, Lease) \in Nat
    BY <2>4, MinIsNat
  <2>6. QED
    BY <2>2, <2>3, <2>5 DEF Row
<1>3. sendAge' \in [Workers -> Nat]
  <2>1. sendAge' = [w \in Workers |-> IF InFlight(w) THEN sendAge[w] + 1 ELSE sendAge[w]]
    BY DEF Tick
  <2>2. QED
    BY <2>1 DEF TypeOK
<1>4. UNCHANGED <<source, event, preference, verified, inApp, created, adapterOn,
                   pc, outboxIds, dueEmails, emailIds, current, mailed, lost, faults>>
  BY DEF Tick
<1>5. QED
  BY <1>1, <1>2, <1>3, <1>4 DEF TypeOK, Requested, Row

LEMMA TypeRequests ==
  ASSUME TypeOK, NEW w \in Workers, BeginPass(w) \/ HandleRequest(w) \/ ListEmails(w)
  PROVE  TypeOK'
<1> USE DEF TypeOK, db
<1>1. CASE BeginPass(w)
  BY <1>1 DEF BeginPass, FirstRows, DueRequests, PcStatus
<1>2. CASE ListEmails(w)
  BY <1>2 DEF ListEmails, FirstRows, DueEmails, PcStatus
<1>3. ASSUME NEW r \in Requests, SkipRequest(w, r) PROVE TypeOK'
  BY <1>3 DEF SkipRequest, TakeRequest
<1>4. ASSUME NEW r \in Requests, RejectRequest(w, r) PROVE TypeOK'
  <2>1. CountAttempt(outbox[r].attempts) \in 0 .. RetryExp
    BY CountIsBounded
  <2>2. RetryDelay(CountAttempt(outbox[r].attempts)) \in Nat
    BY <2>1, DelayAssumption
  <2>3. outbox' \in [Requests -> Requested]
    BY <1>4, <2>1, <2>2 DEF RejectRequest, Requested, RequestStatus
  <2>4. QED
    BY <1>4, <2>3 DEF RejectRequest, TakeRequest, Requested
<1>5. ASSUME NEW r \in Requests, FanOut(w, r) PROVE TypeOK'
  <2> DEFINE d == OwnedBy(r)
  <2>1. d \in Emails
    BY OwnedIsEmail
  <2>2. outbox' \in [Requests -> Requested]
    BY <1>5, CountIsBounded DEF FanOut, Requested, RequestStatus
  <2>3. NewEmail(d[2]) \in Row
    BY BoundsAssumption DEF NewEmail, Row, EmailStatusFor, EmailStatus
  <2>4. email' \in [Emails -> Row]
    BY <1>5, <2>3 DEF FanOut, UpsertEmail, Row
  <2>5. inApp' \in [Emails -> InAppStatus]
    BY <1>5, <2>1 DEF FanOut, UpsertInApp, InAppStatus
  <2>6. event' \in SUBSET Events /\ created' \in Nat
    BY <1>5 DEF FanOut, Requests
  <2>7. QED
    BY <1>5, <2>2, <2>4, <2>5, <2>6 DEF FanOut, TakeRequest, Requested, Row
<1>6. QED
  BY <1>1, <1>2, <1>3, <1>4, <1>5 DEF HandleRequest

LEMMA TypeEmails ==
  ASSUME TypeOK, NEW w \in Workers, HandleEmail(w) \/ EndPass(w)
  PROVE  TypeOK'
<1> USE DEF TypeOK, db, TakeEmail
<1>1. CASE EndPass(w)
  BY <1>1 DEF EndPass, PcStatus
<1>2. ASSUME NEW d \in Emails, SkipEmail(w, d) PROVE TypeOK'
  BY <1>2 DEF SkipEmail
<1>3. ASSUME NEW d \in Emails, SuppressEmail(w, d) PROVE TypeOK'
  <2>1. email' = [email EXCEPT ![d].status = "SUPPRESSED"]
    BY <1>3 DEF SuppressEmail
  <2>2. [email[d] EXCEPT !.status = "SUPPRESSED"] \in Row
    BY DEF Row, EmailStatus
  <2>3. email' \in [Emails -> Row]
    BY <2>1, <2>2 DEF Row
  <2>4. QED
    BY <1>3, <2>3 DEF SuppressEmail, Row
<1>4. ASSUME NEW d \in Emails, Claim(w, d) PROVE TypeOK'
  <2>1. email' \in [Emails -> Row]
    <3>1. email' = [email EXCEPT ![d] = [email[d] EXCEPT !.status = "SENDING",
                        !.attempts = CountAttempt(email[d].attempts), !.age = 0]]
      BY <1>4 DEF Claim
    <3>2. email[d] \in Row /\ CountAttempt(email[d].attempts) \in 0 .. RetryExp
      BY CountIsBounded DEF Row
    <3>3. [email[d] EXCEPT !.status = "SENDING", !.attempts = CountAttempt(email[d].attempts),
                           !.age = 0] \in Row
      BY <3>2, ClaimedIsRow
    <3>4. QED
      BY <3>1, <3>3 DEF Row
  <2>2. QED
    BY <1>4, <2>1 DEF Claim, Row, PcStatus
<1>5. QED
  BY <1>1, <1>2, <1>3, <1>4 DEF HandleEmail

\* What a worker in flight has in hand; the typing of its result steps needs it.
HasCurrent == \A w \in Workers : InFlight(w) => current[w] \in Emails

LEMMA HasCurrentStep ==
  ASSUME TypeOK, HasCurrent, Next PROVE HasCurrent'
<1> USE DEF HasCurrent, InFlight, TypeOK, db, workerVars
<1>1. CASE Environment
  BY <1>1 DEF Environment, Publish, Retire, UpdatePreference, MarkAllRead, MarkRead
<1>2. CASE Tick
  BY <1>2 DEF Tick
<1>3. ASSUME NEW w \in Workers, BeginPass(w) \/ ListEmails(w) \/ EndPass(w) PROVE HasCurrent'
  BY <1>3 DEF BeginPass, ListEmails, EndPass
<1>4. ASSUME NEW w \in Workers, HandleRequest(w) PROVE HasCurrent'
  BY <1>4 DEF HandleRequest, SkipRequest, RejectRequest, FanOut, TakeRequest
<1>5. ASSUME NEW w \in Workers, HandleEmail(w) PROVE HasCurrent'
  BY <1>5 DEF HandleEmail, SkipEmail, SuppressEmail, Claim, TakeEmail
<1>6. ASSUME NEW w \in Workers, SendAccepted(w) \/ SendRefused(w) \/ SendUnreported(w)
      PROVE HasCurrent'
  BY <1>6 DEF SendAccepted, SendRefused, SendUnreported, Answer
<1>7. ASSUME NEW w \in Workers, RecordSent(w) \/ RecordFailed(w) \/ Crash(w) PROVE HasCurrent'
  BY SMT, <1>7 DEF RecordSent, RecordFailed, Release, Crash
<1>8. QED
  BY <1>1, <1>2, <1>3, <1>4, <1>5, <1>6, <1>7 DEF Next, Step

LEMMA TypeSends ==
  ASSUME TypeOK, HasCurrent, NEW w \in Workers,
         SendAccepted(w) \/ SendRefused(w) \/ SendUnreported(w)
  PROVE  TypeOK'
<1>1. pc[w] = "sending" /\ current[w] \in Emails
  BY DEF SendAccepted, SendRefused, SendUnreported, Answer, HasCurrent, InFlight
<1> USE DEF TypeOK, db, Answer, PcStatus
<1>2. CASE SendAccepted(w)
  BY <1>1, <1>2 DEF SendAccepted
<1>3. CASE SendRefused(w)
  BY <1>1, <1>3 DEF SendRefused
<1>4. CASE SendUnreported(w)
  BY <1>1, <1>4 DEF SendUnreported
<1>5. QED
  BY <1>2, <1>3, <1>4

LEMMA TypeResults ==
  ASSUME TypeOK, HasCurrent, NEW w \in Workers, RecordSent(w) \/ RecordFailed(w) \/ Crash(w)
  PROVE  TypeOK'
<1>1. CASE RecordSent(w)
  <2>1. current[w] \in Emails
    BY <1>1 DEF RecordSent, HasCurrent, InFlight
  <2>2. [email[current[w]] EXCEPT !.status = "SENT", !.age = 0] \in Row
    <3>1. email[current[w]] \in Row
      BY <2>1 DEF TypeOK, Row
    <3>2. QED
      BY <3>1, SentIsRow
  <2>3. email' \in [Emails -> Row]
    BY <1>1, <2>1, <2>2 DEF RecordSent, TypeOK, Row
  <2>4. QED
    BY <1>1, <2>3 DEF RecordSent, Release, TypeOK, Row, PcStatus
<1>2. CASE RecordFailed(w)
  <2>1. current[w] \in Emails
    BY <1>2 DEF RecordFailed, HasCurrent, InFlight
  <2>2. RetryDelay(email[current[w]].attempts) \in Nat
    BY <2>1, DelayAssumption DEF TypeOK
  <2>3. [email[current[w]] EXCEPT !.status = "FAILED", !.age = 0,
           !.wait = RetryDelay(email[current[w]].attempts)] \in Row
    <3>1. email[current[w]] \in Row
      BY <2>1 DEF TypeOK, Row
    <3>2. QED
      BY <2>2, <3>1, FailedIsRow
  <2>4. email' \in [Emails -> Row]
    BY <1>2, <2>1, <2>3 DEF RecordFailed, TypeOK, Row
  <2>5. QED
    BY <1>2, <2>4 DEF RecordFailed, Release, TypeOK, Row, PcStatus
<1>3. CASE Crash(w)
  BY <1>3 DEF Crash, TypeOK, PcStatus, db
<1>4. QED
  BY <1>1, <1>2, <1>3

LEMMA TypeInvariant == Spec => [](TypeOK /\ HasCurrent)
<1>1. Init => TypeOK /\ HasCurrent
  BY TypeInit DEF Init, HasCurrent, InFlight
<1>2. TypeOK /\ HasCurrent /\ [Next]_vars => (TypeOK /\ HasCurrent)'
  <2> SUFFICES ASSUME TypeOK, HasCurrent, [Next]_vars PROVE TypeOK' /\ HasCurrent'
    OBVIOUS
  <2>1. CASE UNCHANGED vars
    BY <2>1 DEF vars, db, workerVars, TypeOK, HasCurrent, InFlight
  <2>2. CASE Next
    BY <2>2, HasCurrentStep, TypeEnvironment, TypeTick, TypeRequests, TypeEmails,
       TypeSends, TypeResults DEF Next, Step
  <2>3. QED
    BY <2>1, <2>2
<1>3. QED
  BY <1>1, <1>2, PTL DEF Spec

\* Every variable keeps its type, for every number of workers and requests
\* and every back-off (services.py of the notifications module).
THEOREM TypeCorrect == Spec => []TypeOK
  BY TypeInvariant, PTL

-----------------------------------------------------------------------------
(* The fan-out.  A request exists once its revision has left DRAFT, and a  *)
(* worker has only rows that exist in its hands, so no row is made but by  *)
(* the transaction that also marks the request SENT.                       *)

Listed ==
    /\ \A r \in Requests : source[r[1]] = "DRAFT" => outbox[r].status = "NONE"
    /\ \A w \in Workers : \A r \in outboxIds[w] : outbox[r].status # "NONE"
    /\ \A w \in Workers : \A d \in dueEmails[w] \cup emailIds[w] : email[d].status # "NONE"
    /\ \A w \in Workers : InFlight(w) => email[current[w]].status # "NONE"

Fanned == TypeOK /\ HasCurrent /\ Listed /\ FanOutAtomic

\* What a step that fans nothing out leaves of the rows.
RowsStay ==
    /\ \A r \in Requests : /\ (outbox'[r].status = "NONE") <=> (outbox[r].status = "NONE")
                           /\ (outbox'[r].status = "SENT") <=> (outbox[r].status = "SENT")
    /\ \A d \in Emails : /\ (email'[d].status = "NONE") <=> (email[d].status = "NONE")
                         /\ (inApp'[d] = "NONE") <=> (inApp[d] = "NONE")
    /\ event' = event

ListsStay ==
    /\ \A w \in Workers : /\ outboxIds'[w] \subseteq outboxIds[w]
                          /\ dueEmails'[w] \subseteq dueEmails[w]
                          /\ emailIds'[w] \subseteq emailIds[w]
                          /\ InFlight(w)' => InFlight(w) /\ current'[w] = current[w]
    /\ \A e \in Events : source'[e] = "DRAFT" => source[e] = "DRAFT"

LEMMA RowsStayAtomic ==
  ASSUME FanOutAtomic, RowsStay
  PROVE  FanOutAtomic'
  BY DEF FanOutAtomic, RowsStay, OwnedBy

LEMMA NothingFanned ==
  ASSUME Fanned, RowsStay, ListsStay
  PROVE  Listed' /\ FanOutAtomic'
<1>1. Listed'
  <2>1. \A r \in Requests : r[1] \in Events
    BY DEF Requests
  <2>2. \A w \in Workers : InFlight(w) => current[w] \in Emails
    BY DEF Fanned, HasCurrent
  <2>3. \A w \in Workers : outboxIds[w] \subseteq Requests /\ dueEmails[w] \cup emailIds[w] \subseteq Emails
    BY DEF Fanned, TypeOK
  <2>4. /\ \A w \in Workers : \A r \in outboxIds'[w] : outbox'[r].status # "NONE"
        /\ \A w \in Workers : \A d \in dueEmails'[w] \cup emailIds'[w] : email'[d].status # "NONE"
    BY <2>3 DEF Fanned, Listed, RowsStay, ListsStay
  <2>5. \A w \in Workers : InFlight(w)' => email'[current'[w]].status # "NONE"
    BY <2>2 DEF Fanned, Listed, RowsStay, ListsStay
  <2>6. \A r \in Requests : source'[r[1]] = "DRAFT" => outbox'[r].status = "NONE"
    BY <2>1 DEF Fanned, Listed, RowsStay, ListsStay
  <2>7. QED
    BY <2>4, <2>5, <2>6 DEF Listed
<1>2. QED
  BY <1>1, RowsStayAtomic DEF Fanned

LEMMA FanEnvironment ==
  ASSUME Fanned, Environment \/ Tick
  PROVE  Listed' /\ FanOutAtomic'
<1> USE DEF Fanned, TypeOK
<1>1. ASSUME NEW e \in Events, Publish(e) PROVE Listed' /\ FanOutAtomic'
  <2>1. PICK affected \in SUBSET Enrollments :
            outbox' = [r \in Requests |-> IF r[1] = e /\ r[2] \in affected
                                          THEN [status |-> "QUEUED", attempts |-> 0, wait |-> 0]
                                          ELSE outbox[r]]
    BY <1>1, InputsAssumption DEF Publish
  <2>2. /\ source[e] = "DRAFT" /\ UNCHANGED <<event, inApp, email, workerVars>>
        /\ \A f \in Events : source'[f] = "DRAFT" => f # e /\ source[f] = "DRAFT"
    BY <1>1 DEF Publish
  <2>3. \A r \in Requests : r[1] = e => outbox[r].status = "NONE"
    BY <2>2 DEF Listed
  <2>4. \A r \in Requests : /\ (outbox'[r].status = "SENT") <=> (outbox[r].status = "SENT")
                            /\ outbox[r].status # "NONE" => outbox'[r].status # "NONE"
    BY <2>1, <2>3
  <2>5. \A r \in Requests : source'[r[1]] = "DRAFT" => outbox'[r].status = "NONE"
    BY <2>1, <2>2 DEF Listed, Requests
  <2>6. Listed'
    BY <2>2, <2>4, <2>5 DEF Listed, workerVars, InFlight
  <2>7. FanOutAtomic'
    BY <2>2, <2>4 DEF FanOutAtomic, OwnedBy
  <2>8. QED
    BY <2>6, <2>7
<1>2. CASE Tick
  <2>1. RowsStay
    <3>1. ASSUME NEW r \in Requests PROVE outbox'[r].status = outbox[r].status
      <4>1. outbox'[r] = [outbox[r] EXCEPT !.wait = Before1(@)] /\ outbox[r] \in Requested
        BY <1>2 DEF Tick, Requested
      <4>2. QED
        BY <4>1 DEF Requested
    <3>2. ASSUME NEW d \in Emails PROVE email'[d].status = email[d].status
      <4>1. /\ email'[d] = [email[d] EXCEPT !.wait = Before1(@),
                     !.age = IF email[d].status = "SENDING" THEN MinOf(@ + 1, Lease) ELSE @]
            /\ email[d] \in Row
        BY <1>2 DEF Tick, Row
      <4>2. QED
        BY <4>1 DEF Row
    <3>3. UNCHANGED <<inApp, event>>
      BY <1>2 DEF Tick
    <3>4. QED
      BY <3>1, <3>2, <3>3 DEF RowsStay
  <2>2. ListsStay
    BY <1>2 DEF Tick, ListsStay, InFlight
  <2>3. QED
    BY <2>1, <2>2, NothingFanned
<1>3. ASSUME UNCHANGED <<outbox, event, email, workerVars>>,
             \A d \in Emails : (inApp'[d] = "NONE") <=> (inApp[d] = "NONE"),
             \A e \in Events : source'[e] = "DRAFT" => source[e] = "DRAFT"
      PROVE  Listed' /\ FanOutAtomic'
  BY <1>3, NothingFanned DEF RowsStay, ListsStay, workerVars, InFlight
<1>4. CASE \E e \in Events : Retire(e)
  BY <1>3, <1>4 DEF Retire
<1>5. CASE \E u \in Users : UpdatePreference(u)
  BY <1>3, <1>5 DEF UpdatePreference
<1>6. CASE (\E u \in Users : MarkAllRead(u)) \/ \E d \in Emails : MarkRead(d)
  BY <1>3, <1>6 DEF MarkAllRead, MarkRead
<1>7. QED
  BY <1>1, <1>2, <1>4, <1>5, <1>6 DEF Environment

LEMMA FanPasses ==
  ASSUME Fanned, NEW w \in Workers, BeginPass(w) \/ ListEmails(w) \/ EndPass(w) \/ Crash(w)
  PROVE  Listed' /\ FanOutAtomic'
<1> USE DEF Fanned, TypeOK
<1>1. UNCHANGED <<source, outbox, event, inApp, email>>
  BY DEF BeginPass, ListEmails, EndPass, Crash, db
<1>2. \A v \in Workers : /\ \A r \in outboxIds'[v] : outbox[r].status # "NONE"
                         /\ \A d \in dueEmails'[v] \cup emailIds'[v] : email[d].status # "NONE"
  <2>1. CASE BeginPass(w)
    BY <2>1 DEF BeginPass, FirstRows, DueRequests, Retryable, Listed
  <2>2. CASE ListEmails(w)
    BY <2>2 DEF ListEmails, FirstRows, DueEmails, Listed
  <2>3. CASE EndPass(w) \/ Crash(w)
    BY <2>3 DEF EndPass, Crash, Listed
  <2>4. QED
    BY <2>1, <2>2, <2>3
<1>3. \A v \in Workers : InFlight(v)' => InFlight(v) /\ current'[v] = current[v]
  BY DEF BeginPass, ListEmails, EndPass, Crash, InFlight
<1>4. Listed'
  BY <1>1, <1>2, <1>3 DEF Listed
<1>5. FanOutAtomic'
  BY <1>1, RowsStayAtomic DEF RowsStay
<1>6. QED
  BY <1>4, <1>5

LEMMA FanRequests ==
  ASSUME Fanned, NEW w \in Workers, HandleRequest(w)
  PROVE  Listed' /\ FanOutAtomic'
<1> USE DEF Fanned, TypeOK
<1> PICK r \in Requests : SkipRequest(w, r) \/ RejectRequest(w, r) \/ FanOut(w, r)
  BY DEF HandleRequest
<1>1. /\ r \in outboxIds[w] /\ outbox[r].status # "NONE" /\ source' = source
  BY DEF SkipRequest, RejectRequest, FanOut, TakeRequest, IsFirst, Listed
<1>2. ListsStay
  BY SMTT(60) DEF SkipRequest, RejectRequest, FanOut, TakeRequest, ListsStay, InFlight
<1>3. CASE SkipRequest(w, r) \/ RejectRequest(w, r)
  <2>1. RowsStay
    <3>1. UNCHANGED <<email, inApp, event>>
      BY <1>3 DEF SkipRequest, RejectRequest
    <3>2. \A q \in Requests \ {r} : outbox'[q] = outbox[q]
      BY <1>3 DEF SkipRequest, RejectRequest
    <3>3. outbox'[r] = outbox[r] \/ (outbox[r].status # "SENT" /\ outbox'[r].status = "FAILED")
      BY <1>3 DEF SkipRequest, RejectRequest
    <3>4. QED
      BY <1>1, <3>1, <3>2, <3>3 DEF RowsStay
  <2>2. QED
    BY <1>2, <2>1, NothingFanned
<1>4. CASE FanOut(w, r)
  <2> DEFINE d == OwnedBy(r)
  <2>1. d \in Emails /\ d[1] = r[1]
    BY OwnedIsEmail DEF OwnedBy
  <2>2. /\ outbox'[r].status = "SENT" /\ \A q \in Requests \ {r} : outbox'[q] = outbox[q]
        /\ event' = event \cup {r[1]}
    BY <1>4 DEF FanOut
  <2>3. /\ email'[d].status # "NONE" /\ inApp'[d] # "NONE"
        /\ \A c \in Emails \ {d} : email'[c] = email[c] /\ inApp'[c] = inApp[c]
    BY <1>4, <2>1 DEF FanOut, UpsertEmail, UpsertInApp, NewEmail, EmailStatusFor
  <2>4. \A c \in Emails : email[c].status # "NONE" => email'[c].status # "NONE"
    BY <2>3
  <2>5. Listed'
    <3>1. ASSUME NEW v \in Workers, NEW q \in outboxIds'[v] PROVE outbox'[q].status # "NONE"
      <4>1. q \in outboxIds[v] /\ q \in Requests
        BY <1>2, <3>1 DEF ListsStay
      <4>2. outbox[q].status # "NONE"
        BY <4>1 DEF Listed
      <4>3. QED
        BY <2>2, <4>1, <4>2
    <3>2. \A v \in Workers : \A c \in dueEmails'[v] \cup emailIds'[v] : email'[c].status # "NONE"
      BY <1>2, <2>4 DEF Listed, ListsStay
    <3>3. \A v \in Workers : InFlight(v)' => email'[current'[v]].status # "NONE"
      BY <1>2, <2>4 DEF Listed, ListsStay, HasCurrent
    <3>4. source[r[1]] = "PUBLISHED"
      BY <1>4 DEF FanOut, SourcePublished
    <3>5. \A q \in Requests : source'[q[1]] = "DRAFT" => outbox'[q].status = "NONE"
      BY <1>1, <2>2, <3>4 DEF Listed
    <3>6. QED
      BY <3>1, <3>2, <3>3, <3>5 DEF Listed
  <2>6. ASSUME NEW c \in Emails
        PROVE  LET done == \E q \in Requests : OwnedBy(q) = c /\ outbox'[q].status = "SENT"
               IN  /\ (email'[c].status # "NONE") <=> done
                   /\ (inApp'[c] # "NONE") <=> done
                   /\ done => c[1] \in event'
    <3>1. CASE c = d
      BY <2>1, <2>2, <2>3, <3>1
    <3>2. CASE c # d
      <4>1. \A q \in Requests : OwnedBy(q) = c => q # r /\ outbox'[q] = outbox[q]
        BY <2>2, <3>2
      <4>2. QED
        BY <2>2, <2>3, <3>2, <4>1 DEF FanOutAtomic
    <3>3. QED
      BY <3>1, <3>2
  <2>7. FanOutAtomic'
    BY <2>6 DEF FanOutAtomic, OwnedBy
  <2>8. QED
    BY <2>5, <2>7
<1>5. QED
  BY <1>3, <1>4

LEMMA FanEmails ==
  ASSUME Fanned, NEW w \in Workers,
         \/ HandleEmail(w) \/ SendAccepted(w) \/ SendRefused(w) \/ SendUnreported(w)
         \/ RecordSent(w) \/ RecordFailed(w)
  PROVE  Listed' /\ FanOutAtomic'
<1> USE DEF Fanned, TypeOK
<1>1. CASE SendAccepted(w) \/ SendRefused(w) \/ SendUnreported(w)
  BY <1>1, NothingFanned DEF SendAccepted, SendRefused, SendUnreported, Answer, db, RowsStay, ListsStay, InFlight
<1>2. CASE RecordSent(w) \/ RecordFailed(w)
  <2>1. current[w] \in Emails /\ email[current[w]].status # "NONE"
    BY <1>2 DEF RecordSent, RecordFailed, HasCurrent, Listed, InFlight
  <2>2. \A d \in Emails \ {current[w]} : email'[d] = email[d]
    BY <1>2 DEF RecordSent, RecordFailed
  <2>3. email'[current[w]].status # "NONE"
    <3>1. email[current[w]] \in Row
      BY <2>1 DEF Row
    <3>2. CASE RecordSent(w)
      BY <2>1, <3>1, <3>2 DEF RecordSent, Row
    <3>3. CASE RecordFailed(w)
      BY <2>1, <3>1, <3>3 DEF RecordFailed, Row
    <3>4. QED
      BY <1>2, <3>2, <3>3
  <2>4. RowsStay
    BY <1>2, <2>1, <2>2, <2>3 DEF RecordSent, RecordFailed, Release, RowsStay
  <2>5. ListsStay
    BY <1>2 DEF RecordSent, RecordFailed, Release, ListsStay, InFlight
  <2>6. QED
    BY <2>4, <2>5, NothingFanned
<1>3. CASE HandleEmail(w)
  <2> PICK d \in Emails : SkipEmail(w, d) \/ SuppressEmail(w, d) \/ Claim(w, d)
    BY <1>3 DEF HandleEmail
  <2>1. d \in emailIds[w] /\ email[d].status # "NONE"
    BY DEF SkipEmail, SuppressEmail, Claim, TakeEmail, IsFirst, Listed
  <2>2. RowsStay
    <3>1. \A c \in Emails \ {d} : email'[c] = email[c]
      BY DEF SkipEmail, SuppressEmail, Claim
    <3>2. email'[d].status # "NONE"
      <4>1. email[d] \in Row
        BY DEF Row
      <4>2. CASE SkipEmail(w, d)
        BY <2>1, <4>2 DEF SkipEmail
      <4>3. CASE SuppressEmail(w, d)
        BY <4>1, <4>3 DEF SuppressEmail, Row
      <4>4. CASE Claim(w, d)
        BY <4>1, <4>4 DEF Claim, Row
      <4>5. QED
        BY <4>2, <4>3, <4>4
    <3>3. UNCHANGED <<outbox, inApp, event>>
      BY DEF SkipEmail, SuppressEmail, Claim, TakeEmail
    <3>4. QED
      BY <2>1, <3>1, <3>2, <3>3 DEF RowsStay
  <2>3. CASE SkipEmail(w, d) \/ SuppressEmail(w, d)
    <3>1. /\ UNCHANGED <<source, outboxIds, dueEmails, pc, current>>
          /\ emailIds' = [emailIds EXCEPT ![w] = @ \ {d}]
      BY <2>3 DEF SkipEmail, SuppressEmail, TakeEmail
    <3>2. ListsStay
      BY <3>1 DEF ListsStay, InFlight
    <3>3. QED
      BY <2>2, <3>2, NothingFanned
  <2>4. CASE Claim(w, d)
    <3>1. UNCHANGED <<source, outbox, event, outboxIds, dueEmails>>
      BY <2>4 DEF Claim, TakeEmail
    <3>2. \A v \in Workers : emailIds'[v] \subseteq emailIds[v]
      BY <2>4 DEF Claim, TakeEmail
    <3>3. \A v \in Workers : InFlight(v)' => current'[v] = d \/ (InFlight(v) /\ current'[v] = current[v])
      BY <2>4 DEF Claim, InFlight
    <3>4. \A c \in Emails : email[c].status # "NONE" => email'[c].status # "NONE"
      BY <2>2 DEF RowsStay
    <3>5. \A v \in Workers : InFlight(v)' => email'[current'[v]].status # "NONE"
      BY <2>1, <3>3, <3>4 DEF Listed, HasCurrent
    <3>6. Listed'
      BY <3>1, <3>2, <3>4, <3>5 DEF Listed
    <3>7. QED
      BY <2>2, <3>6, RowsStayAtomic
  <2>5. QED
    BY <2>3, <2>4
<1>4. QED
  BY <1>1, <1>2, <1>3

LEMMA FannedInvariant == Spec => []Fanned
<1>1. Init => Listed /\ FanOutAtomic
  BY OwnedIsEmail DEF Init, Listed, FanOutAtomic, InFlight, Missing
<1>2. Fanned /\ [Next]_vars => Listed' /\ FanOutAtomic'
  <2> SUFFICES ASSUME Fanned, [Next]_vars PROVE Listed' /\ FanOutAtomic'
    OBVIOUS
  <2>1. CASE UNCHANGED vars
    BY <2>1, NothingFanned DEF vars, db, workerVars, RowsStay, ListsStay, InFlight
  <2>2. CASE Next
    BY <2>2, FanEnvironment, FanPasses, FanRequests, FanEmails DEF Next, Step
  <2>3. QED
    BY <2>1, <2>2
<1>3. QED
  BY <1>1, <1>2, TypeInvariant, PTL DEF Spec, Fanned

\* materialize_outbox is all or nothing: however many enrollments, workers and
\* killed transactions there are, a user has a row in each of the two channels
\* exactly when some request of theirs for that event is SENT.
THEOREM FanOutIsAtomic == Spec => []FanOutAtomic
<1>1. Fanned => FanOutAtomic
  BY DEF Fanned
<1>2. QED
  BY <1>1, FannedInvariant, PTL

-----------------------------------------------------------------------------
(* Claims.  When every send ends within the lease, the SENDING status of a *)
(* row is a lock.  The proof relates the age of a claim, which the next    *)
(* worker compares with the lease, to the time its owner has spent         *)
(* sending: they are equal, so a claim in flight is never old enough to be *)
(* taken over.                                                             *)

\* The claim of a worker in flight, as the row shows it.
Holds(w) ==
    /\ email[current[w]].status = "SENDING"
    /\ email[current[w]].age = sendAge[w]
    /\ sendAge[w] <= MaxSend
    /\ \A v \in Workers : InFlight(v) /\ current[v] = current[w] => v = w

ClaimsAreFresh == \A w \in Workers : InFlight(w) => Holds(w)

\* A row in flight is settled by nobody else, and is leased.
LEMMA InFlightIsLeased ==
  ASSUME MaxSend < Lease, TypeOK, HasCurrent, ClaimsAreFresh, NEW w \in Workers, InFlight(w)
  PROVE  Leased(current[w]) /\ email[current[w]].status \notin Settled
  BY BoundsAssumption DEF TypeOK, HasCurrent, ClaimsAreFresh, Holds, Leased, Settled

\* A step that moves no worker in or out of flight and touches no row in flight.
LEMMA UndisturbedClaims ==
  ASSUME ClaimsAreFresh, UNCHANGED <<current, sendAge>>,
         \A w \in Workers : InFlight(w)' <=> InFlight(w),
         \A w \in Workers : InFlight(w) => email'[current[w]] = email[current[w]]
  PROVE  ClaimsAreFresh'
  BY DEF ClaimsAreFresh, Holds

LEMMA ClaimsEnvironment == ClaimsAreFresh /\ Environment => ClaimsAreFresh'
<1> SUFFICES ASSUME ClaimsAreFresh, Environment PROVE ClaimsAreFresh'  OBVIOUS
<1>1. UNCHANGED <<email, workerVars>>
  BY DEF Environment, Publish, Retire, UpdatePreference, MarkAllRead, MarkRead
<1>2. QED
  BY <1>1, UndisturbedClaims DEF workerVars, InFlight

LEMMA ClaimsTick ==
  MaxSend < Lease /\ TypeOK /\ HasCurrent /\ ClaimsAreFresh /\ Tick => ClaimsAreFresh'
<1> SUFFICES ASSUME MaxSend < Lease, TypeOK, HasCurrent, ClaimsAreFresh, Tick,
                    NEW w \in Workers, InFlight(w)
             PROVE  Holds(w)'
  BY DEF ClaimsAreFresh, Tick, InFlight
<1> DEFINE d == current[w]
<1>1. d \in Emails /\ Holds(w)
  BY DEF HasCurrent, ClaimsAreFresh
<1>2. current' = current /\ pc' = pc
  BY DEF Tick
<1>3. sendAge[w] < MaxSend /\ sendAge'[w] = sendAge[w] + 1
  BY DEF Tick
<1>4. email'[d].status = "SENDING" /\ email'[d].age = MinOf(email[d].age + 1, Lease)
  BY ZenonT(60), <1>1 DEF Tick, Holds, TypeOK
<1>5. sendAge'[w] <= MaxSend /\ email'[d].age = sendAge'[w]
  BY <1>1, <1>3, <1>4, BoundsAssumption DEF Holds, TypeOK, MinOf
<1>6. QED
  BY <1>1, <1>2, <1>4, <1>5 DEF Holds, InFlight

LEMMA ClaimsRequests ==
  ASSUME TypeOK, HasCurrent, ClaimsAreFresh, NEW w \in Workers,
         BeginPass(w) \/ HandleRequest(w) \/ ListEmails(w) \/ EndPass(w)
  PROVE  ClaimsAreFresh'
<1>1. CASE BeginPass(w) \/ ListEmails(w) \/ EndPass(w)
  <2>1. UNCHANGED <<email, current, sendAge>> /\ \A v \in Workers : InFlight(v)' <=> InFlight(v)
    BY <1>1 DEF BeginPass, ListEmails, EndPass, db, InFlight, TypeOK
  <2>2. QED
    BY <2>1, UndisturbedClaims
<1>2. ASSUME NEW r \in Requests, TakeRequest(w, r),
             \A v \in Workers : InFlight(v) => email'[current[v]] = email[current[v]]
      PROVE  ClaimsAreFresh'
  BY <1>2, UndisturbedClaims DEF TakeRequest, InFlight
<1>3. ASSUME NEW r \in Requests, SkipRequest(w, r) \/ RejectRequest(w, r) PROVE ClaimsAreFresh'
  BY <1>2, <1>3 DEF SkipRequest, RejectRequest
<1>4. ASSUME NEW r \in Requests, FanOut(w, r) PROVE ClaimsAreFresh'
  <2>1. ASSUME NEW d \in Emails, email[d].status # "NONE" PROVE email'[d] = email[d]
    BY <1>4, <2>1 DEF FanOut, UpsertEmail, TypeOK
  <2>2. \A v \in Workers : InFlight(v) => email'[current[v]] = email[current[v]]
    BY <2>1 DEF HasCurrent, ClaimsAreFresh, Holds
  <2>3. QED
    BY <1>2, <1>4, <2>2 DEF FanOut
<1>5. QED
  BY <1>1, <1>3, <1>4 DEF HandleRequest

LEMMA ClaimsEmails ==
  ASSUME MaxSend < Lease, TypeOK, HasCurrent, ClaimsAreFresh, NEW w \in Workers, HandleEmail(w)
  PROVE  ClaimsAreFresh'
<1> PICK d \in Emails : SkipEmail(w, d) \/ SuppressEmail(w, d) \/ Claim(w, d)
  BY DEF HandleEmail
<1>1. CASE SkipEmail(w, d)
  BY <1>1, UndisturbedClaims DEF SkipEmail, InFlight
<1>2. CASE SuppressEmail(w, d)
  <2>1. \A v \in Workers : InFlight(v) => current[v] # d
    BY <1>2, InFlightIsLeased DEF SuppressEmail
  <2>2. \A v \in Workers : InFlight(v) => email'[current[v]] = email[current[v]]
    BY <1>2, <2>1 DEF SuppressEmail, TypeOK, HasCurrent
  <2>3. QED
    BY <1>2, <2>2, UndisturbedClaims DEF SuppressEmail, InFlight
<1>3. CASE Claim(w, d)
  <2>1. \A v \in Workers : InFlight(v) => current[v] # d
    BY <1>3, InFlightIsLeased DEF Claim
  <2>2. ~InFlight(w)
    BY <1>3 DEF Claim, TakeEmail, InFlight
  <2>3. /\ current' = [current EXCEPT ![w] = d]
        /\ sendAge' = [sendAge EXCEPT ![w] = 0]
        /\ pc' = [pc EXCEPT ![w] = "sending"]
    BY <1>3 DEF Claim
  <2>4. email'[d].status = "SENDING" /\ email'[d].age = 0
    BY <1>3 DEF Claim, TypeOK
  <2>5. \A v \in Workers : InFlight(v) => email'[current[v]] = email[current[v]]
    BY <1>3, <2>1 DEF Claim, TypeOK, HasCurrent
  <2>6. \A v \in Workers : InFlight(v)' <=> v = w \/ InFlight(v)
    BY <2>3 DEF InFlight, TypeOK
  <2>7. Holds(w)'
    BY <2>1, <2>2, <2>3, <2>4, <2>6, BoundsAssumption DEF Holds, TypeOK
  <2>8. ASSUME NEW v \in Workers, InFlight(v), v # w PROVE Holds(v)'
    <3>1. current'[v] = current[v] /\ sendAge'[v] = sendAge[v]
      BY <2>3, <2>8 DEF TypeOK
    <3>2. Holds(v)
      BY <2>8 DEF ClaimsAreFresh
    <3>3. ASSUME NEW x \in Workers, InFlight(x)', current'[x] = current'[v] PROVE x = v
      <4>1. CASE x = w
        BY <2>1, <2>3, <2>8, <3>1, <3>3, <4>1 DEF TypeOK
      <4>2. CASE x # w
        BY <2>3, <2>6, <3>1, <3>2, <3>3, <4>2 DEF TypeOK, Holds
      <4>3. QED
        BY <4>1, <4>2
    <3>4. QED
      BY <2>5, <2>8, <3>1, <3>2, <3>3 DEF Holds
  <2>9. QED
    BY <2>6, <2>7, <2>8 DEF ClaimsAreFresh
<1>4. QED
  BY <1>1, <1>2, <1>3

LEMMA ClaimsSends ==
  ASSUME TypeOK, HasCurrent, ClaimsAreFresh, NEW w \in Workers,
         SendAccepted(w) \/ SendRefused(w) \/ SendUnreported(w)
  PROVE  ClaimsAreFresh'
<1>1. UNCHANGED <<email, current, sendAge>>
  BY DEF SendAccepted, SendRefused, SendUnreported, Answer, db
<1>2. \A v \in Workers : InFlight(v)' <=> InFlight(v)
  BY DEF SendAccepted, SendRefused, SendUnreported, Answer, InFlight, TypeOK
<1>3. QED
  BY <1>1, <1>2, UndisturbedClaims

LEMMA ClaimsResults ==
  ASSUME TypeOK, HasCurrent, ClaimsAreFresh, NEW w \in Workers,
         RecordSent(w) \/ RecordFailed(w) \/ Crash(w)
  PROVE  ClaimsAreFresh'
<1>1. /\ pc'[w] \in {"deliver", "idle"}
      /\ \A v \in Workers \ {w} : /\ pc'[v] = pc[v] /\ current'[v] = current[v]
                                  /\ sendAge'[v] = sendAge[v]
  BY DEF RecordSent, RecordFailed, Release, Crash, TypeOK
<1>2. \A v \in Workers : InFlight(v)' <=> v # w /\ InFlight(v)
  BY <1>1 DEF InFlight
<1>3. \A v \in Workers \ {w} : InFlight(v) => email'[current[v]] = email[current[v]]
  <2>1. CASE Crash(w)
    BY <2>1 DEF Crash, db
  <2>2. CASE RecordSent(w) \/ RecordFailed(w)
    <3>1. InFlight(w)
      BY <2>2 DEF RecordSent, RecordFailed, InFlight
    <3>2. \A v \in Workers \ {w} : InFlight(v) => current[v] # current[w]
      BY <3>1 DEF ClaimsAreFresh, Holds
    <3>3. \A d \in Emails : d # current[w] => email'[d] = email[d]
      BY <2>2 DEF RecordSent, RecordFailed, TypeOK
    <3>4. QED
      BY <3>2, <3>3 DEF HasCurrent
  <2>3. QED
    BY <2>1, <2>2
<1>4. QED
  BY <1>1, <1>2, <1>3 DEF ClaimsAreFresh, Holds

LEMMA ClaimsInvariant ==
  ASSUME MaxSend < Lease PROVE Spec => [](TypeOK /\ HasCurrent /\ ClaimsAreFresh)
<1>1. Init => ClaimsAreFresh
  BY DEF Init, ClaimsAreFresh, InFlight
<1>2. TypeOK /\ HasCurrent /\ ClaimsAreFresh /\ [Next]_vars => ClaimsAreFresh'
  <2> SUFFICES ASSUME TypeOK, HasCurrent, ClaimsAreFresh, [Next]_vars PROVE ClaimsAreFresh'
    OBVIOUS
  <2>1. CASE UNCHANGED vars
    BY <2>1 DEF vars, db, workerVars, ClaimsAreFresh, Holds, InFlight
  <2>2. CASE Next
    BY <2>2, ClaimsEnvironment, ClaimsTick, ClaimsRequests, ClaimsEmails, ClaimsSends,
       ClaimsResults DEF Next, Step
  <2>3. QED
    BY <2>1, <2>2
<1>3. QED
  BY <1>1, <1>2, TypeInvariant, PTL DEF Spec

\* When every send ends within the lease, one worker at most is sending a given
\* e-mail and its row stays SENDING until it has recorded the result
\* (deliver_email), however many workers there are and whenever they are killed.
THEOREM ClaimExclusive == ASSUME MaxSend < Lease PROVE Spec => []ClaimIsExclusive
<1>1. ClaimsAreFresh => ClaimIsExclusive
  BY DEF ClaimsAreFresh, Holds, ClaimIsExclusive
<1>2. QED
  BY <1>1, ClaimsInvariant, PTL

-----------------------------------------------------------------------------
(* What follows from the lock.                                             *)

LEMMA SettledStep ==
  ASSUME MaxSend < Lease, TypeOK, HasCurrent, ClaimsAreFresh, [Next]_vars,
         NEW d \in Emails, email[d].status \in Settled
  PROVE  email'[d].status = email[d].status
<1>1. CASE UNCHANGED vars
  BY <1>1 DEF vars, db
<1>2. CASE Environment
  BY <1>2 DEF Environment, Publish, Retire, UpdatePreference, MarkAllRead, MarkRead
<1>3. CASE Tick
  BY ZenonT(60), <1>3 DEF Tick, TypeOK
<1>4. ASSUME NEW w \in Workers, HandleRequest(w) PROVE email'[d].status = email[d].status
  BY <1>4 DEF HandleRequest, SkipRequest, RejectRequest, FanOut, UpsertEmail, TypeOK, Settled
<1>5. ASSUME NEW w \in Workers, HandleEmail(w) PROVE email'[d].status = email[d].status
  BY <1>5 DEF HandleEmail, SkipEmail, SuppressEmail, Claim, TypeOK
<1>6. ASSUME NEW w \in Workers, RecordSent(w) \/ RecordFailed(w)
      PROVE  email'[d].status = email[d].status
  <2>1. current[w] # d
    BY <1>6, InFlightIsLeased DEF RecordSent, RecordFailed, InFlight
  <2>2. QED
    BY <1>6, <2>1 DEF RecordSent, RecordFailed, TypeOK
<1>7. ASSUME NEW w \in Workers, BeginPass(w) \/ ListEmails(w) \/ EndPass(w) \/ Crash(w)
      PROVE  email'[d].status = email[d].status
  BY <1>7 DEF BeginPass, ListEmails, EndPass, Crash, db
<1>8. ASSUME NEW w \in Workers, SendAccepted(w) \/ SendRefused(w) \/ SendUnreported(w)
      PROVE  email'[d].status = email[d].status
  BY <1>8 DEF SendAccepted, SendRefused, SendUnreported, Answer, db
<1>9. QED
  BY <1>1, <1>2, <1>3, <1>4, <1>5, <1>6, <1>7, <1>8 DEF Next, Step

\* SENT and SUPPRESSED are final for an e-mail when every send ends within the
\* lease: the late result of a slow worker never reopens a row.
THEOREM SettledStays == ASSUME MaxSend < Lease PROVE Spec => SettledIsFinal
<1>1. TypeOK /\ HasCurrent /\ ClaimsAreFresh /\ [Next]_vars =>
        [\A d \in Emails : email[d].status \in Settled => email'[d].status = email[d].status]_vars
  BY SettledStep
<1>2. QED
  BY <1>1, ClaimsInvariant, PTL DEF Spec, SettledIsFinal

\* A message the provider has accepted is accounted for: by the row, by the
\* worker that is about to record it, or as lost.
Sent(d) == email[d].status = "SENT" \/ \E w \in Workers : pc[w] = "accepted" /\ current[w] = d

MailIsAccounted == \A d \in Emails : mailed[d] <= lost[d] + (IF Sent(d) THEN 1 ELSE 0)

\* A step that sends nothing, loses nothing and forgets no acceptance.
LEMMA UndisturbedMail ==
  ASSUME TypeOK, MailIsAccounted, UNCHANGED <<mailed, lost>>,
         \A d \in Emails : Sent(d) => Sent(d)'
  PROVE  MailIsAccounted'
  BY DEF MailIsAccounted, TypeOK

LEMMA UnsentInFlight ==
  ASSUME HasCurrent, ClaimsAreFresh, NEW w \in Workers, pc[w] \in {"sending", "refused"}
  PROVE  ~Sent(current[w])
  BY DEF Sent, ClaimsAreFresh, Holds, InFlight

LEMMA MailRows ==
  ASSUME MaxSend < Lease, TypeOK, HasCurrent, ClaimsAreFresh, MailIsAccounted,
         \/ Environment \/ Tick
         \/ \E w \in Workers : BeginPass(w) \/ HandleRequest(w) \/ ListEmails(w)
                              \/ HandleEmail(w) \/ EndPass(w)
  PROVE  MailIsAccounted'
<1>1. \A d \in Emails : email[d].status = "SENT" => email'[d].status = "SENT"
  BY SettledStep DEF Next, Step, Settled
<1>2. UNCHANGED <<mailed, lost>>
  <2>1. CASE Environment \/ Tick
    BY <2>1 DEF Environment, Publish, Retire, UpdatePreference, MarkAllRead, MarkRead, Tick
  <2>2. ASSUME NEW w \in Workers, BeginPass(w) \/ ListEmails(w) \/ EndPass(w)
        PROVE  UNCHANGED <<mailed, lost>>
    BY <2>2 DEF BeginPass, ListEmails, EndPass
  <2>3. ASSUME NEW w \in Workers, HandleRequest(w) \/ HandleEmail(w)
        PROVE  UNCHANGED <<mailed, lost>>
    BY <2>3 DEF HandleRequest, TakeRequest, SkipRequest, RejectRequest, FanOut,
       HandleEmail, TakeEmail, SkipEmail, SuppressEmail, Claim
  <2>4. QED
    BY <2>1, <2>2, <2>3
<1>3. \A w \in Workers : pc[w] = "accepted" => pc'[w] = "accepted" /\ current'[w] = current[w]
  <2>1. CASE Environment \/ Tick
    BY <2>1 DEF Environment, Publish, Retire, UpdatePreference, MarkAllRead, MarkRead, Tick,
       workerVars
  <2>2. ASSUME NEW w \in Workers, BeginPass(w) \/ ListEmails(w) \/ EndPass(w)
        PROVE  \A v \in Workers : pc[v] = "accepted" =>
                 pc'[v] = "accepted" /\ current'[v] = current[v]
    BY <2>2 DEF BeginPass, ListEmails, EndPass, TypeOK
  <2>3. ASSUME NEW w \in Workers, HandleRequest(w) \/ HandleEmail(w)
        PROVE  \A v \in Workers : pc[v] = "accepted" =>
                 pc'[v] = "accepted" /\ current'[v] = current[v]
    BY <2>3 DEF HandleRequest, TakeRequest, SkipRequest, RejectRequest, FanOut,
       HandleEmail, TakeEmail, SkipEmail, SuppressEmail, Claim, TypeOK
  <2>4. QED
    BY <2>1, <2>2, <2>3
<1>4. QED
  BY <1>1, <1>2, <1>3, UndisturbedMail DEF Sent

LEMMA MailSends ==
  ASSUME TypeOK, HasCurrent, ClaimsAreFresh, MailIsAccounted, NEW w \in Workers,
         SendAccepted(w) \/ SendRefused(w) \/ SendUnreported(w)
  PROVE  MailIsAccounted'
<1> DEFINE c == current[w]
<1>1. pc[w] = "sending" /\ c \in Emails /\ ~Sent(c) /\ email' = email /\ current' = current
  BY UnsentInFlight DEF SendAccepted, SendRefused, SendUnreported, Answer, db, HasCurrent,
     InFlight
<1>2. mailed[c] <= lost[c]
  BY <1>1 DEF MailIsAccounted, TypeOK
<1>3. \A v \in Workers \ {w} : pc'[v] = pc[v]
  BY DEF SendAccepted, SendRefused, SendUnreported, Answer, TypeOK
<1>4. \A d \in Emails : Sent(d) => Sent(d)'
  BY <1>1, <1>3 DEF Sent
<1>5. CASE SendRefused(w)
  BY <1>4, <1>5, UndisturbedMail DEF SendRefused
<1>6. CASE SendAccepted(w)
  <2>1. Sent(c)'
    BY <1>1, <1>6 DEF SendAccepted, Answer, Sent, TypeOK
  <2>2. mailed' = [mailed EXCEPT ![c] = @ + 1] /\ lost' = lost
    BY <1>6 DEF SendAccepted
  <2>3. QED
    BY <1>1, <1>2, <1>4, <2>1, <2>2 DEF MailIsAccounted, TypeOK
<1>7. CASE SendUnreported(w)
  <2>1. mailed' = [mailed EXCEPT ![c] = @ + 1] /\ lost' = [lost EXCEPT ![c] = @ + 1]
    BY <1>7 DEF SendUnreported
  <2>2. QED
    BY <1>1, <1>2, <1>4, <2>1 DEF MailIsAccounted, TypeOK
<1>8. QED
  BY <1>5, <1>6, <1>7

LEMMA MailResults ==
  ASSUME TypeOK, HasCurrent, ClaimsAreFresh, MailIsAccounted, NEW w \in Workers,
         RecordSent(w) \/ RecordFailed(w) \/ Crash(w)
  PROVE  MailIsAccounted'
<1> DEFINE c == current[w]
<1>1. /\ mailed' = mailed
      /\ \A v \in Workers \ {w} : pc'[v] = pc[v] /\ current'[v] = current[v]
  BY DEF RecordSent, RecordFailed, Release, Crash, TypeOK
<1>2. CASE RecordSent(w)
  <2>1. c \in Emails
    BY <1>2 DEF RecordSent, HasCurrent, InFlight
  <2>2. email'[c].status = "SENT" /\ \A d \in Emails \ {c} : email'[d] = email[d]
    BY <1>2, <2>1 DEF RecordSent, TypeOK
  <2>3. \A d \in Emails : Sent(d) => Sent(d)'
    BY <1>1, <2>2 DEF Sent
  <2>4. QED
    BY <1>1, <1>2, <2>3, UndisturbedMail DEF RecordSent, Release
<1>3. CASE RecordFailed(w)
  <2>1. c \in Emails /\ ~Sent(c)
    BY <1>3, UnsentInFlight DEF RecordFailed, HasCurrent, InFlight
  <2>2. \A d \in Emails \ {c} : email'[d] = email[d]
    BY <1>3, <2>1 DEF RecordFailed, TypeOK
  <2>3. \A d \in Emails : Sent(d) => Sent(d)'
    BY <1>1, <1>3, <2>1, <2>2 DEF Sent, RecordFailed
  <2>4. QED
    BY <1>1, <1>3, <2>3, UndisturbedMail DEF RecordFailed, Release
<1>4. CASE Crash(w)
  <2>1. email' = email
    BY <1>4 DEF Crash, db
  <2>2. \A d \in Emails :
          lost'[d] = IF pc[w] = "accepted" /\ c = d THEN lost[d] + 1 ELSE lost[d]
    BY <1>4 DEF Crash
  <2>3. ASSUME NEW d \in Emails PROVE mailed'[d] <= lost'[d] + (IF Sent(d)' THEN 1 ELSE 0)
    <3>1. CASE pc[w] = "accepted" /\ c = d
      BY <1>1, <2>2, <3>1 DEF MailIsAccounted, TypeOK
    <3>2. CASE ~(pc[w] = "accepted" /\ c = d)
      <4>1. Sent(d) => Sent(d)'
        BY <1>1, <2>1, <3>2 DEF Sent
      <4>2. QED
        BY <1>1, <2>2, <3>2, <4>1 DEF MailIsAccounted, TypeOK
    <3>3. QED
      BY <3>1, <3>2
  <2>4. QED
    BY <2>3 DEF MailIsAccounted
<1>5. QED
  BY <1>2, <1>3, <1>4

\* When every send ends within the lease, a second message goes out only if the
\* acceptance of an earlier one never reached the database, however many
\* workers, retries and killed commands there are (deliver_email).
THEOREM MailedOnce == ASSUME MaxSend < Lease PROVE Spec => []MailedOnceUnlessLost
<1>1. Init => MailIsAccounted
  BY DEF Init, MailIsAccounted
<1>2. TypeOK /\ HasCurrent /\ ClaimsAreFresh /\ MailIsAccounted /\ [Next]_vars
        => MailIsAccounted'
  <2> SUFFICES ASSUME TypeOK, HasCurrent, ClaimsAreFresh, MailIsAccounted, [Next]_vars
               PROVE  MailIsAccounted'
    OBVIOUS
  <2>1. CASE UNCHANGED vars
    BY <2>1 DEF vars, db, workerVars, MailIsAccounted, Sent
  <2>2. CASE Next
    BY <2>2, MailRows, MailSends, MailResults DEF Next, Step
  <2>3. QED
    BY <2>1, <2>2
<1>3. TypeOK /\ MailIsAccounted => MailedOnceUnlessLost
  BY SMT DEF TypeOK, MailIsAccounted, MailedOnceUnlessLost
<1>4. QED
  BY <1>1, <1>2, <1>3, ClaimsInvariant, PTL DEF Spec

-----------------------------------------------------------------------------
(* The ledger.  An entry is opened by the fan-out of a published revision, *)
(* settled by whoever suppresses the row or records its message as sent,   *)
(* and moved by no other step.                                             *)

Entries == [d \in Emails |-> LedgerEntry(d)]

LEMMA EntriesStay ==
  ASSUME \A d \in Emails : email'[d].status = email[d].status
  PROVE  Entries' = Entries
<1>1. ASSUME NEW d \in Emails PROVE LedgerEntry(d)' = LedgerEntry(d)
  BY DEF LedgerEntry
<1>2. QED
  BY <1>1 DEF Entries

\* A step that changes one row changes one entry.
LEMMA EntryMoves ==
  ASSUME NEW d \in Emails, \A c \in Emails \ {d} : email'[c] = email[c]
  PROVE  Entries' = [Entries EXCEPT ![d] = LedgerEntry(d)']
<1>1. \A c \in Emails \ {d} : LedgerEntry(c)' = LedgerEntry(c)
  BY DEF LedgerEntry
<1>2. Entries' = [c \in Emails |-> LedgerEntry(c)'] /\ Entries = [c \in Emails |-> LedgerEntry(c)]
  BY DEF Entries
<1>3. QED
  BY <1>1, <1>2

LEMMA LedgerEnvironment ==
  ASSUME TypeOK, Environment \/ Tick
  PROVE  [Ledger!Next]_<<source, Entries>>
<1> USE DEF TypeOK
<1>1. \A d \in Emails : email'[d].status = email[d].status
  <2>1. CASE Environment
    BY <2>1 DEF Environment, Publish, Retire, UpdatePreference, MarkAllRead, MarkRead
  <2>2. CASE Tick
    <3>1. ASSUME NEW d \in Emails PROVE email'[d].status = email[d].status
      <4>1. /\ email'[d] = [email[d] EXCEPT !.wait = Before1(@),
                     !.age = IF email[d].status = "SENDING" THEN MinOf(@ + 1, Lease) ELSE @]
            /\ email[d] \in Row
        BY <2>2 DEF Tick, Row
      <4>2. QED
        BY <4>1 DEF Row
    <3>2. QED
      BY <3>1
  <2>3. QED
    BY <2>1, <2>2
<1>2. Entries' = Entries
  BY <1>1, EntriesStay
<1>3. source' \in [Events -> SourceStatus] /\ \A e \in Events : source[e] # "DRAFT" => source'[e] # "DRAFT"
  BY DEF Environment, Publish, Retire, UpdatePreference, MarkAllRead, MarkRead, Tick, SourceStatus
<1>4. QED
  BY <1>2, <1>3 DEF Entries, SourceStatus, Ledger!Next, Ledger!Govern, Ledger!Status

LEMMA LedgerOpens ==
  ASSUME TypeOK, NEW w \in Workers, HandleRequest(w)
  PROVE  [Ledger!Next]_<<source, Entries>>
<1> USE DEF TypeOK
<1> PICK r \in Requests : SkipRequest(w, r) \/ RejectRequest(w, r) \/ FanOut(w, r)
  BY DEF HandleRequest
<1> DEFINE d == OwnedBy(r)
<1>1. source' = source /\ d \in Emails /\ d[1] = r[1]
  BY OwnedIsEmail DEF SkipRequest, RejectRequest, FanOut, TakeRequest, OwnedBy
<1>2. CASE SkipRequest(w, r) \/ RejectRequest(w, r) \/ email[d].status # "NONE"
  <2>1. \A c \in Emails : email'[c] = email[c]
    BY <1>2 DEF SkipRequest, RejectRequest, FanOut, UpsertEmail
  <2>2. QED
    BY <1>1, <2>1, EntriesStay
<1>3. CASE FanOut(w, r) /\ email[d].status = "NONE"
  <2>1. /\ source[d[1]] = "PUBLISHED" /\ email'[d].status \in {"QUEUED", "SUPPRESSED"}
        /\ \A c \in Emails \ {d} : email'[c] = email[c]
    BY <1>1, <1>3 DEF FanOut, SourcePublished, UpsertEmail, NewEmail, EmailStatusFor
  <2>2. LedgerEntry(d)' \in {"owed", "declined"} /\ Entries[d] = "none"
    BY <1>1, <1>3, <2>1 DEF LedgerEntry, Entries
  <2>3. Entries' = [Entries EXCEPT ![d] = LedgerEntry(d)']
    BY <1>1, <2>1, EntryMoves
  <2>4. Ledger!Open(d)
    BY <1>1, <2>1, <2>2, <2>3 DEF Ledger!Open, Entries
  <2>5. QED
    BY <1>1, <2>4 DEF Ledger!Next
<1>4. QED
  BY <1>2, <1>3

\* The row a worker settles or claims is owed.
LEMMA LedgerSettles ==
  ASSUME MaxSend < Lease, Fanned, ClaimsAreFresh, NEW w \in Workers,
         HandleEmail(w) \/ RecordSent(w) \/ RecordFailed(w)
  PROVE  [Ledger!Next]_<<source, Entries>>
<1> USE DEF Fanned, TypeOK
<1>1. source' = source
  BY DEF HandleEmail, SkipEmail, SuppressEmail, Claim, TakeEmail, RecordSent, RecordFailed, Release
<1>2. ASSUME NEW d \in Emails, email[d].status \in {"QUEUED", "SENDING", "FAILED"},
             email'[d].status \in {"SENDING", "FAILED", "SENT", "SUPPRESSED"},
             \A c \in Emails \ {d} : email'[c] = email[c]
      PROVE  [Ledger!Next]_<<source, Entries>>
  <2>1. Entries[d] = "owed" /\ Entries' = [Entries EXCEPT ![d] = LedgerEntry(d)']
    BY <1>2, EntryMoves DEF Entries, LedgerEntry
  <2>2. LedgerEntry(d)' \in {"owed", "delivered", "declined"}
    BY <1>2 DEF LedgerEntry
  <2>3. CASE LedgerEntry(d)' = "owed"
    BY <1>1, <2>1, <2>3 DEF Entries
  <2>4. CASE LedgerEntry(d)' \in {"delivered", "declined"}
    <3>1. Ledger!Settle(d)
      BY <1>1, <2>1, <2>4 DEF Ledger!Settle, Entries
    <3>2. QED
      BY <3>1 DEF Ledger!Next
  <2>5. QED
    BY <2>2, <2>3, <2>4
<1>3. CASE HandleEmail(w)
  <2> PICK d \in Emails : SkipEmail(w, d) \/ SuppressEmail(w, d) \/ Claim(w, d)
    BY <1>3 DEF HandleEmail
  <2>1. CASE SkipEmail(w, d)
    BY <1>1, <2>1, EntriesStay DEF SkipEmail
  <2>2. CASE SuppressEmail(w, d) \/ Claim(w, d)
    <3>1. email[d].status \in {"QUEUED", "SENDING", "FAILED"}
      <4>1. email[d].status # "NONE"
        BY <2>2 DEF SuppressEmail, Claim, TakeEmail, IsFirst, Listed
      <4>2. QED
        BY <2>2, <4>1 DEF SuppressEmail, Claim, Settled, EmailStatus
    <3>2. \A c \in Emails \ {d} : email'[c] = email[c]
      BY <2>2 DEF SuppressEmail, Claim
    <3>3. email'[d].status \in {"SENDING", "SUPPRESSED"}
      <4>1. email[d] \in Row
        BY DEF Row
      <4>2. CASE SuppressEmail(w, d)
        BY <4>1, <4>2 DEF SuppressEmail, Row
      <4>3. CASE Claim(w, d)
        BY <4>1, <4>3 DEF Claim, Row
      <4>4. QED
        BY <2>2, <4>2, <4>3
    <3>4. QED
      BY <1>2, <3>1, <3>2, <3>3
  <2>3. QED
    BY <2>1, <2>2
<1>4. CASE RecordSent(w) \/ RecordFailed(w)
  <2>1. current[w] \in Emails /\ email[current[w]].status = "SENDING"
    BY <1>4 DEF RecordSent, RecordFailed, InFlight, HasCurrent, ClaimsAreFresh, Holds
  <2>2. \A c \in Emails \ {current[w]} : email'[c] = email[c]
    BY <1>4 DEF RecordSent, RecordFailed
  <2>3. email'[current[w]].status \in {"SENT", "FAILED"}
    <3>1. email[current[w]] \in Row
      BY <2>1 DEF Row
    <3>2. CASE RecordSent(w)
      BY <2>1, <3>1, <3>2 DEF RecordSent, Row
    <3>3. CASE RecordFailed(w)
      BY <2>1, <3>1, <3>3 DEF RecordFailed, Row
    <3>4. QED
      BY <1>4, <3>2, <3>3
  <2>4. QED
    BY <1>2, <2>1, <2>2, <2>3
<1>5. QED
  BY <1>3, <1>4

LEMMA LedgerStep ==
  ASSUME MaxSend < Lease, Fanned, ClaimsAreFresh, [Next]_vars
  PROVE  [Ledger!Next]_<<source, Entries>>
<1>1. ASSUME UNCHANGED <<source, email>> PROVE [Ledger!Next]_<<source, Entries>>
  BY <1>1, EntriesStay
<1>2. CASE UNCHANGED vars
  BY <1>1, <1>2 DEF vars, db
<1>3. CASE Environment \/ Tick
  BY <1>3, LedgerEnvironment DEF Fanned
<1>4. ASSUME NEW w \in Workers, BeginPass(w) \/ ListEmails(w) \/ EndPass(w) \/ Crash(w)
      PROVE  [Ledger!Next]_<<source, Entries>>
  BY <1>1, <1>4 DEF BeginPass, ListEmails, EndPass, Crash, db
<1>5. ASSUME NEW w \in Workers, SendAccepted(w) \/ SendRefused(w) \/ SendUnreported(w)
      PROVE  [Ledger!Next]_<<source, Entries>>
  BY <1>1, <1>5 DEF SendAccepted, SendRefused, SendUnreported, Answer, db
<1>6. ASSUME NEW w \in Workers, HandleRequest(w) PROVE [Ledger!Next]_<<source, Entries>>
  BY <1>6, LedgerOpens DEF Fanned
<1>7. ASSUME NEW w \in Workers, HandleEmail(w) \/ RecordSent(w) \/ RecordFailed(w)
      PROVE  [Ledger!Next]_<<source, Entries>>
  BY <1>7, LedgerSettles
<1>8. QED
  BY <1>2, <1>3, <1>4, <1>5, <1>6, <1>7 DEF Next, Step

\* When every send ends within the lease, the e-mail rows implement the ledger:
\* one entry per event and user at most, opened while its revision is the
\* published one, settled once and for good.
THEOREM LedgerIsKept == ASSUME MaxSend < Lease PROVE Spec => RefinesLedger
<1>1. Init => Ledger!Init
  <2> SUFFICES ASSUME Init PROVE Ledger!Init
    OBVIOUS
  <2>1. \A d \in Emails : LedgerEntry(d) = "none"
    BY DEF Init, Missing, LedgerEntry
  <2>2. QED
    BY <2>1 DEF Init, Ledger!Init
<1>2. Fanned /\ ClaimsAreFresh /\ [Next]_vars => [Ledger!Next]_<<source, Entries>>
  BY LedgerStep
<1>3. Ledger!Init /\ [][Ledger!Next]_<<source, Entries>> => RefinesLedger
  BY DEF RefinesLedger, Ledger!Spec, Entries
<1>4. QED
  BY <1>1, <1>2, <1>3, FannedInvariant, ClaimsInvariant, PTL DEF Spec
=============================================================================
