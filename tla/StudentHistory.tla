---------------------------- MODULE StudentHistory ----------------------------
(***************************************************************************)
(* The history of one enrollment: apps/api/modules/student_records/        *)
(* application/history.py, imports/application/history.py and the audit    *)
(* that follows every change (audit/application/services.py).              *)
(*                                                                         *)
(* A client reads an attempt or the preview of an import and sends one     *)
(* command with the version it saw.  A command is one transaction at READ  *)
(* COMMITTED: it locks rows one after the other, writes, audits what it    *)
(* then sees, and commits.  Inserting the audit run makes its commit wait  *)
(* for the rows its foreign keys name (KEY SHARE against FOR UPDATE), so   *)
(* transactions may wait in a circle; the database then aborts one.        *)
(*                                                                         *)
(* Resolving a candidate and uploading a file hold one lock that covers    *)
(* all they read and write, so each is one step.                           *)
(***************************************************************************)
EXTENDS HistoryParser

CONSTANTS
    Clients,
    Courses,     \* course versions, numbered in the order of their keys
    Terms,       \* academic terms, numbered likewise
    Codes,       \* the code each course version is known by
    Credits,     \* and its credits, None when they are not verified
    Files,       \* files that may be uploaded
    Contents,    \* what is in each of them
    Decisions,   \* decisions on a candidate, with the course they select
    Requests,    \* attempts a client may ask to have, by hand
    Closings,    \* course versions and the term from which they may be closed
    MaxAttempts, \* bound on attempts ever created
    MaxVersion,  \* bound on the version of an attempt
    MaxDecisions, \* bound on the decisions on a batch
    MaxFiles     \* bound on the files uploaded

Numbers == 1..MaxAttempts
Asked == [course : Courses, term : Terms, number : Numbers, status : {"PASSED", "FAILED"}]

ASSUME CatalogueAssumption ==
    /\ Courses \subseteq Nat /\ IsFiniteSet(Courses)
    /\ Terms \subseteq Nat /\ IsFiniteSet(Terms)
ASSUME BoundsAssumption == {MaxAttempts, MaxVersion, MaxDecisions, MaxFiles} \subseteq Nat
ASSUME InputAssumption ==
    /\ DOMAIN Contents = Files /\ DOMAIN Codes = Courses
    /\ Credits \in [Courses -> Nat \cup {None}]
    /\ Decisions \subseteq {"ACCEPT", "EXTERNAL", "SKIP"} \X (Courses \cup {None})
    /\ Requests \subseteq Asked /\ Closings \subseteq Courses \X Terms
ASSUME ContentsAssumption == \A f \in Files : IsFile(Contents[f])

Reports == [f \in Files |-> ReportOf(Contents[f])]
Rows == [f \in Files |-> IF Reports[f] = None THEN <<>> ELSE Reports[f].rows]

VARIABLES
    attempts,      \* CourseAttempt rows, by id; None is not created
    batches,       \* ImportBatch of each content, its candidates and decisions
    recognitions,  \* AcademicRecognition: the file, the row and the course
    audit,         \* what the latest DegreeAuditRun was computed from
    valid,         \* the terms each course version is valid in
    pc, view,      \* where each client stands and what it has read
    tx,            \* its transaction
    overlap        \* history: the latest audit overlapped another change

vars == <<attempts, batches, recognitions, audit, valid, pc, view, tx, overlap>>
stored == <<attempts, batches, recognitions, audit, overlap>>

-----------------------------------------------------------------------------
Ids == 1..MaxAttempts
Created == {i \in Ids : attempts[i] # None}
Overlay(writes) ==
    [i \in Ids |-> IF i \in DOMAIN writes THEN writes[i] ELSE attempts[i]]

\* build_audit_input: every attempt with its status, and the recognized courses.
Facts(rows, recognized) ==
    [attempts |-> {<<i, rows[i].course, rows[i].status>> : i \in {j \in Ids : rows[j] # None}},
     recognized |-> recognized]
NoFacts == [attempts |-> {}, recognized |-> {}]

NoTx == [kind |-> "none", id |-> None, target |-> None, held |-> {}, todo |-> {},
         writes |-> <<>>, recognized |-> {}, seen |-> NoFacts, alone |-> TRUE,
         older |-> {}, late |-> FALSE]
NoView == [of |-> None, version |-> 0, rows |-> <<>>]

Init ==
    /\ attempts = [i \in Ids |-> None]
    /\ batches = [f \in Files |-> None]
    /\ recognitions = {} /\ audit = NoFacts /\ overlap = FALSE
    /\ valid = Courses \X Terms
    /\ pc = [c \in Clients |-> "idle"]
    /\ view = [c \in Clients |-> NoView]
    /\ tx = [c \in Clients |-> NoTx]

Go(c, from, to) == pc[c] = from /\ pc' = [pc EXCEPT ![c] = to]

\* Row locks are asked for one after the other, every course before every term, each
\* sorted: what a transaction holds, what it asks for next, who waits for whom.
Foremost(todo) ==
    {r \in todo : \A q \in todo : IF q[1] = r[1] THEN r[2] <= q[2] ELSE r[1] = "course"}
Held(resource) == \E c \in Clients : resource \in tx[c].held
Allocated(c) == {fact \in tx[c].seen.attempts : fact[3] \in Approved}
Wanted(c) ==
    CASE pc[c] = "locking" -> Foremost(tx[c].todo)
      [] pc[c] = "written" -> {<<"attempt", fact[1]>> : fact \in Allocated(c)}
                                 \cup {<<"course", fact[2]>> : fact \in Allocated(c)}
      [] OTHER -> {}
WaitsFor(c, d) == c # d /\ Wanted(c) \cap tx[d].held # {}
Granted(c) == \A d \in Clients : ~WaitsFor(c, d)

-----------------------------------------------------------------------------
\* _credits: the credits of the course version, or none, and what a file states of them
\* has to be that.
Earned(course, status) == IF status \in Approved THEN Credits[course] ELSE 0
EarnedAsStated(course, status, stated) ==
    Earned(course, status) # None /\ stated \in {None, Earned(course, status)}

-----------------------------------------------------------------------------
(* What a client reads.                                                    *)

ReadAttempt(c, i) ==
    /\ Go(c, "idle", "attempt")
    /\ i \in Created
    /\ view' = [view EXCEPT ![c] = [NoView EXCEPT !.of = i, !.version = attempts[i].version]]
    /\ UNCHANGED <<stored, valid, tx>>

\* history_import_preview: the batch first, its candidates after.
ReadBatch(c, f) ==
    /\ Go(c, "idle", "batch")
    /\ batches[f] # None
    /\ view' = [view EXCEPT ![c] = [NoView EXCEPT !.of = f, !.version = batches[f].version]]
    /\ UNCHANGED <<stored, valid, tx>>

ReadCandidates(c) ==
    /\ Go(c, "batch", "preview")
    /\ view' = [view EXCEPT ![c].rows = batches[view[c].of].rows]
    /\ UNCHANGED <<stored, valid, tx>>

Leave(c) ==
    /\ pc[c] \in {"attempt", "preview"}
    /\ pc' = [pc EXCEPT ![c] = "idle"]
    /\ view' = [view EXCEPT ![c] = NoView]
    /\ UNCHANGED <<stored, valid, tx>>

-----------------------------------------------------------------------------
(* create_history_import, resolve_history_candidate.                       *)

\* _find_term_and_course: the versions of the course that were valid in the term, of
\* which the latest is suggested.
Versions(row) == {c \in Courses : Codes[c] = row.course /\ <<c, row.term>> \in valid}
Suggested(row) == IF Versions(row) = {} THEN None ELSE Max(Versions(row))

\* _existing_conflicts: an attempt in that term or with that number.
Conflicts(row) ==
    {i \in Created : /\ attempts[i].course = Suggested(row)
                     /\ \/ attempts[i].term = row.term
                        \/ attempts[i].number = row.number}

\* _candidate_status, and the decision taken without a person.
StatusOf(row) ==
    CASE \/ row.errors # {} \/ row.term \notin Terms
         \/ Versions(row) = {} /\ row.external = None      -> "ERROR"
      [] /\ row.errors = {} /\ row.term \in Terms
         /\ \/ Versions(row) = {} /\ row.external # None
            \/ Cardinality(Versions(row)) > 1
            \/ Versions(row) # {} /\ Conflicts(row) # {}   -> "CONFLICT"
      [] OTHER -> "VALID"
Candidate(row) ==
    LET auto == StatusOf(row) = "VALID" /\ ~row.review IN
    [status |-> IF auto THEN "RESOLVED" ELSE StatusOf(row),
     decision |-> IF auto THEN "ACCEPT" ELSE "PENDING", suggested |-> Suggested(row),
     course |-> IF auto THEN Suggested(row) ELSE None, manual |-> FALSE, version |-> 1]
NewBatch(f) ==
    [status |-> "PREVIEW", version |-> 1,
     rows |-> [i \in DOMAIN Rows[f] |-> Candidate(Rows[f][i])]]

\* A file that is refused leaves nothing; content that is known answers with its batch.
Upload(c, f) ==
    /\ Go(c, "idle", "batch")
    /\ Reports[f] # None
    /\ Cardinality({g \in Files : batches[g] # None} \cup {f}) <= MaxFiles
    /\ batches' = [batches EXCEPT ![f] = IF @ = None THEN NewBatch(f) ELSE @]
    /\ view' = [view EXCEPT ![c] = [NoView EXCEPT !.of = f, !.version = batches'[f].version]]
    /\ UNCHANGED <<attempts, recognitions, audit, overlap, valid, tx>>

\* The course a decision selects: the one chosen, or for ACCEPT the suggested one.
Selected(f, i, decision, course) ==
    IF decision = "ACCEPT" /\ course = None THEN batches[f].rows[i].suggested ELSE course
MayResolve(c, i, decision, course) ==
    LET f == view[c].of IN
    /\ batches[f].status # "APPLIED"
    /\ view[c].rows[i].version = batches[f].rows[i].version
    /\ batches[f].rows[i].status # "ERROR"
    /\ decision # "SKIP" => Selected(f, i, decision, course) # None
    /\ decision = "ACCEPT" =>
          <<Selected(f, i, decision, course), Rows[f][i].term>> \in valid

DecidedRow(row, decision, course) ==
    [row EXCEPT !.status = IF decision = "SKIP" THEN "SKIPPED" ELSE "RESOLVED",
                !.decision = decision, !.course = course, !.manual = TRUE, !.version = @ + 1]
\* Mutant: the batch is not touched.
ResolvedQuietly(batch, i, decision, course) ==
    [batch EXCEPT !.rows[i] = DecidedRow(@, decision, course)]
Resolved(batch, i, decision, course) ==
    [batch EXCEPT !.version = @ + 1, !.rows[i] = DecidedRow(@, decision, course)]

Resolve(c, i, decision, course) ==
    LET f == view[c].of IN
    /\ Go(c, "preview", "idle")
    /\ ~Held(<<"batch", f>>)
    /\ MayResolve(c, i, decision, course)
    /\ batches[f].version <= MaxDecisions
    /\ batches' = [batches EXCEPT ![f] =
                      Resolved(@, i, decision, Selected(f, i, decision, course))]
    /\ view' = [view EXCEPT ![c] = NoView]
    /\ UNCHANGED <<attempts, recognitions, audit, overlap, valid, tx>>

-----------------------------------------------------------------------------
(* The commands that change attempts: what each locks first and then.      *)

Begin(c, from, kind, id, target, held, todo) ==
    /\ Go(c, from, "locking")
    /\ tx' = [tx EXCEPT ![c] =
          [NoTx EXCEPT !.kind = kind, !.id = id, !.target = target,
                       !.held = held, !.todo = todo]]
    /\ UNCHANGED <<stored, valid, view>>

\* _validate_course_version_term locks the course version, then the term.
\* Mutant: only the term is locked.
PairLocksTerm(course, term) == {<<"term", term>>}
PairLocks(course, term) == {<<"course", course>>, <<"term", term>>}

Attempt(course, term, number, status) ==
    [course |-> course, term |-> term, number |-> number, status |-> status,
     credits |-> Earned(course, status), file |-> None, row |-> 0, version |-> 1]

CreateManual(c, course, term, number, status) ==
    Begin(c, "idle", "create", None, Attempt(course, term, number, status), {},
          PairLocks(course, term))

\* The row is locked and its version is still the one the client saw.
Edits(c) ==
    /\ ~Held(<<"attempt", view[c].of>>)
    /\ attempts[view[c].of].version = view[c].version
    /\ view[c].version < MaxVersion

Update(c, course, term, status) ==
    LET i == view[c].of IN
    /\ pc[c] = "attempt" /\ Edits(c)
    /\ Begin(c, "attempt", "update", i,
             [attempts[i] EXCEPT !.course = course, !.term = term, !.status = status,
                                 !.credits = Earned(course, status), !.version = @ + 1],
             {<<"attempt", i>>}, PairLocks(course, term))

Annul(c) ==
    LET i == view[c].of IN
    /\ pc[c] = "attempt" /\ Edits(c)
    /\ Begin(c, "attempt", "annul", i,
             [attempts[i] EXCEPT !.status = "ANNULLED", !.version = @ + 1],
             {<<"attempt", i>>}, {})

\* confirm_history_import: a batch that is applied is answered, not applied again.
\* Mutant: it is.
MayConfirmAgain(f, version) ==
    /\ batches[f].version = version \/ batches[f].status = "APPLIED"
    /\ ~Reports[f].incomplete
    /\ \A i \in DOMAIN batches[f].rows :
          /\ batches[f].rows[i].status # "ERROR"
          /\ batches[f].rows[i].decision # "PENDING"
MayConfirm(f, version) ==
    /\ batches[f].status = "PREVIEW"
    /\ batches[f].version = version
    /\ ~Reports[f].incomplete
    /\ \A i \in DOMAIN batches[f].rows :
          /\ batches[f].rows[i].status # "ERROR"
          /\ batches[f].rows[i].decision # "PENDING"

Accepted(f) == {i \in DOMAIN Rows[f] : batches[f].rows[i].decision = "ACCEPT"}
ConfirmLocks(f) ==
    UNION {PairLocks(batches[f].rows[i].course, Rows[f][i].term) : i \in Accepted(f)}

Confirm(c) ==
    LET f == view[c].of IN
    /\ pc[c] = "preview"
    /\ ~Held(<<"batch", f>>)
    /\ MayConfirm(f, view[c].version)
    /\ Begin(c, "preview", "confirm", f, None, {<<"batch", f>>}, ConfirmLocks(f))

LockNext(c) ==
    /\ pc[c] = "locking" /\ Granted(c)
    /\ \E r \in Foremost(tx[c].todo) :
          tx' = [tx EXCEPT ![c].held = @ \cup {r}, ![c].todo = @ \ {r}]
    /\ UNCHANGED <<stored, valid, pc, view>>

-----------------------------------------------------------------------------
(* With its locks a command checks, writes and audits, all uncommitted.    *)

Used(rows, course, but) ==
    {rows[i].number : i \in {j \in Ids \ {but} : rows[j] # None /\ rows[j].course = course}}
Greatest(S) == CHOOSE n \in S : \A m \in S : m <= n
\* _next_attempt_number
NextNumber(rows, course, requested) ==
    IF requested \in Used(rows, course, 0) THEN Greatest(Used(rows, course, 0)) + 1 ELSE requested

\* Ids come from a sequence: those of uncommitted rows are taken.
Taken == Created \cup UNION {DOMAIN tx[c].writes : c \in Clients}
Fresh(writes) ==
    CHOOSE i \in Ids \ (Taken \cup DOMAIN writes) :
        \A j \in Ids \ (Taken \cup DOMAIN writes) : i <= j

Adding(writes, id, attempt) ==
    [i \in DOMAIN writes \cup {id} |-> IF i = id THEN attempt ELSE writes[i]]

\* The attempts confirm_history_import inserts, row after row.
WithRow(f, n, before) ==
    LET row == batches[f].rows[n]
        number == NextNumber(Overlay(before), row.course, Rows[f][n].number)
        attempt == [Attempt(row.course, Rows[f][n].term, number, Rows[f][n].status)
                    EXCEPT !.file = f, !.row = n]
    IN  IF n \in Accepted(f) THEN Adding(before, Fresh(before), attempt) ELSE before
Imported(f) ==
    LET upTo[n \in 0..Len(Rows[f])] == IF n = 0 THEN <<>> ELSE WithRow(f, n, upTo[n - 1])
    IN  upTo[Len(Rows[f])]
Recognized(f) ==
    {<<f, i, batches[f].rows[i].course>> :
        i \in {j \in DOMAIN Rows[f] : batches[f].rows[j].decision = "EXTERNAL"}}

Room(n) == Cardinality(Ids \ Taken) >= n
Writes(c) ==
    CASE tx[c].kind = "create" -> Adding(<<>>, Fresh(<<>>), tx[c].target)
      [] tx[c].kind = "confirm" -> Imported(tx[c].id)
      [] tx[c].kind = "annul" /\ attempts[tx[c].id].status = "ANNULLED" -> <<>>
      [] OTHER -> Adding(<<>>, tx[c].id, tx[c].target)
\* The pair is looked at again under the locks.  A recognition counts as a transfer.
RowsStillAllowed(f) ==
    \A i \in DOMAIN Rows[f] :
        LET row == batches[f].rows[i]
        IN CASE row.decision = "ACCEPT" ->
                  /\ <<row.course, Rows[f][i].term>> \in valid
                  /\ EarnedAsStated(row.course, Rows[f][i].status, Rows[f][i].credits)
             [] row.decision = "EXTERNAL" -> EarnedAsStated(row.course, "TRANSFERRED", Rows[f][i].credits)
             [] OTHER -> TRUE

\* Mutant: it is not.
StillAllowedUnchecked(c) ==
    tx[c].kind \in {"create", "update"} =>
        tx[c].target.number \notin Used(attempts, tx[c].target.course,
                                        IF tx[c].kind = "update" THEN tx[c].id ELSE 0)
StillAllowed(c) ==
    /\ tx[c].kind \in {"create", "update"} =>
          /\ tx[c].target.number \notin Used(attempts, tx[c].target.course,
                                             IF tx[c].kind = "update" THEN tx[c].id ELSE 0)
          /\ <<tx[c].target.course, tx[c].target.term>> \in valid
          /\ tx[c].target.credits # None
    /\ tx[c].kind = "confirm" => RowsStillAllowed(tx[c].id)

\* What run_degree_audit sees: what is committed, and this transaction's own rows.
\* Mutant: the audit runs before the rows are written.
SeenTooEarly(writes, recognized) == Facts(attempts, recognitions)
Seen(writes, recognized) == Facts(Overlay(writes), recognitions \cup recognized)

InFlight == {c \in Clients : pc[c] = "written"}

Write(c) ==
    /\ tx[c].todo = {}
    /\ StillAllowed(c)
    /\ tx[c].kind = "create" => Room(1)
    /\ tx[c].kind = "confirm" => Room(Cardinality(Accepted(tx[c].id)))
    /\ Go(c, "locking", "written")
    /\ LET recognized == IF tx[c].kind = "confirm" THEN Recognized(tx[c].id) ELSE {}
       IN  tx' = [tx EXCEPT ![c].writes = Writes(c),
                            ![c].recognized = recognized,
                            ![c].seen = Seen(Writes(c), recognized),
                            ![c].older = InFlight]
    /\ UNCHANGED <<stored, valid, view>>

\* What an end of c's transaction leaves in the others: a run that started before
\* theirs is no longer in flight, and if it committed they did not see it.
EndOf(c, committed) ==
    [d \in Clients |->
        IF d = c THEN NoTx
        ELSE [tx[d] EXCEPT !.older = @ \ {c},
                           !.alone = @ /\ ~(committed /\ pc[d] = "written"),
                           !.late = @ \/ (committed /\ d \in tx[c].older)]]

\* Purging the raw rows of an applied batch touches every candidate.
Touched(row) == [row EXCEPT !.version = @ + 1]
Applied(batch) ==
    [batch EXCEPT !.status = "APPLIED", !.version = @ + 1,
                  !.rows = [i \in DOMAIN batch.rows |-> Touched(batch.rows[i])]]

\* The latest run is the one generated last, not the one committed last.
Commit(c) ==
    LET t == tx[c] IN
    /\ Granted(c)
    /\ Go(c, "written", "idle")
    /\ attempts' = Overlay(t.writes)
    /\ recognitions' = recognitions \cup t.recognized
    /\ audit' = IF t.late THEN audit ELSE t.seen
    /\ overlap' = (t.late \/ ~t.alone)
    /\ batches' = IF t.kind = "confirm" THEN [batches EXCEPT ![t.id] = Applied(@)]
                  ELSE batches
    /\ tx' = EndOf(c, TRUE)
    /\ view' = [view EXCEPT ![c] = NoView]
    /\ UNCHANGED valid

\* A refusal, an integrity error, or the database breaking a circle of waits.
RollBack(c) ==
    /\ \/ pc[c] = "locking" /\ tx[c].todo = {} /\ ~StillAllowed(c)
       \/ \E d \in Clients : WaitsFor(c, d) /\ WaitsFor(d, c)
    /\ pc' = [pc EXCEPT ![c] = "idle"]
    /\ tx' = EndOf(c, FALSE)
    /\ view' = [view EXCEPT ![c] = NoView]
    /\ UNCHANGED <<stored, valid>>

\* The catalogue closes a course version from some term on; it locks the version.
Close(course, term) ==
    /\ ~Held(<<"course", course>>)
    /\ <<course, term>> \in valid
    /\ valid' = {p \in valid : p[1] # course \/ p[2] < term}
    /\ UNCHANGED <<stored, pc, view, tx>>

Next ==
    \/ \E c \in Clients :
          \/ \E i \in Ids : ReadAttempt(c, i)
          \/ \E f \in Files : ReadBatch(c, f)
          \/ \E f \in Files : Upload(c, f)
          \/ ReadCandidates(c) \/ Leave(c)
          \/ \E i \in DOMAIN view[c].rows, p \in Decisions : Resolve(c, i, p[1], p[2])
          \/ \E q \in Requests :
                \/ CreateManual(c, q.course, q.term, q.number, q.status)
                \/ Update(c, q.course, q.term, q.status)
          \/ Annul(c) \/ Confirm(c) \/ LockNext(c) \/ Write(c) \/ Commit(c) \/ RollBack(c)
    \/ \E p \in Closings : Close(p[1], p[2])

Spec == Init /\ [][Next]_vars

-----------------------------------------------------------------------------
Kinds == {"none", "create", "update", "annul", "confirm"}
Places == {"idle", "attempt", "batch", "preview", "locking", "written"}
Statuses == AttemptStatus \cup UNION {{Rows[f][i].status : i \in DOMAIN Rows[f]} : f \in Files}
AttemptRow ==
    [course : Courses, term : Terms, number : Nat, status : Statuses, credits : Nat \cup {None},
     file : Files \cup {None}, row : Nat, version : Nat]
CandidateRow ==
    [status : {"ERROR", "CONFLICT", "VALID", "RESOLVED", "SKIPPED"},
     decision : {"PENDING", "ACCEPT", "EXTERNAL", "SKIP"}, suggested : Courses \cup {None},
     course : Courses \cup {None}, manual : BOOLEAN, version : Nat]
Batch(f) ==
    [status : {"PREVIEW", "APPLIED"}, version : Nat, rows : [DOMAIN Rows[f] -> CandidateRow]]
ASSUME RowAssumption ==
    /\ None \notin AttemptRow \cup Files \cup Courses
    /\ \A f \in Files : None \notin Batch(f)

Recognition == UNION {{f} \X (DOMAIN Rows[f]) \X (Courses \cup {None}) : f \in Files}
Resources ==
    ({"course"} \X Courses) \cup ({"term"} \X Terms) \cup ({"attempt"} \X Ids) \cup ({"batch"} \X Files)
View ==
    [of : Ids \cup Files \cup {None}, version : Nat,
     rows : {<<>>} \cup UNION {[DOMAIN Rows[f] -> CandidateRow] : f \in Files}]
AuditInput == [attempts : SUBSET (Ids \X Courses \X Statuses), recognized : SUBSET Recognition]
Uncommitted == UNION {[D -> AttemptRow] : D \in SUBSET Ids}
Transaction ==
    [kind : Kinds, id : Ids \cup Files \cup {None}, target : AttemptRow \cup {None},
     held : SUBSET Resources, todo : SUBSET Resources,
     writes : Uncommitted, recognized : SUBSET Recognition, seen : AuditInput,
     alone : BOOLEAN, older : SUBSET Clients, late : BOOLEAN]

TypeOK ==
    /\ attempts \in [Ids -> AttemptRow \cup {None}]
    /\ DOMAIN batches = Files /\ \A f \in Files : batches[f] \in Batch(f) \cup {None}
    /\ recognitions \subseteq Recognition
    /\ audit \in AuditInput
    /\ valid \subseteq Courses \X Terms
    /\ pc \in [Clients -> Places] /\ view \in [Clients -> View]
    /\ tx \in [Clients -> Transaction] /\ overlap \in BOOLEAN

\* No insert or change ever meets the unique constraint of (course, number): the lock
\* of the course version decides before the database has to, across all clients.
NumbersNeverCollide ==
    \A c \in InFlight : \A i \in DOMAIN tx[c].writes :
        \A j \in Ids \ {i} :
            LET others == {attempts[j]} \cup
                    {tx[d].writes[j] : d \in {e \in InFlight : j \in DOMAIN tx[e].writes}}
            IN  \A row \in others \ {None} :
                    row.course = tx[c].writes[i].course => row.number # tx[c].writes[i].number

\* What is imported is what the file states.  No record of an applied file is left out,
\* and an attempt that was not corrected since has the status and the credits stated;
\* what was not approved earned nothing.  Of two columns for the credits the first counts.
Records(f) == IF Contents[f].format = "PDF" THEN Lines(Contents[f].pages) ELSE Contents[f].pages[1]

AppliedAsStated(f) ==
    /\ \A p \in DOMAIN Contents[f].pages : Contents[f].pages[p] # None
    /\ \A i \in DOMAIN Records(f) : Records(f)[i] # None
    /\ Len(Rows[f]) = Len(Records(f))
    /\ \A i \in Created :
          LET a == attempts[i]
              line == Records(f)[a.row]
              credits == IF "credits_earned" \in DOMAIN line THEN "credits_earned" ELSE "credits"
          IN a.file = f /\ a.version = 1 =>
                /\ a.status = line["status"]
                /\ credits \in DOMAIN line /\ (Contents[f].format = "PDF" => credits # "credits") =>
                      line[credits] \in {None, a.credits}
                /\ a.credits # 0 => a.status \in Approved

EachRowOnce ==
    \A f \in {g \in Files : batches[g] # None} : \A i \in DOMAIN Rows[f] :
        LET applied == batches[f].status = "APPLIED"
            decision == batches[f].rows[i].decision
        IN  /\ Cardinality({j \in Created : attempts[j].file = f /\ attempts[j].row = i})
                  = IF applied /\ decision = "ACCEPT" THEN 1 ELSE 0
            /\ Cardinality({r \in recognitions : r[1] = f /\ r[2] = i})
                  = IF applied /\ decision = "EXTERNAL" THEN 1 ELSE 0

\* A batch is applied exactly once and completely: every accepted row of an applied
\* batch has its one attempt, every external row its one recognition, a skipped row
\* and a batch in preview have none; and what it adds is what the file states.
AppliedExactlyOnce ==
    /\ EachRowOnce
    /\ \A f \in Files : batches[f] # None /\ batches[f].status = "APPLIED" => AppliedAsStated(f)

\* A confirmation applies the decisions its author reviewed, all of them, whatever
\* other clients decided since.
ConfirmsWhatWasReviewed ==
    \A c \in Clients :
        tx[c].kind = "confirm" =>
            \A i \in DOMAIN view[c].rows :
                /\ view[c].rows[i].decision = batches[tx[c].id].rows[i].decision
                /\ view[c].rows[i].course = batches[tx[c].id].rows[i].course

\* An attempt is written only in a term its course version is valid in, also when the
\* version is closed between the preview, the locks and the commit.
WrittenInAValidTerm ==
    \A c \in InFlight : tx[c].kind \in {"create", "update", "confirm"} =>
        \A i \in DOMAIN tx[c].writes :
            <<tx[c].writes[i].course, tx[c].writes[i].term>> \in valid

\* Changes that do not overlap leave the latest audit computed from exactly the
\* history there is.
SerialAuditIsCurrent == ~overlap => audit = Facts(attempts, recognitions)
=============================================================================
