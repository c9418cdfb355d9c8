# A formal model of Mallas

Mallas keeps the curriculum of a university: the normative revisions of a plan,
the students enrolled under each of them, the audit of a student's progress, and
plans for the terms ahead. The server (`apps/api`) is a Django application over
PostgreSQL; `domain/` holds the pure algorithms, `modules/*/application/` the
services that change state, `modules/*/models.py` the tables with their
constraints and the guards of `save()`.

This directory holds TLA+ modules for the parts where state changes hands between
concurrent requests and workers and for the algorithms that judge a student, the
TLC configurations that check them, and proofs, checked by TLAPS, of the results
that matter most.

    tlc -config Publication.cfg MCPublication.tla     # one run
    tlapm Publication_proofs.tla                      # one proof module

Paths below are relative to `apps/api/modules/` unless they start with `domain/`
or `docs/`.

## 1. The system

| Component | State | Operations | What makes it hard |
|---|---|---|---|
| Editorial proposals (`governance`) | `ChangeProposal.status`, extraction candidates, `Publication`, `PublicationEvent`, `PublicationImpact` | submit, review, publish, review of candidates | READ COMMITTED transactions over several rows; sibling proposals share a revision; statuses read before a lock and written after it |
| Revision lifecycle (`curriculum`) | `CurriculumRevision.status`, `supersedes`, content | publish, supersede, retire, `save()` | guards in `save()` that read without a lock; one published revision per plan |
| Curriculum ingestion (`imports`) | the revision's content, shared course versions, its proposal, diff and candidates | validation, comparison, `import_curriculum_baseline` | one long transaction, repeated on the same draft, that locks rows above the revision; versions of courses belong to several revisions and plans |
| Offerings (`offerings`) | terms, sources, offers and their sections | import of a file, terms API, what a student is told | files out of order, other sources, a catalogue that moves on underneath |
| Notifications | outbox, events, deliveries per channel, preferences | fan-out, e-mail claim, send, record, read marks | several workers, leases, killed workers, lost answers, retries, back-off |
| Optimization runs | `OptimizationRun`, process-local job table | create, execute, cancel | threads, a cancel flag, capacity, restarts |
| Planning scenarios | scenario, preference, planned courses, projection, version, share token | view, edit, create, duplicate, share | views of three queries, optimistic versions, derived data stored beside its source |
| Student history, history import | files, attempts, batches with candidates and decisions, recognitions, audit runs | create, update, annul, upload, resolve, confirm | row locks on course versions and terms, versions seen earlier, audits computed from rows that other requests change |
| Assignment policies | policies, sealed evidence, advisory locks | edit, submit, publish, resolve | overlapping intervals, checked under an advisory lock |
| Student administration | enrollments, admission facts, decisions, override authorizations | verify, preview, create, move, re-evaluate, override, confirm identity | previews outside of the transaction, one-time consumption of facts, two-person approval |
| Degree audit, rules (`domain/`) | none | pure functions | greedy allocation of credits, logic with an unknown |
| Validator, solver, schedules (`domain/`) | none | pure functions | a plan judged before it happened, one set of rules stated twice, overlap across zones and weeks |
| Map, graph, overview, analytics | none; stored audits are read | read only | several pages that answer one question from different data |

How they interact. An import writes a draft revision and a proposal. Review and
publication move the proposal and the revision together. A publication, in one
transaction, supersedes the current revision, writes its receipt and event, and
one impact and one outbox row per affected enrollment. The notification workers
read the outbox and the revision's status, nothing else of governance. An
enrollment gets its revision from a policy, or by an override; a revision must
have been published for either. A change of the history of an enrollment, by hand
or by a file, audits it; a scenario reads the history and the revision's
requirements, and an optimization run reads the scenario. Offers attach to course
versions, which imports of curricula create; the map, the planner and the optimizer
read them. The overview and the analytics read stored or fresh audits.

`PROJECT.json` lists all components, also those that are left out, and the
hazards of this code with the properties that watch them.

## 2. The modules

| Module | What it is |
|---|---|
| `Notifications` | outbox, fan-out and e-mail workers; safety and liveness |
| `NotificationLedger` | what the e-mail channel promises, which `Notifications` implements |
| `Publication` | imports, reviews and publications over one plan's revisions |
| `RunLifecycle` | what a client of optimization runs may rely on |
| `OptimizationRuns` | runs, job tables, thread pools and cancel requests; implements `RunLifecycle` |
| `Scenarios` | planning scenarios of one enrollment, viewed and edited in several tabs |
| `StudentHistory` | attempts of one enrollment, by hand and from files, and their audits |
| `AssignmentPolicies` | policies from draft to publication, and the resolver |
| `StudentAdministration` | enrollments, facts and overrides on top of `AssignmentPolicies`, which it implements |
| `HistoryParser` | what is read from a file of history; used by `StudentHistory` |
| `AuditRules` | the rule evaluator, every kind of rule |
| `DegreeAudit` | records, ledger, groups, components, requirements, verdict |
| `TermPlan` | the validator of a plan, `Schedule` the clashes of meetings |
| `PlanSolver` | the input, the constraints and the objectives of the optimizer |
| `CurriculumGraph` | dependencies between courses and conditions: the nodes and edges of a rule |
| `GraphSearches` | what is reached along them: descendants, paths, cycles, levels |
| `AcademicOverview` | what remains, what may be taken next, and the page that says so |
| `CurriculumPages` | the pages of the map and of the graph |
| `Analytics` | figures for a student and for the institution |
| `StudentRecord` | a student's record and a plan that grow fact by fact: the states and steps over which the algorithms are compared |
| `StudentPages` | what students and the institution are shown of a record, compared with the audit and the planner |
| `StudentProgress` | the same, with the searches of the graph and of the map |
| `CurriculumBaseline` | the file a revision is imported from: its validation and comparison |
| `BaselineRules` | the rules in such a file: which parse, which are valid, what they count and depend on |
| `Catalogue` | the rows imports leave behind, proposals, and what an audit reads of them |
| `Offerings` | files of offers over the `Catalogue`, terms, and what students are told |
| `MC*` | instances for TLC |
| `*_proofs` | theorems, section 4 |

### Notifications

Code: `notifications/application/services.py`, `channels.py`, `models.py` and the
`process_notifications` command.

Each worker is one run of the command after another. A step is one transaction, or
one call of the mail provider:

| Action | Code |
|---|---|
| `BeginPass` | the query of the outbox, with the clock of the pass |
| `SkipRequest`, `RejectRequest`, `FanOut` | `materialize_outbox`, its three outcomes |
| `ListEmails`, `EndPass` | the query of the e-mails, the end of a pass |
| `SkipEmail`, `SuppressEmail`, `Claim` | the first transaction of `deliver_email` |
| `SendAccepted`, `SendRefused`, `SendUnreported` | `adapter.send` |
| `RecordSent`, `RecordFailed` | the last transaction of `deliver_email` |
| `Crash` | the command is killed |
| `Publish`, `Retire` | what governance does to the outbox and to the revision |
| `UpdatePreference`, `MarkRead`, `MarkAllRead` | the student |

Time is relative. A row holds the ticks left until it is due (`wait`) and the ticks
since its claim (`age`, which stops at the lease), so the clock needs no bound.
Attempts are counted up to the exponent at which the back-off stops growing. Two
comparisons of the code against a fixed clock stay as they are: the e-mails due
"now" are those due when the pass began (`dueEmails`), and `deliver_email` looks at
the status and the lease only, so a worker with an old list may deliver a row
whose back-off another worker has just set.

A claim whose worker was killed is never listed again, since a pass lists QUEUED and
FAILED rows only: the branch of `deliver_email` that takes over an old claim cannot be
reached from the command. `BacklogSettles` excepts exactly that claim (`Orphaned`). It
also excepts what is never listed. A pass takes the first rows only, and rows that fail
for ever come back in front of others: requests of a revision that is no longer the
published one, since outbox rows go by age, and e-mails that the provider never takes
(`Unsendable`), which go newest first. Up to the limit of some scheduled command, less one,
such rows only delay the others, and that is what the property says (`RoomBehind`); as many
as the limit starve them, and TLC shows that when the exception is taken away. A
message that the provider took although the call raised is mailed again, as
`DjangoEmailAdapter.send` drops the key that should make the retry idempotent;
`MailedOnceUnlessLost` says that nothing else does.

Abstracted: templates, payloads, the feed's cursor, error codes.

### Publication

Code: `governance/application/services.py`, `curriculum/application/services.py`,
`curriculum/models.py`, `imports/application/services.py`.

Requests run in transactions at READ COMMITTED. A step is a statement that can
wait for a row lock or that takes a snapshot of its own. The lock rules are those
of PostgreSQL:

* a row lock is kept to the end of the transaction (`rows`, `RowFree`);
* `SELECT ... FOR UPDATE` that waited reads the row again, and a row that no
  longer satisfies the query drops out (`Dropped`, `Drop`): `.first()` then
  returns nothing although another row may satisfy the query by now;
* `select_for_update().select_related(...)` locks the joined rows after the
  first one: the publisher of a revision also locks its plan, program, faculty
  and campus. The four are one row in the model, `Plan`, since every request that
  locks one of them locks them all, or (the import) locks the plan as well;
* `update_or_create` locks what it updates: an import holds the institution, then
  the campus down to the plan, from its first statement to its commit;
* the foreign keys of new rows are checked at commit, and such a check waits for
  a row locked FOR UPDATE, but not for one that is only being updated (`KeyFree`).
  Audit events name the institution, so no audited request commits while an
  import is running.

| Action | Code |
|---|---|
| `ImportBegin` ... `ImportCommit` | `import_curriculum_baseline`; `ImportSave` is the guard of `CurriculumRevision.save()` |
| `Submit`, `Review` / `LockReviewed` / `WriteDecision` | `submit_proposal`, `review_proposal` |
| `ReviewCandidate` | `review_candidate`, `apply_candidate_bulk` |
| `Publish`, `LockCandidate`, `LockPlan`, `FindCurrent`, `LockCurrent` | `publish_proposal` up to the call of the lifecycle service |
| `FindAgain`, `LockAgain`, `Apply` | `CurriculumRevisionService.publish`, the receipt, the event, the impacts |
| `Retire` | `CurriculumRevisionService.retire` |
| `Abort` | a deadlock victim, a killed request |

`content[r]` is the proposal whose import last wrote the revision's content, which
is all the properties ask of it. `Differing` are the proposals whose diff yields
extraction candidates. Permissions, ETags and the validation report only refuse a
request; the model lets them pass.

Requests may wait for one another: an import locks institution, plan, revision; a
review locks the revision and needs the institution for its audit event; a
publication locks the revision, then the plan. Two of them can close a circle, which
PostgreSQL breaks by failing one with an error no handler maps. `Abort` is that
failure, and it may come at any time.

The import of a sibling baseline rewrites the draft that an approved proposal points
to; no race is needed, and what is published may then not be what was approved. That is
how one draft per revision code works, so it is stated here and not as a property; what
the rows are afterwards is the subject of `Catalogue`.

Not modelled here: `supersede`, whose guard needs a successor that names its
predecessor before it is published, which nothing sets; withdrawal, which no
service performs; edits in the Django admin; the creation of enrollments (they are
fixed).

### OptimizationRuns

Code: `optimization/application/runs.py`, and `solve_optimization` in
`domain/optimization/solver.py`.

Two gunicorn workers (`infra/docker/api.Dockerfile`) each have their own `_jobs`
and their own thread pool. A run goes through the hands of the creating request
and then of a thread of the same process (`pc[r]`); cancel requests run in any
process. A step is one statement on the database, one critical section of
`_jobs_lock`, or one pass of the solver.

| Action | Code |
|---|---|
| `Create`, `Register`, `Reject` | `create_optimization_run` and the locked part of `submit_optimization_run` |
| `Submit`, `SubmitFails` | `_executor.submit` and its except clause |
| `Take` | the pool: one thread per job, jobs in the order they came (`ahead`) |
| `Start`, `Save` | the two writes of `execute_optimization_run` |
| `Preflight`, `SolvePass` | `solve_optimization`, up to the passes and one pass |
| `Fail`, `Release` | an exception in a job; the finally clause of `_execute_job` |
| `ReadRun`, `SetStop`, `RecordCancel` | `cancel_optimization_run`: the read, the event, the write |
| `Kill` | a process is killed, or replaced by gunicorn |

The event of a run is `stop[r]`; an event that has left its table is nobody's any
more and counts as not set. The result of a run is its status only: what a plan
contains and how it is explained is not part of the model. What a pass answers is
free, except that OPTIMAL needs the last pass and an event that is not set.

What the model also shows, without a run of its own: a run whose job failed or whose
process was replaced stays QUEUED or RUNNING, and cancelling it only writes a date
(`RunsEnd` excepts these, `Abandoned`); and a cancel request served by the other
process, or before the job is entered in the table, is recorded but never reaches
the event (`StoppedRunsEnd` starts from the event, not from the request).

### Scenarios

Code: `planning/application/scenarios.py`, `planning/models.py`.

A tab shows a scenario after three queries: the row with its version (`ReadRow`),
the preference (`ReadPreference`), the planned courses (`ReadCourses`). It then sends
an edit. `Lock` is `select_for_update`, `_version_check`, the conditions of the four
edit services (`Allowed`), and the recomputed projection; `Commit` writes all of it
and the view of the answer begins. `RollBack` is a name that another request took
meanwhile. The projection stands for the audit of the scenario: it is the set of the
course codes it was computed from. `Create` and `ReadSource`/`Duplicate`/`Insert`
are the services that write a new row, without any lock on the source.

Left out: target term, status, sections, priorities and notes (nothing depends on
them), and the audit and validation behind the projection, which are `DegreeAudit`
and `TermPlan`. `update_scenario` and the changes of a planned course need If-Match
in the API; adding a course does not, and `guarded = FALSE` is that call.

### StudentHistory

Code: `student_records/application/history.py`, `imports/application/history.py`,
`audit/application/services.py`.

One enrollment. A command (`CreateManual`, `Update`, `Annul`, `Confirm`) is a
transaction that takes its row locks one after the other (`LockNext`: course version,
then term, or for `Confirm` all course versions, then all terms), computes and writes
(`Write`), and commits (`Commit`). The audit is computed from what the transaction
sees at that moment (`Seen`): its own writes and what others have committed. `Upload`
and `Resolve` hold one lock over all they read and write and are one step each. The
lock rules are those of `Publication`; a circle of waiting is broken by `RollBack`.
`Close` is an administrator who ends the validity of a course version.

What an upload makes of its file is `HistoryParser`: a file is pages of lines, a line a
function from columns to values. Rows that are no records, pages that cannot be read and
the limit on rows are reported as issues of the batch; values that cannot be used, or
contradict the status, as errors of the row. `Lines` has the records in the order in which
they are read.

Left out: the idempotency key of a file's confirmation, storage and excerpts of the
file, enrollments in review, the retention purge, and the way around a conflict's note
(SKIP, then ACCEPT).

From reading and the model:

* Conflicts are looked for at the upload only. An attempt entered before the
  confirmation, by hand or from another file, is not seen; the import then takes the next
  free number, so the student may have two attempts in one term.
* `docs/29_IMPORTS.md:39` says that duplicates in a file wait for a decision;
  `duplicate_in_file` is only a warning, and two equal rows become attempts 1 and 2.
* A PDF with exactly as many rows as the limit is called incomplete and can never be
  confirmed; CSV and JSON of that length can. A JSON row that is no object blocks its
  batch for ever.
* A FAILED row decided EXTERNAL becomes a recognition with the full credits. An ENROLLED
  row that states credits is VALID in the preview and refused at the confirmation.
* Annulled attempts keep `credits_earned`; the audit reads the credits of the course
  version instead. Of two columns for one value the first that is present counts, even if
  it is empty.
* A purge of the candidates' raw rows before the confirmation leaves the evidence "{}";
  a purge of the file moves the batch's version, so that a reviewed preview is stale.

### AssignmentPolicies and StudentAdministration

Code: `curriculum/application/assignment.py`, `domain/curriculum_assignment.py`,
`curriculum/models.py`; `student_records/application/administration.py`,
`student_records/models.py`.

A policy is a draft that may be edited, then IN_REVIEW, then PUBLISHED. `LockPolicy`
takes its row, `Check` the advisory lock of its scope and the overlap check, `Commit`
seals or publishes it. `Resolution` is `resolve_curriculum_assignment`: the policies
that apply, of which the ones that may decide must agree. `Consult` and `Leave` are
the other user of the advisory lock, an enrollment request.

| Action | Code |
|---|---|
| `VerifyFact` | `verify_admission_fact` |
| `Preview`, `Enter`, `Create` | `preview_administered_*`, then `create_administered_enrollment` and `create_administered_transition_enrollment` up to and after the advisory lock |
| `ReadPending`, `Reevaluate`, `Settle` | `resolve_administered_enrollment_revision`: the row read without a lock, the resolver, the write |
| `PrepareOverride`, `ApproveOverride`, `OpenOverride`, `Override` | the two-person override and its use |
| `ConfirmIdentity` | `update_administered_identity` |
| `GiveUp` | a request that fails |

An override rests on an authorization that two people approved. Nothing marks it as used,
and nothing looks again at the revision it names, which may have been superseded since the
approval. That it is used once follows from the enrollment alone, which never waits for a
curriculum again (`OverrideBacksOneDecision`).

Left out: RETIRED revisions and SUPERSEDED policies, which no service writes; the
statuses COMPLETED, SUSPENDED and WITHDRAWN, set in the Django admin only; accounts,
roles and MFA. Worth knowing, from reading and the model: a third version of a policy
whose interval overlaps is refused for ever; a policy in review whose revision changed
status can never be published and blocks its scope; REENTRY from a TRANSITIONED source
leaves two active enrollments; the branch that lets a target inherit IDENTITY_REVIEW
cannot be reached.

### StudentRecord, StudentProgress and the algorithms they read

Code: `domain/rules/evaluator.py`, `domain/rules/graph.py`, `domain/audit/engine.py`,
`domain/planning/validator.py`, `domain/optimization/solver.py`,
`domain/offerings/schedule.py`, `audit/application/overview.py`,
`curriculum/application/map.py` and `graph.py`, `optimization/application/runs.py`,
`analytics/`.

`AuditRules`, `DegreeAudit`, `TermPlan`, `Schedule`, `PlanSolver`, `CurriculumGraph`,
`GraphSearches`, `AcademicOverview`, `CurriculumPages` and `Analytics` are operators, translated function
by function. `StudentRecord` makes them checkable: its state is one input of the audit
(`student`, built as `build_audit_input` does) and one plan of one study, and every step is
one more fact. `StudentPages` and `StudentProgress` add no state: the first holds the
properties of the pages and the analytics, the second those of the searches of the graph,
some of which are recursive operators, and of the map. Rules are
elements of `AuditRule`, a set that has with a rule the rules inside of it (`Children`), and
`Nesting` is how deep they go; so the evaluators are recursive functions over that set. What the algorithms answer is compared between two
states, between two algorithms, or with a definition of what they should answer: `Meets`,
the hours of the calendar, for clashes; the chains of courses for searches and levels;
all assignments that satisfy the constraints for the solver.

Meetings take place in whole hours of numbered days, zones are constant offsets:
daylight saving is left out. Zones more than a day apart are never compared by the
code either (neighbouring dates only).

The student whom the audit meets when a planned term begins (`StudentAt`) has passed what
was in progress and what the plan has for earlier terms, with the credits that the plan
shows, unknown ones included. There the two evaluators differ: for a passed course whose
credits nobody knows the audit answers UNKNOWN (`domain/rules/evaluator.py:291`) where the
validator says SATISFIED (`domain/planning/validator.py:173`). `PlanAgreesWithAudit` excepts
that case by name: the answers are equal, or the audit's is UNKNOWN and a rule names such a
course.

The evaluators. Rules are evaluated by the audit, by the validator and by the solver, and
they differ. `PlanAgreesWithAudit` and `ProposedPlansAreValid` are stated where they
should not:

* The validator ignores credits already earned, and the validator and the solver count
  planned credits only, for TOTAL_CREDITS and PERCENTAGE_OF_PLAN; the validator ignores
  recognitions, takes COURSE_IN_PROGRESS of a passed course as met, and does not project
  rules on groups, components, grades and external requirements.
* In the solver, NOT over a rule it cannot represent is true. It asks for rules that are
  not verified, considers all terms, past ones included, does not know recognitions or
  weekdays that are unavailable (the validator warns of those), does not take passed for
  in progress, and never proposes a course that asks for PERCENTAGE_OF_PLAN, which the
  validator may accept. These warnings are `Expected`; `Comparable` are the inputs on
  which a plan without warnings must be among the solver's.
* The validator has nothing against a plan that takes a passed course again.

The audit. The ledger is greedy in the order of course codes; a course of unknown
credits counts as zero credits, so a group can be UNSATISFIED that may be complete; the
verdict may be SATISFIED while a component is UNKNOWN, if a group is waived; no endpoint
passes external requirements, grades or inapplicable rules to the audit.

`PlanSolver` holds `build_optimization_input` (`SolverInput`), the checks of the input
(`InputValid`) and those made before the search (`Conflicts`, `FactsMissing`), the
constraints (`Solutions`) and the lexicographic objectives (`Optimal`). The search is
OR-Tools; its answer is some optimal solution. The courses of the input are those of the
revision, of the plan, and of any other scenario of the enrollment (`elsewhere`); the state
of an offer is that of the course in the term. A study plans a course at most once in a
term (`IsSolved`), since versions of one course are not told apart; in the code two
versions may be locked in one term, which the preflight reports as
LOCKED_COURSE_MULTIPLE_TERMS.

`AcademicOverview` is the end of `audit_degree` and the page of the student. Worth
knowing: it reads attempts but no recognitions; a waived group with mandatory courses
missing stays on the list of what remains although it is SATISFIED; a course offered
for an unfinished group may not help it, since the ledger may put its credits
elsewhere. The page is assumed to read an audit of the record it shows.

`CurriculumGraph` projects rules on edges, `GraphSearches` searches them: `Descendants`,
`Hops` (shortest chains), `FindCycles`, `Depths` (the levels of the map). `CurriculumPages`
puts the answers of the overview on map and graph. Worth knowing: the focus of the graph
computes the distance of ancestors in the wrong direction, so it is None unless they are
on a cycle; a shortest path to what a course unlocks may lead through a corequisite,
though descendants exclude corequisites; every condition inside of a rule shows the
status of the whole requirement; the map takes the latest version of a course in the
institution, drafts included, where the audit reads the membership's version and the
planner the one in force at the term; and it shows the states of the enrollment's own
revision even on the page of another.

`Analytics` reads stored audits. Worth knowing: a course with both an unknown and an
unsatisfied requirement is UNKNOWN there and BLOCKED in the overview; a passed course with
an unsatisfied requirement still counts as a bottleneck; a course without requirements is
never counted as eligible; without a chosen term, planned and eligible are counted
under different keys, so that "potential" never unites them; the time to degree counts
only terms in which some graduate was admitted or had an attempt; a student's page looks
at the newest audit only, whether it succeeded or not.

### CurriculumBaseline, Catalogue and Offerings

Code: `imports/application/baseline.py` and `services.py`, `domain/rules/ast.py`,
`audit/application/services.py`, `governance/application/services.py`,
`offerings/application/`, `offerings/models.py`.

`CurriculumBaseline` is the file: its validation (`ValidBaseline`) and its comparison with
another file (`SemanticDiff`). Rules are trees, and what is asked of one is recursive. It
takes these answers as constants: does the rule parse, does it fit the file, does what it
counts exist, on which courses does it depend, and is a graph cyclic. `BaselineRules`
defines them as the code does (`Parses`, `ValidRule`, `CountsExist`, `DirectDependencies`,
`HasCycles`); the configurations give them to the constants, and the proofs hold whatever
they are. `Catalogue` has one step per request, since `Publication` has the interleavings: what matters here is which rows are
there after any sequence of imports, and what the audit reads of them (`Snapshot`).
`Offerings` extends it with files of offers, each imported in one transaction, the terms
API, a clock for freshness, and what a student of a published revision is told
(`OfferingState`, and the map's `MapOffer`).

| Action | Code |
|---|---|
| `Import` | `import_curriculum_baseline` with validation and diff |
| `Submit`, `Approve`, `RequestChanges`, `ReviewCandidates`, `LinkEvidence`, `Publish`, `Retire` | the requests of `Publication` and the links from requirements to evidence, one step each |
| `ImportOffers` | the importer of offers with its validation and the upserts, at an instant and perhaps for a campus |
| `CreateTerm`, `PatchTerm`, `DeleteTerm` | the terms API: an edit may change code, campus, dates and source of a term that has offers |
| `ReferenceTerm`, `Tick` | an admission that names a term, the clock |

A capture is known by its file and the calendar year, as the document of a source is one
per year (`_source_document`). A file that is imported again in the year keeps the time of
its first capture; in another year it is a new capture, and fresh again. Offers name their
term by its row, so they follow it to another code (`Renamed`).

From reading and the model:

* Rows of an earlier import of a draft stay (`update_or_create` never deletes), and only
  the file is validated: `PublishedIsSound` below. `RowsReadBack` is stated for drafts
  whose rows are all of the last file (`Intact`).
* A version of a course is shared by revisions and plans of one date. The import protects
  versions used by a PUBLISHED revision, not those of SUPERSEDED or RETIRED ones, though
  students may still follow them (`docs/adr/0004`); and its metadata hold the
  revision they came from, so a correction of the date of a published revision, or
  another plan that shares a course and a date with it, cannot be imported. Before the
  publication another plan's import silently changes the credits of an approved draft.
* A repeated import refreshes the diff of a DRAFT proposal but not the base it names.
* It does not refresh its candidates either: `_sync_extraction_candidates` finds a
  candidate by row and operation and keeps its `before` and `after`. A CHANGE drawn up
  against one base stays so while the diff beside it is drawn up against another. Reviewers
  decide on it as it is; `DiffsAreExact` says what is left of it: what it has for after is
  that of the file under review, and what it has for before is that of the file of some
  revision, which need not be the one of the diff.
* Candidates that were REJECTED do not keep their content out. Requirements collapse by
  purpose, and the evidence of graduation rules is cleared by every import.
* Offers attach to the latest version of a course by date, whichever revision brought it.
  The import of a mere draft with a later date therefore takes later offers away from the
  students of the published revision, who see UNKNOWN (`docs/adr/0020`).
  `OffersReachStudents` excepts that case; without the exception it is violated after eight
  states.
* Sections that a newer file no longer has remain under the offer's new, fresh source
  (`docs/10`); an older file imported later overwrites a newer one. The terms API moves dates, but not the
  versions offers are attached to; after an edit of its code a term's offers come from a
  file that speaks of another code, and the term may name another source than they do
  (`codes` remembers the codes a term has had, for `OffersTellTheirSource` only). The page of offers lists by course code, scenarios and optimizer look
  up by version.

## 3. The runs

| Run | Result | States | Question |
|---|---|---|---|
| `notifications` | pass | 229 796 | what workers never do, with faults; is everything due settled? |
| `publication` | pass | 607 196 | what concurrent requests keep true |
| `publication_reopen` | violation | | can a published revision be open again? |
| `optimization` | pass | 214 992 | do slots leak, are outcomes final, do runs end? |
| `planning` | pass | 1 666 430 | do concurrent tabs keep a scenario consistent? |
| `history` | pass | 865 283 | do attempts, batches and audits survive concurrent changes? |
| `administration` | pass | 662 951 | does one policy decide, and does the trail explain the row? |
| `administration_race` | violation | | does an assigned revision stay? |
| `progress` | pass | 112 584 | do the algorithms agree with each other and with what they mean? |
| `plan_double_count` | violation | | is a planned course counted once? |
| `catalogue` | pass | 128 644 | what do rows keep of the files, and what do students see of them? |
| `catalogue_stale` | violation | | is what is published sound? |

The invariants and action properties are explained where they are defined. Every
property of a passing run has a mutant in `PROJECT.json`: a plausible slip in the
code (a dropped lease, `update_or_create` for `get_or_create`, a lock or a
condition of a query left out) under which TLC finds it violated.

### Bounds

`notifications`: two workers, two enrollments of one student, three events, limits of one
and two rows, a lease of two ticks, one fault, in four deployments. In the first both
workers race over one event that affects both enrollments: two are the smallest number that
can race, and a third could only repeat what one of the two does, since rows are
touched one at a time. Two enrollments of one student make the second fan-out
meet a row in every status. The limit of one makes the lists of two workers go stale
against each other. In the others one worker meets a backlog: events 1 and 2, of which the
first may be retired or superseded so that its request fails for ever in front of two
others, with a limit of two (there is room behind it) or of one (there is none, and nothing
is promised); and events 1 and 3, where the e-mails of event 3 come first and are refused for
ever. The fault is a refused call, a lost answer or a killed worker.

`MaxSend < Lease` bounds a send by the five minutes of the lease. This is an
assumption on the deployment: settings set no `EMAIL_TIMEOUT`. Without it two
workers may send one message at once.

`publication`: two requests at once, of which each may be any of the five
operations; proposals `a` and `b` share revision 1, `c` is alone with revision 2, so
siblings race on one revision and strangers on one plan; revision 0 is published at
the start with an enrollment on it. `CHECK_DEADLOCK FALSE`: all
revisions may be retired with every proposal applied, and the system then stops.

`optimization`: two runs on two processes of one thread each. One process has one slot, so
that a run may be refused; the other has two, so that a run waits in the pool behind a job
that may fail, be cancelled or succeed. A cancel request may be served by the wrong process; one
fault, which may be a failed submission, a failed job or a killed process; two passes,
so that an event may be set before, between or during them. `CHECK_DEADLOCK FALSE`:
when every row has ended there is nothing left to do.

`planning`: two tabs, two scenarios (one is there, one may be created or copied), two
names, one course in two terms, two limits, versions up to four. Four versions are
what it takes for a tab to see a scenario, another tab to lock, share or change it
twice, and the first to come back with its old version. `MaxVersion` is in the guards:
a scenario whose version is at the bound takes no further edit, hence
`CHECK_DEADLOCK FALSE`, here and in `history`.

`history`: two clients, two course versions and two terms, two attempts, two versions of
each, three decisions, of which two are taken, and one upload of one of six files: a plain
row with one that needs a decision, a PDF with a page and a row that cannot be read, one
with more rows than the limit of two, a JSON file with something that is no row, a row
that contradicts itself, and two equal rows. An attempt entered by hand can meet the file's row in its course and
number, in the same term or in the other.

`administration`: two administrators, of whom one edits and both review each other;
two policies over three contents (a rule, its successor, a rule for transitions), an
enrollment by admission and one by transition of the same student, two facts, one
override. `CHECK_DEADLOCK FALSE`: enrollments are made once.

`progress`: three courses and three groups (one open) throughout. A study is a revision
and all the facts that may still come, and the run starts from each of them:
memberships of three courses in two groups, in none or in both, with histories of three attempts, for the
ledger; graduation rules of up to three levels for the evaluator; requirements of two
courses planned in two terms; pairs of meetings over zones of zero and plus or minus five
hours; inputs of the solver with courses offered, not offered and unknown, locked or in
two terms, under four sets of preferences; a target that is reached only by a course that
another scenario plans; plans with nothing to warn of; requirements of
three courses in every shape of chain and cycle; and four classmates, a cell of fewer than
two being suppressed. Three courses are the least that make a chain with a cycle beside
it, and an order of the ledger in which the middle one decides. `CHECK_DEADLOCK FALSE`:
when every fact is there, nothing is left to add.

`catalogue`: ten archives. Six hold two to four baselines of one to three courses: a
revision and its corrections, one of the same date, its successor, another plan that
shares a course, and files that are refused; in one of them the date of the revision is
corrected after its successor was told what changes, so that what the candidates say is of
a base that the diff no longer has. Four hold one or two small baselines and
files of offers for one term: offered and cancelled, with other groups, dates and
campus, from another source, or refused; in one of them the term is edited, to other dates
or to another code and campus. A history has up to three instants, and in two archives the
last is in another year, so that a file is captured twice; a capture that is an instant old
is stale. `CHECK_DEADLOCK FALSE`: everything may be retired.

### Fairness

`Notifications`: weak fairness of the clock, and of each worker's steps. The command
is meant to be scheduled again and again (ADR-0022), and a pass never waits for
another one. Nothing is assumed of students and editors, and `Crash` is never fair.
`OptimizationRuns`: weak fairness of each run's own steps, because requests and
threads are not suspended for ever and a pass of the solver has a time limit. It is
not assumed that a cancel request goes on, and no fault is fair.
The other modules have no liveness property and no fairness: nothing in the code
obliges an editor, a student or an administrator to act, and a request that
PostgreSQL aborts is not retried.

### What the violated properties show

* `PublishedOnlyMovesOn`: a decision on a sibling proposal, based on the status read
  before a publication, is written after it. What does hold is
  `PublicationIsFinal`: the receipt and the event stay, and no revision becomes
  published a second time.
* `AssignedRevisionStays`: a re-evaluation compares If-Match with a row it read
  without a lock, and saves that row over an override that committed meanwhile. What
  does hold is `DecisionsExplainTheRow`: both decisions are in the trail, and the row
  is that of the last.
* `NoCourseCountsTwice`: docs/11 and ADR-0019 say that the assignments of courses to
  groups prevent counting twice, but the model given to the solver bounds each of them
  by the course alone: one course may cover two groups in full, and the plan is proposed
  as complete. The audit will not apply it twice, so groups remain open.
* `PublishedIsSound`: ADR-0020 says that validation keeps a revision with cycles or
  inconsistent totals from being published. Only the last file is validated; rows of an
  earlier one remain in the draft, and the published revision is one whose audit fails.

## 4. What is proved

For every value of the constants allowed by the named assumptions.

| Theorem | Statement |
|---|---|
| `Notifications_proofs!TypeCorrect` | `Spec => []TypeOK` |
| `Notifications_proofs!FanOutIsAtomic` | `Spec => []FanOutAtomic` |
| `Notifications_proofs!ClaimExclusive` | `MaxSend < Lease` gives `Spec => []ClaimIsExclusive` |
| `Notifications_proofs!SettledStays` | the same gives `Spec => SettledIsFinal` |
| `Notifications_proofs!MailedOnce` | the same gives `Spec => []MailedOnceUnlessLost` |
| `Notifications_proofs!LedgerIsKept` | the same gives `Spec => RefinesLedger` |
| `Publication_proofs!TypeCorrect` | `Spec => []TypeOK` |
| `Publication_proofs!AppliedIsReceipted` | `Spec => []AppliedHasReceipt` |
| `Publication_proofs!PublisherKnowsCurrent` | `Spec => []CurrentIsKnown` |
| `Publication_proofs!ImportSparesPublished` | `Spec => PublishedContentIsFixed` |
| `Publication_proofs!EventsAreTrue` | `Spec => []EventTellsTheTruth` |
| `Publication_proofs!PublicationsAreFinal` | `Spec => PublicationIsFinal` |
| `OptimizationRuns_proofs!TypeCorrect` | `Spec => []TypeOK` |
| `OptimizationRuns_proofs!SlotsHold` | `Spec => []SlotsAreJobs` |
| `OptimizationRuns_proofs!ImplementsLifecycle` | `Spec => RefinesLifecycle` |
| `Scenarios_proofs!TypeCorrect` | `Spec => []TypeOK` |
| `Scenarios_proofs!ProjectionCurrent` | `Spec => []ProjectionMatchesCourses` |
| `Scenarios_proofs!NothingUnseenOverwritten` | `Spec => []GuardedEditSawTheScenario` |
| `Scenarios_proofs!LocksAreObeyed` | `Spec => LockedCourseStays` |
| `StudentHistory_proofs!TypeCorrect` | `Spec => []TypeOK` |
| `StudentHistory_proofs!NumbersAreSafe` | `Spec => []NumbersNeverCollide` |
| `StudentHistory_proofs!TermsAreValid` | `Spec => []WrittenInAValidTerm` |
| `StudentHistory_proofs!ReviewsAreKept` | `Spec => []ConfirmsWhatWasReviewed` |
| `StudentHistory_proofs!AuditIsCurrent` | `Spec => []SerialAuditIsCurrent` |
| `StudentHistory_proofs!RowsAreAppliedOnce` | `Spec => []` of the part of `AppliedExactlyOnce` on rows and decisions |
| `StudentHistory_proofs!AppliedIsExact` | `Spec => []AppliedExactlyOnce` |
| `StudentAdministration_proofs!PoliciesConsistent` | `PolicySpec => []` of the invariant below |
| `StudentAdministration_proofs!DecisionUnique` | `PolicySpec => []OnePolicyDecides` |
| `StudentAdministration_proofs!TypeCorrect` | `Spec => []TypeOK` |
| `StudentAdministration_proofs!RowsAreExplained` | `Spec => []DecisionsExplainTheRow` |
| `StudentAdministration_proofs!DecisionsHaveTheirOwnEvidence` | `Spec => []EvidenceBacksOneDecision` |
| `StudentAdministration_proofs!EnrollingObeysPolicies` | `Spec => PolicySpec` |
| `StudentAdministration_proofs!AdmissionsHaveOneAnswer` | `Spec => []OnePolicyDecides` |
| `StudentAdministration_proofs!RulesInForce` | `Spec => DecidedByTheRulesInForce` |
| `Catalogue_proofs!CatalogueIsTyped` | `Spec => []CatalogueInv`, the invariant below |
| `Catalogue_proofs!PublishedIsStable` | `Spec => PublishedCatalogueStands` |
| `Catalogue_proofs!ReviewersSeeTheDifference` | `Spec => []DiffsAreExact` |
| `Catalogue_proofs!RowsOfTheLastFile` | `Spec => []RowsInv` |
| `Catalogue_proofs!CatalogueReadsBack` | `Spec => []RowsReadBack` |
| `Catalogue_proofs!OffersOfVersions` | `Spec => [](CoursesDated /\ TermsKept /\ OffersMade)` |
| `Catalogue_proofs!OffersAreOfTheirSource` | `Spec => []OffersTellTheirSource` |
| `Catalogue_proofs!StudentsAreTold` | `Spec => OffersReachStudents` |
| `StudentRecord_proofs!TypeCorrect` | `Spec => []TypeOK` |
| `StudentRecord_proofs!VerdictsAreExact` | `SaysWhatIs(ScheduleState(meetings, term), meetings, term)` for all meetings and terms, zones at most a day apart |
| `StudentRecord_proofs!ClashesReal` | `Spec => []ClashesAreReal` |
| `StudentRecord_proofs!PlanAgrees` | `Spec => []PlanAgreesWithAudit` |
| `StudentRecord_proofs!CreditsGrow` | `Spec => CreditsOnlyGrow` |
| `StudentRecord_proofs!KnowledgeKeepsAnswers` | `Spec => AnswersSurviveKnowledge` |
| `StudentRecord_proofs!GraphShows` | `Spec => GraphShowsWhatMatters` |
| `StudentRecord_proofs!Refused` | `Spec => []RefusedForAReason` |
| `StudentRecord_proofs!ProposedAreValid` | `Spec => []ProposedPlansAreValid` |
| `StudentRecord_proofs!PagesAreTrue` | `Spec => []PagesTellTheTruth` |

The arguments:

* Claims. `ClaimIsExclusive` is not inductive: it does not say why another worker's
  `Claim` is refused. The invariant adds that the age stored in a claimed row equals
  the time its owner has spent sending, which stays below the lease. Then every
  worker that meets the row finds it leased. `SettledStays` and `MailedOnce` follow:
  only the owner of a claim moves it, and a message is added to a row that holds
  none, or whose earlier ones are all counted as lost.
* Fan-out. `FanOutAtomic` quantifies over requests that are SENT; it needs that a request
  exists once its revision has left DRAFT, that a worker holds existing rows only, and that
  the event with its two deliveries is written in the step that marks the request.
* The ledger. Each action of `Notifications` maps to one of `NotificationLedger` or to a
  stutter. The steps that could map to neither are late results: a claim that is exclusive
  makes the row a worker records on its own, hence SENDING.
* Receipts. A proposal is locked by one request, other than imports, from its start
  to its commit, so the status a handler saw is still there when it writes. Hence an
  applied proposal is never decided on again, and the one-to-one key makes the
  second sibling's publication roll back.
* The current revision. From `LockPlan` on a publisher holds the plan, and the plan
  has one holder. Only the holder publishes. So what the publisher's second query
  found published, or found to be nothing, still is when it commits; the revision
  may be retired meanwhile, but no other can take its place.
* Events. A publisher looks for the current revision twice, here and in the lifecycle
  service, both times with the plan locked. The row it found first stays locked, and
  PUBLISHED, to its commit, and is the base of its proposal (`Found`); with the previous
  item both answers are the same, so event, impacts and base agree. Revisions that were
  replaced are never published again (`Past`): only imports write a draft's `supersedes`
  back, and they hold the plan when they read it.
* Fixed content. An import holds the plan from `ImportPlan` on, so the draft it found
  may be reviewed but not published under it. The guard in `save()`, which reads
  without a lock, is not what protects the content.
* Runs. Where a job stands tells the status of its row (`RowsFollowJobs`), since only
  its own steps write it: hence `Save` writes over RUNNING, and a cancel request, which
  has read an existing row (`CancelsKnowRows`) and saves one column, maps to `Ask`.
  For the table the invariant adds that it is finite, so that adding a run adds one
  to its size; the set of rows itself may be infinite.
* Scenarios. A locked row is one tab's (`Exclusive`), so what an edit computed under the
  lock is still true of the row at the commit (`JobSound`). `ViewSound` says what a tab
  knows: a view is read in three queries, and if its version is still that of the row,
  courses and preference are, too, since every edit moves the version.
* History. The invariant `IInv` has seven parts. Besides the types, `Exclusive`: a row
  lock has one holder. `Views`: a preview whose version is that of the batch shows its rows.
  `Commands`: which locks a command has or still asks for, and what its target keeps of
  the row it changes. `Writings`: what it has written is its own, under the lock of the
  course, in a valid term, with numbers no committed row has. `BatchesKnown`: a batch
  accepts rows with a course and a term there is. `Stored`: rows, batches and the latest
  audit belong together. For `NumbersNeverCollide`: of two transactions that have written rows of one course, both
  would hold its lock, unless one annuls, which keeps the course and number of a row it has
  locked; a new row's identity is fresh. For `WrittenInAValidTerm`: `Close` needs the lock
  of the course version. For `ConfirmsWhatWasReviewed`: every decision moves the batch's
  version, and no decision gets the batch between the check and the commit. For
  `SerialAuditIsCurrent`: a transaction that overlapped none saw exactly what is stored
  (`Seen`). For `RowsAreAppliedOnce`: the rows of a file are added one by one, and each
  step adds a row for exactly one line; as an induction over the length is out of reach,
  the proof takes the least line at which the claim fails (`LeastExists`).
  For `AppliedIsExact`: a second invariant (`ReadInv`), inductive relative to the first,
  says that a candidate of a row with errors stays `ERROR`, so that a batch which is
  confirmed was read completely and without errors; that a version only grows; and that
  an attempt of version 1 from a file has what its row states, since the confirmation
  looks at the credits again under its locks. What the rows have to do with the file are
  facts about the parsers alone: every number up to the count of records is the place of
  exactly one (`PlacesAreNumbered`), a file of one page that loses no line is that page
  (`OnePage`), and a row without errors has the values of the columns that count
  (`SoundRow`).
* Policies. `OnePolicyDecides` says nothing of policies in review, so it is not
  inductive. The invariant says that two policies which stand (in review or published)
  and overlap in an interval have the same outcome or an order between them, and that
  a request which passed the check holds the advisory lock of its scope: nothing in the
  scope has changed since, so the commit adds a policy that overlaps none.
* Administration. Every step of `Spec` is a step of `PolicyNext` or leaves its variables
  alone, which carries the policies' result over. A request that got an answer holds the
  advisory lock until it commits, and while it does no policy of that scope is
  published: hence `RulesInForce`. For `RowsAreExplained` the invariant adds what a
  request remembers of its row: a re-evaluation whose row is stale still writes the
  revision and the decision together.
* Evidence. `FactBacksOneDecision` relates records to decisions, not to requests. The
  invariant `FactsHeld` adds that the request which is about to use a record holds its row
  and has found it unused, so it is unused at the commit; no two requests hold one row.
  For overrides there is no such mark. `AuthorizationsUsed` says that the enrollment of an
  authorization which was used has a revision, which the override needs it not to have; no
  other request takes the revision away again, a late re-evaluation included.
* Catalogue. `CatalogueInv` says that a revision comes from a valid file of its own plan and
  code, that revisions were created one after another, that a proposal holds the diff
  between two files of the archive, and that memberships name versions that exist. The
  base of a proposal is the latest other revision, which exists since (date, order of
  creation) is a strict total order on a finite set (`LastExists`). Every other request
  than an import is `Quiet`: it changes statuses, and evidence of what is not published.
  So for `PublishedIsStable` only imports matter. They write to a revision that is a
  draft, and to versions; a version that a published revision names is protected, by
  the memberships it has (`PublishedVersionsStand`).
* Diffs. `DiffsAreExact` is about files alone once `CatalogueInv` is there. With keys that
  are unique in each set of rows, what is found by a key before and after decides about
  each row; in a list, what counts of rows with one key is the last. A candidate was a row
  of some diff of its file; the file that diff was drawn up against is one of a revision.
* Rows. `RowsReadBack` is not inductive: it says nothing of revisions that are not intact.
  `RowsInv` says of all of them that the rows of the last file are there, and that all
  others have other keys; of requirements, up to evidence, which editors may set. For the
  credits of a version it says something only while the version was written last for
  this revision and no other revision has its code, which is as much as the rows tell. An
  intact revision then has exactly the rows of its file, and its sums are those that
  validation checked.
* Offers. `OffersMade`: an offer was made by a file that was captured, has its status and
  sections where the file has them, its version starts at the beginning of the term or
  before, and its term has had the code of the file; an import keeps the codes of a term,
  and an edit adds one (`TermsKept`). `CoursesDated` makes the versions a membership may be planned with finite and
  dated, so that the latest exists, by the well-founded order of the naturals.
* Schedules. The dates of a meeting are those of the term, within its own limits, on its
  day: the first such date and every seventh on are all of them (`OccursOnItsDays`). Two
  occurrences overlap if and only if they share an instant, provided that dates more than
  one apart cannot: they are not compared (`abs(days) > 1`), and an instant in zones that
  are a day apart at most has dates one apart at most. For zones further apart (-12 and
  +14) a clash would be missed; the theorem excludes them. `ClashesReal` applies it to the
  sections of a plan.
* Rules. An evaluator is a recursive function over `AuditRule`. That such a recursion has a
  solution is proved once (`RecursionIsSound`: every rule nests less than the one around
  it), and each evaluator unfolds by it. A claim about rules of any depth takes a rule of
  least nesting for which it fails, so that all rules inside of it satisfy it
  (`RulesAreWellFounded`). For `AnswersSurviveKnowledge` the claim is that what was decided
  with less knowledge stands with more (`AnswersStand`), which ALL, ANY and negation
  respect; the verdict on the degree combines answers in the same way (`VerdictStands`). For
  `PlanAgreesWithAudit` it is that the two evaluators are equal on rules about courses, or
  the audit's answer is UNKNOWN and the rule names a course of unknown credits
  (`RulesAgree`).
* The ledger. It is greedy, so one course more may send the next to another group. If one
  ledger is nowhere behind another and a course is worth no less in it, the same
  holds after that course (`AddedGrows`): the group chosen from the ledger that is behind is
  either chosen from the other one as well, or full there (`SameGroup`). `LedgerGrows` takes
  the first course at which it fails.
* The graph. The answer of a rule without others in it depends on the courses it names,
  unless it asks for credits (`LeafUntouched`). The parts of a rule are all the rules in it
  (`PartsAreThere`), so a rule whose answer changed has a part that names a course which
  was touched (`AnswersUntouched`, by least nesting), and that part has an edge.
* The optimizer. Each reason to refuse an input contradicts a constraint of the model.
  For capacities that takes sums: a choice maps its courses one to one to those whose
  capacity is added up, and what is added up over a set that maps one to one into another is
  no more (`SumsInto`). A sum takes its terms in the order of CHOOSE; that any element may be
  taken first is `SumTakes`, for the set of least size at which it fails.
* The optimizer's plans. A solution read as a plan (`AsPlan`) is compared with the validator
  warning by warning (`CourseWarned`, `TermWarned`). A rule that holds in the model does not
  fail with the validator, and one that does not hold is not met, as long as no NOT in it is
  over a rule the two read apart (`SolverLeaf` for rules without others in them,
  `SolverRules` for all, by least nesting). Credits are added up alike because the items of
  a plan and the choices of a solution map one to one into each other (`TermCreditsAgree`),
  and the meetings of a course do not clash because those of a whole term would
  (`FewerMeetings`). The converse takes a plan without warnings for an assignment
  (`ValidIsPlan`) and goes through the constraints of the model (`ValidIsAccepted`).
* The pages. `PagesTellTheTruth` has four parts. The verdict: statuses of groups, components
  and requirements combine to the verdict that the page shows, so what is left is what it
  hangs on (`VerdictMeans`, `VerdictIsShown`). The planner: what a rule about other courses
  grants today it grants in any term ahead, and what it refuses today it refuses as long as
  nothing else is planned; without NOT, or with nothing else planned, that carries over
  to the rules around it (`LeafAhead`, `RulesAhead`, `PlannerIsShown`). The audit: all
  credits are applied if and only if no group needs more, since no group has more applied
  than it requires, and sums of terms that are nowhere more are equal only if the terms are
  (`SumsCompared`, `PageAddsUp`); this needs groups that add up to the plan (`AddsUp`, which
  validation of a file demands), and the property says it of those revisions only. The
  analytics: with fresh audits the students counted are those whose page says so, and the
  rest is how many there are: a union has no more than its parts, the buckets of progress
  are apart, so that their numbers add up to all students audited, and each bucket that
  is hidden has less than the minimum (`CountedCould`, `DemandCountsOnce`, `TermsCounted`,
  `BucketsAddUp`). An audit that is old (not `Fresh`) bounds less, and the property says what.

The proofs about the catalogue assume of files what their schema says (`ArchiveAssumption`:
rows have the columns of their entity, dates are naturals, sets are finite), of offers the
same, with a calendar of naturals (`OfferAssumption`), that an age is a natural
(`AgeAssumption`), and of rules that one which passes validation and parses counts
only what its file has (`RuleAssumption`); of contents they assume nothing. The proofs
about a student's record assume that a rule does not contain itself (`RulesAssumption`; a
rule is read from a document), that a study has the columns and ranges of its tables, with
zones at most a day apart, and that a comparison has one of its five operators
(`StudiesAssumption`, `OperatorsAssumption`), that the requirements outside of the
university which rules name are among those that may be stated (`ExternalsAssumption`), and
that what a course is recognized for is a course (`KeysAssumption`). The columns of a plan
include that the meetings of an item are those of its section, and of the wishes that the
limits of credits are natural numbers. Of classmates they assume what is assumed of the
student (`ClassmatesAssumption`), and of a suppressed count that it is no number
(`NoneAssumption`).

Of the files of a history the proofs assume only that pages and lines are lists, that JSON
and CSV have one page and that every line of a CSV file is a record
(`ContentsAssumption`); what is in them is arbitrary, and what the parsers make of it is
proved.

Constants have named assumptions (`BoundsAssumption`, `CandidateAssumption`, ...)
that TLC evaluates in every run. `DelayAssumption` says that the back-off is a
natural number; the provers have no theory of powers, so TLC checks it.

Of the properties that runs check, these are model-checked only:

* `BacklogSettles`, `RunsEnd` and `StoppedRunsEnd`: liveness under fairness is beyond the
  prover.
* `GraphIsExact` of `StudentProgress`: the searches of the graph and the levels of the map
  are recursive operators, and the prover takes no module with such. TLC compares them
  with definitions that are not recursive (chains of courses).
* The four violated properties, naturally.

`TypeOK` of the modules with proofs, and `AppliedHasReceipt`, are proved and not checked
by a run of their own.

## 5. Plan

What would come next, in this order.

1. `Publication` composed with `Notifications` (impacts become outbox rows) and with
   the creation of enrollments: an enrollment assigned to a revision while that is being
   superseded gets no impact.
2. Administration pages of governance (`governance/api.py`): which of their requests read
   a status without a lock.
3. Proofs about the searches of the graph, which would first have to be written as
   functions over levels instead of recursive operators.

## 6. What is not modelled

Left open by the properties, and known to happen: changes of one enrollment's history that
overlap may leave an audit without one of them (`SerialAuditIsCurrent` is about those that
do not); the source of a term is a capture of offers, other snapshots are not told apart; the
time of a capture is not in the future.

Permissions and sessions, the fetching and storage of documents, isolation of parsers,
observability, onboarding, the web front end and the API client: they change none of the
state above, or only refuse requests, or (onboarding) keep a checklist nothing else reads.
OR-Tools is external. The two modules `Publication` and `Catalogue` divide one subject,
what interleaves and what rows say, and are not composed; the same holds of
`StudentHistory`, which keeps the audited record, and `DegreeAudit`, which judges it. The
reasons are listed per component in `PROJECT.json`. The web front end, the HTTP layer and
the identity module are the greater part of the lines the map does not cover.
