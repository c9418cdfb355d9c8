----------------------------- MODULE Publication -----------------------------
(***************************************************************************)
(* The editorial workflow of apps/api/modules/governance over the revision *)
(* lifecycle of apps/api/modules/curriculum, for the revisions of one plan.*)
(*                                                                         *)
(* Requests (Txns) run concurrently in PostgreSQL transactions at READ     *)
(* COMMITTED.  A step is a statement that can wait for a row lock, or sees *)
(* a snapshot of its own; what a transaction writes becomes visible in its *)
(* last step, and it keeps its row locks until then.  The row a statement  *)
(* waited for is read again before it is locked.  Two more rows are locked *)
(* than revisions: Plan, which stands for the plan with its program,       *)
(* faculty and campus, and Institution.  The foreign keys of new rows are  *)
(* checked at commit, which waits for the rows they name if those are      *)
(* locked FOR UPDATE.                                                      *)
(***************************************************************************)
EXTENDS Integers, FiniteSets

CONSTANTS
    NumRevisions,  \* revisions 0..NumRevisions of the plan, by effective_from
    Proposals,     \* ChangeProposal rows that may be imported
    Candidate,     \* the candidate_revision of each proposal
    Differing,     \* the proposals whose diff yields extraction candidates
    Enrollments,
    Basis,         \* the revision_basis of each enrollment
    Txns,          \* requests in progress at once
    Plan, Institution, \* the rows above the revisions
    None

Revisions == 0 .. NumRevisions

ASSUME CandidateAssumption == Candidate \in [Proposals -> Revisions \ {0}]
ASSUME BasisAssumption == Basis \in [Enrollments -> Revisions]
ASSUME NumRevisionsAssumption == NumRevisions \in Nat
ASSUME RowsAssumption ==
    Plan \notin Revisions /\ Institution \notin Revisions /\ Plan # Institution
ASSUME NoneAssumption == None \notin Revisions /\ None \notin Proposals

VARIABLES
    revision,     \* CurriculumRevision.status
    supersedes,   \* CurriculumRevision.supersedes
    content,      \* the proposal whose import last wrote the revision's content
    proposal,     \* ChangeProposal.status
    base,         \* ChangeProposal.base_revision
    pending,      \* proposals with a PENDING extraction candidate
    receipt,      \* the proposal of each revision's Publication
    announced,    \* PublicationEvent.superseded_revision of that publication
    impacts,      \* PublicationImpact (and NotificationOutbox) rows
    pc,           \* where each request stands in its handler
    job,          \* the proposal it works on
    verdict,      \* the status it is about to write
    seen,         \* the published revision its query found; of an import,
                  \* the supersedes column it read
    replaced,     \* the superseded_revision it will announce
    rows          \* the rows it has locked

records == <<revision, supersedes, content, proposal, base, pending,
             receipt, announced, impacts>>
locals == <<pc, job, verdict, seen, replaced, rows>>
vars == <<records, locals>>

-----------------------------------------------------------------------------
Open == {"DRAFT", "IN_REVIEW", "APPROVED"}
RevisionStatus == Open \cup {"NONE", "PUBLISHED", "SUPERSEDED", "RETIRED"}
ProposalStatus == Open \cup {"NONE", "REJECTED", "APPLIED"}
Steps == {"idle", "write", "audit", "lock_candidate", "lock_plan", "find_current",
          "lock_current", "find_again", "lock_again", "apply",
          "import_plan", "import_save", "import_lock", "import_commit"}
Rows == Revisions \cup {Plan, Institution}

\* Statuses of the proposal and of its candidate after each decision.
ProposalAfter == [submit |-> "IN_REVIEW", approve |-> "APPROVED",
                  request_changes |-> "DRAFT", reject |-> "REJECTED"]
RevisionAfter == [submit |-> "IN_REVIEW", approve |-> "APPROVED",
                  request_changes |-> "DRAFT", reject |-> "DRAFT"]
Reviews == {"approve", "request_changes", "reject"}

Published == {r \in Revisions : revision[r] = "PUBLISHED"}

Init ==
    /\ revision = [r \in Revisions |-> IF r = 0 THEN "PUBLISHED" ELSE "NONE"]
    /\ supersedes = [r \in Revisions |-> None]
    /\ content = [r \in Revisions |-> None]
    /\ proposal = [p \in Proposals |-> "NONE"]
    /\ base = [p \in Proposals |-> None]
    /\ pending = {}
    /\ receipt = [r \in Revisions |-> None]
    /\ announced = [r \in Revisions |-> None]
    /\ impacts = {}
    /\ pc = [t \in Txns |-> "idle"]
    /\ job = [t \in Txns |-> None]
    /\ verdict = [t \in Txns |-> None]
    /\ seen = [t \in Txns |-> None]
    /\ replaced = [t \in Txns |-> None]
    /\ rows = [t \in Txns |-> {}]

-----------------------------------------------------------------------------
(* Row locks.                                                              *)

Importing(t) == pc[t] \in {"import_plan", "import_save", "import_lock", "import_commit"}

\* Every handler but the import locks its proposal first and keeps it.
ProposalFree(p) == \A t \in Txns : job[t] = p => Importing(t)
RowFree(t, r) == \A u \in Txns \ {t} : r \notin rows[u]

\* A revision that is only being updated can be referred to.
Updating(u) == pc[u] = "audit" \/ Importing(u)
KeyFree(t, r) == \A u \in Txns \ {t} : r \in rows[u] => Updating(u)

Start(t, p, step) ==
    /\ pc[t] = "idle"
    /\ pc' = [pc EXCEPT ![t] = step]
    /\ job' = [job EXCEPT ![t] = p]
    /\ UNCHANGED <<records, seen, replaced, rows>>

\* Commit or roll back: the request ends and its locks are released.
Finish(t) ==
    /\ pc' = [pc EXCEPT ![t] = "idle"]
    /\ job' = [job EXCEPT ![t] = None]
    /\ verdict' = [verdict EXCEPT ![t] = None]
    /\ seen' = [seen EXCEPT ![t] = None]
    /\ replaced' = [replaced EXCEPT ![t] = None]
    /\ rows' = [rows EXCEPT ![t] = {}]

Rollback(t) == Finish(t) /\ UNCHANGED records

\* PostgreSQL picks the request as the victim of a deadlock, or it is killed.
Abort(t) == pc[t] # "idle" /\ Rollback(t)

-----------------------------------------------------------------------------
(* import_curriculum_baseline                                              *)

\* update_or_create locks the row it writes.  Mutant: get_or_create does not.
Fetched(row) == {}
Upserted(row) == {row}

\* From the institution down to the plan, every row is updated.
ImportBegin(t, p) ==
    /\ RowFree(t, Institution)
    /\ pc[t] = "idle"
    /\ pc' = [pc EXCEPT ![t] = "import_plan"]
    /\ job' = [job EXCEPT ![t] = p]
    /\ rows' = [rows EXCEPT ![t] = Upserted(Institution)]
    /\ UNCHANGED <<records, verdict, seen, replaced>>

\* Then the revision is inserted, or the whole row is read if it is a draft.
ImportPlan(t) ==
    LET r == Candidate[job[t]]
        Go(step, locked) ==
            /\ pc' = [pc EXCEPT ![t] = step]
            /\ rows' = [rows EXCEPT ![t] = @ \cup Upserted(Plan) \cup locked]
            /\ seen' = [seen EXCEPT ![t] = supersedes[r]]
            /\ UNCHANGED <<records, job, verdict, replaced>>
    IN  /\ pc[t] = "import_plan"
        /\ RowFree(t, Plan)
        /\ \/ revision[r] = "NONE" /\ Go("import_commit", {r})
           \/ revision[r] = "DRAFT" /\ Go("import_save", {})
           \/ revision[r] \notin {"NONE", "DRAFT"} /\ Rollback(t)

\* CurriculumRevision.save() reads the stored status, without a lock.
ImportSave(t) ==
    /\ pc[t] = "import_save"
    /\ IF revision[Candidate[job[t]]] = "PUBLISHED"
       THEN Rollback(t)
       ELSE /\ pc' = [pc EXCEPT ![t] = "import_lock"]
            /\ UNCHANGED <<records, job, verdict, seen, replaced, rows>>

\* Its UPDATE takes the row, all columns of it; the rest of the import runs with it locked.
ImportLock(t) ==
    LET r == Candidate[job[t]]
    IN  /\ pc[t] = "import_lock"
        /\ RowFree(t, r)
        /\ pc' = [pc EXCEPT ![t] = "import_commit"]
        /\ rows' = [rows EXCEPT ![t] = @ \cup {r}]
        /\ UNCHANGED <<records, job, verdict, seen, replaced>>

\* The latest other revision of the plan, whatever its status.
LatestBase(r) ==
    LET others == {q \in Revisions \ {r} : revision[q] # "NONE"}
    IN  IF others = {} THEN None
        ELSE CHOOSE q \in others : \A s \in others : s <= q

\* The proposals given PENDING candidates by an import of p.
Extracted(p) == {p} \cap Differing

\* get_or_create of the proposal and of its extraction candidates: a second
\* import keeps the proposal, and adds candidates only when its diff is taken
\* against another base.  A new proposal refers to its base, a new candidate
\* to its proposal.
ImportCommit(t) ==
    LET p == job[t]
        r == Candidate[p]
        latest == LatestBase(r)
    IN  /\ pc[t] = "import_commit"
        /\ revision' = [revision EXCEPT ![r] = "DRAFT"]
        /\ supersedes' = [supersedes EXCEPT ![r] = seen[t]]
        /\ content' = [content EXCEPT ![r] = p]
        /\ \/ /\ proposal[p] = "NONE"
              /\ KeyFree(t, latest)
              /\ proposal' = [proposal EXCEPT ![p] = "DRAFT"]
              /\ base' = [base EXCEPT ![p] = latest]
              /\ pending' = pending \cup Extracted(p)
           \/ /\ proposal[p] # "NONE"
              /\ latest # base[p] /\ ProposalFree(p)
              /\ pending' = pending \cup Extracted(p)
              /\ UNCHANGED <<proposal, base>>
           \/ proposal[p] # "NONE" /\ UNCHANGED <<proposal, base, pending>>
        /\ Finish(t)
        /\ UNCHANGED <<receipt, announced, impacts>>

-----------------------------------------------------------------------------
(* submit_proposal, review_proposal, review_candidate                      *)

\* The status the save() of the candidate will overwrite is read, unlocked,
\* by the query of the proposal and again by save().
Submit(t, p) ==
    /\ ProposalFree(p)
    /\ revision[Candidate[p]] \in Open
    /\ proposal[p] \in {"DRAFT", "REJECTED"}
    /\ Start(t, p, "write")
    /\ verdict' = [verdict EXCEPT ![t] = "submit"]

Review(t, p, decision) ==
    /\ ProposalFree(p)
    /\ revision[Candidate[p]] \in Open
    /\ proposal[p] \in {"IN_REVIEW", "APPROVED"}
    /\ decision = "approve" => p \notin pending
    /\ Start(t, p, "write")
    /\ verdict' = [verdict EXCEPT ![t] = decision]

\* The UPDATE waits for the candidate's row.
LockReviewed(t) ==
    /\ pc[t] = "write"
    /\ RowFree(t, Candidate[job[t]])
    /\ pc' = [pc EXCEPT ![t] = "audit"]
    /\ rows' = [rows EXCEPT ![t] = {Candidate[job[t]]}]
    /\ UNCHANGED <<records, job, verdict, seen, replaced>>

\* Both statuses are written, and an audit event that names the institution.
WriteDecision(t) ==
    LET p == job[t]
    IN  /\ pc[t] = "audit"
        /\ RowFree(t, Institution)
        /\ revision' = [revision EXCEPT ![Candidate[p]] = RevisionAfter[verdict[t]]]
        /\ proposal' = [proposal EXCEPT ![p] = ProposalAfter[verdict[t]]]
        /\ Finish(t)
        /\ UNCHANGED <<supersedes, content, base, pending, receipt, announced, impacts>>

\* review_candidate and apply_candidate_bulk may settle or reopen a candidate
\* of a proposal in any status, while its revision is open.
ReviewCandidate(p) ==
    /\ p \in Differing /\ proposal[p] # "NONE"
    /\ revision[Candidate[p]] \in Open
    /\ \A t \in Txns : Institution \notin rows[t]
    /\ pending' \in {pending \cup {p}, pending \ {p}}
    /\ UNCHANGED <<revision, supersedes, content, proposal, base,
                   receipt, announced, impacts, locals>>

-----------------------------------------------------------------------------
(* publish_proposal and CurriculumRevisionService                          *)

Publish(t, p) ==
    /\ ProposalFree(p)
    /\ revision[Candidate[p]] \in Open
    /\ proposal[p] = "APPROVED"
    /\ p \notin pending
    /\ Start(t, p, "lock_candidate")
    /\ UNCHANGED verdict

LockCandidate(t) ==
    LET r == Candidate[job[t]]
    IN  /\ pc[t] = "lock_candidate"
        /\ RowFree(t, r)
        /\ rows' = [rows EXCEPT ![t] = {r}]
        /\ pc' = [pc EXCEPT ![t] = "lock_plan"]
        /\ UNCHANGED <<records, job, verdict, seen, replaced>>

\* FOR UPDATE with select_related locks the joined rows too, after the candidate's.
\* Mutant: FOR UPDATE OF the revision alone.
WithoutPlan(t) == rows[t]
WithPlan(t) == rows[t] \cup {Plan}

LockPlan(t) ==
    /\ pc[t] = "lock_plan"
    /\ RowFree(t, Plan)
    /\ rows' = [rows EXCEPT ![t] = WithPlan(t)]
    /\ pc' = [pc EXCEPT ![t] = "find_current"]
    /\ UNCHANGED <<records, job, verdict, seen, replaced>>

\* The revision a publication has to replace.
IsCurrent(t, r) == revision[r] = "PUBLISHED" /\ r # Candidate[job[t]]

\* A query for it starts: this is its snapshot.
Find(t, here, waiting, found) ==
    LET others == {r \in Revisions : IsCurrent(t, r)}
    IN  /\ pc[t] = here
        /\ IF others = {}
           THEN pc' = [pc EXCEPT ![t] = found] /\ seen' = [seen EXCEPT ![t] = None]
           ELSE /\ pc' = [pc EXCEPT ![t] = waiting]
                /\ \E r \in others : seen' = [seen EXCEPT ![t] = r]
        /\ UNCHANGED <<records, job, verdict, replaced, rows>>

\* FOR UPDATE reads the row again once it is free: a row that has left
\* PUBLISHED meanwhile drops out of the result, which is then empty.
Dropped(t) == ~IsCurrent(t, seen[t])

\* The query comes back empty.
Drop(t, found) ==
    /\ Dropped(t)
    /\ pc' = [pc EXCEPT ![t] = found]
    /\ seen' = [seen EXCEPT ![t] = None]
    /\ UNCHANGED <<records, job, verdict, replaced, rows>>

\* The rows a publisher holds once it has found the revision it replaces.
\* Mutant: a plain SELECT instead of FOR UPDATE.
WithoutCurrent(t) == rows[t]
WithCurrent(t) == rows[t] \cup {seen[t]}

FindCurrent(t) == Find(t, "find_current", "lock_current", "find_again")

LockCurrent(t) ==
    /\ pc[t] = "lock_current"
    /\ RowFree(t, seen[t])
    /\ \/ Drop(t, "find_again")
       \/ ~Dropped(t) /\ base[job[t]] # seen[t] /\ Rollback(t)
       \/ /\ ~Dropped(t) /\ base[job[t]] = seen[t]
          /\ pc' = [pc EXCEPT ![t] = "find_again"]
          /\ replaced' = [replaced EXCEPT ![t] = seen[t]]
          /\ rows' = [rows EXCEPT ![t] = WithCurrent(t)]
          /\ UNCHANGED <<records, job, verdict, seen>>

\* CurriculumRevisionService.publish asks anew which revision is published.
FindAgain(t) == Find(t, "find_again", "lock_again", "apply")

LockAgain(t) ==
    /\ pc[t] = "lock_again"
    /\ RowFree(t, seen[t])
    /\ \/ Drop(t, "apply")
       \/ /\ ~Dropped(t)
          /\ pc' = [pc EXCEPT ![t] = "apply"]
          /\ rows' = [rows EXCEPT ![t] = WithCurrent(t)]
          /\ UNCHANGED <<records, job, verdict, seen, replaced>>

\* revision_one_published_per_plan.
IndexViolated(r, current) == Published \ {r, current} # {}

\* Publication.revision is one-to-one.  Mutant: it is a plain foreign key.
MayReissue(r) == FALSE
HasReceipt(r) == receipt[r] # None

\* The enrollments a publication that replaces q has an impact on.
Affected(q) == {n \in Enrollments : Basis[n] = q}

\* The transition, the receipt, the event and the impacts commit together, with
\* audit events that name the institution.
Apply(t) ==
    LET p == job[t]
        r == Candidate[p]
        current == seen[t]
    IN  /\ pc[t] = "apply"
        /\ RowFree(t, Institution)
        /\ IF \/ revision[r] \notin Open
              \/ current # None /\ supersedes[r] \notin {None, current}
              \/ IndexViolated(r, current)
              \/ HasReceipt(r)
           THEN Rollback(t)
           ELSE /\ revision' = [q \in Revisions |->
                       IF q = r THEN "PUBLISHED"
                       ELSE IF q = current THEN "SUPERSEDED" ELSE revision[q]]
                /\ supersedes' = IF current = None THEN supersedes
                                 ELSE [supersedes EXCEPT ![r] = current]
                /\ receipt' = [receipt EXCEPT ![r] = p]
                /\ announced' = [announced EXCEPT ![r] = replaced[t]]
                /\ impacts' = impacts \cup
                       {<<r, n>> : n \in Affected(replaced[t])}
                /\ proposal' = [proposal EXCEPT ![p] = "APPLIED"]
                /\ Finish(t)
                /\ UNCHANGED <<content, base, pending>>

\* CurriculumRevisionService.retire, one statement after its row is free.
Retire(r) ==
    /\ revision[r] \in {"PUBLISHED", "SUPERSEDED"}
    /\ \A t \in Txns : r \notin rows[t]
    /\ revision' = [revision EXCEPT ![r] = "RETIRED"]
    /\ UNCHANGED <<supersedes, content, proposal, base, pending,
                   receipt, announced, impacts, locals>>

-----------------------------------------------------------------------------
Begin(t) ==
    \E p \in Proposals :
        \/ ImportBegin(t, p)
        \/ Submit(t, p) \/ Publish(t, p)
        \/ \E decision \in Reviews : Review(t, p, decision)

Continue(t) ==
    \/ ImportPlan(t) \/ ImportSave(t) \/ ImportLock(t) \/ ImportCommit(t)
    \/ LockReviewed(t) \/ WriteDecision(t)
    \/ LockCandidate(t) \/ LockPlan(t) \/ FindCurrent(t) \/ LockCurrent(t)
    \/ FindAgain(t) \/ LockAgain(t) \/ Apply(t)

Next ==
    \/ \E t \in Txns : Begin(t) \/ Continue(t) \/ Abort(t)
    \/ \E p \in Proposals : ReviewCandidate(p)
    \/ \E r \in Revisions : Retire(r)

Spec == Init /\ [][Next]_vars

-----------------------------------------------------------------------------
(* Properties.                                                             *)

\* Every variable stays within its type.
TypeOK ==
    /\ revision \in [Revisions -> RevisionStatus]
    /\ supersedes \in [Revisions -> Revisions \cup {None}]
    /\ content \in [Revisions -> Proposals \cup {None}]
    /\ proposal \in [Proposals -> ProposalStatus]
    /\ base \in [Proposals -> Revisions \cup {None}]
    /\ pending \in SUBSET Proposals
    /\ receipt \in [Revisions -> Proposals \cup {None}]
    /\ announced \in [Revisions -> Revisions \cup {None}]
    /\ impacts \in SUBSET (Revisions \X Enrollments)
    /\ pc \in [Txns -> Steps]
    /\ job \in [Txns -> Proposals \cup {None}]
    /\ verdict \in [Txns -> Reviews \cup {"submit", None}]
    /\ seen \in [Txns -> Revisions \cup {None}]
    /\ replaced \in [Txns -> Revisions \cup {None}]
    /\ rows \in [Txns -> SUBSET Rows]

\* A publisher about to commit knows the one published revision of the plan,
\* although it asked for it statements ago: the plan's row is locked between,
\* and the index that allows one published revision is never violated.
CurrentIsKnown ==
    /\ Cardinality(Published) <= 1
    /\ \A t \in Txns : pc[t] = "apply" => Published \ {Candidate[job[t]]} \subseteq {seen[t]}

\* A proposal is APPLIED exactly when it owns the receipt of its candidate:
\* sibling proposals of one candidate cannot both be applied, and no later
\* decision or import takes an applied proposal back.
AppliedHasReceipt ==
    \A p \in Proposals : proposal[p] = "APPLIED" <=> receipt[Candidate[p]] = p

\* The event of a publication names exactly the revision the publication
\* superseded, if any, which is the one its proposal was written against, and
\* its impacts are exactly the enrollments on that revision.  The events form a
\* chain: no revision is replaced by two successors.
EventTellsTheTruth ==
    /\ \A q, r \in Revisions : q # r /\ supersedes[q] = supersedes[r] => supersedes[q] = None
    /\ \A r \in Revisions : receipt[r] # None =>
        /\ supersedes[r] = announced[r]
        /\ announced[r] # None => base[receipt[r]] = announced[r]
        /\ {n \in Enrollments : <<r, n>> \in impacts}
             = {n \in Enrollments : Basis[n] = announced[r]}

\* An import that has found a draft never writes into a revision that was
\* published meanwhile: it holds the rows above the revision from its start.
PublishedContentIsFixed ==
    [][\A r \in Published : content'[r] = content[r]]_vars

\* The receipt, the event and the link of a publication are never rewritten,
\* and a revision that has stopped being the published one never is again.
PublicationIsFinal ==
    [][\A r \in Revisions : receipt[r] # None =>
          /\ receipt'[r] = receipt[r] /\ announced'[r] = announced[r]
          /\ supersedes'[r] = supersedes[r]
          /\ revision[r] # "PUBLISHED" => revision'[r] # "PUBLISHED"]_vars

\* CurriculumRevision.save: a published revision can only transition to
\* superseded or retired.
PublishedOnlyMovesOn ==
    [][\A r \in Revisions : revision[r] = "PUBLISHED" =>
          revision'[r] \in {"PUBLISHED", "SUPERSEDED", "RETIRED"}]_vars
=============================================================================
