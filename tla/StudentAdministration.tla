----------------------- MODULE StudentAdministration -----------------------
(***************************************************************************)
(* How an enrollment comes to its curriculum revision                      *)
(* (modules/student_records/application/administration.py): an             *)
(* administrator previews what the assignment policies decide, creates the *)
(* enrollment or a transition under the hash of that preview, and settles  *)
(* the cases left for review, by asking the resolver again or by an        *)
(* override two people signed.  Every way writes an append-only decision.  *)
(*                                                                         *)
(* The module works on the policies of AssignmentPolicies while they are   *)
(* edited and published; its transactions take the same advisory lock.     *)
(* One program.  A request is one administrator's: what it read is in      *)
(* work[a] from its first read to its commit, and what other requests      *)
(* commit in between is visible to its later reads (READ COMMITTED).       *)
(***************************************************************************)
EXTENDS AssignmentPolicies, SequencesExt

CONSTANTS
    Enrollments,     \* rows, each with its student, context, term and cohort
    StudentOf, ContextOf, AdmissionDate, CohortOf,
    Facts,           \* archived admission records that may be verified
    ReferenceOf,     \* the record a request for an enrollment refers to, or None
    SubjectOf,       \* the student a record is about
    Authorizations,  \* override authorizations
    OverrideTargets  \* revisions for which override evidence is archived

ASSUME AdministrationAssumption ==
    /\ ContextOf \in [Enrollments -> Contexts] /\ AdmissionDate \in [Enrollments -> 0..(MaxDate - 1)]
    /\ CohortOf \in [Enrollments -> Cohorts \cup {None}]
    /\ ReferenceOf \in [Enrollments -> Facts \cup {None}]
    /\ OverrideTargets \subseteq Revisions
    /\ None \notin Enrollments \cup Facts \cup Authorizations \cup Revisions
                    \cup {"create", "resolve", "override"}

VARIABLES
    enrollments, decisions, facts, authorizations,
    work             \* the enrollment request each person has under way

adminVars == <<enrollments, decisions, facts, authorizations, work>>
vars == <<policyVars, adminVars>>

NoWork == [op |-> None, step |-> "idle", enrollment |-> None, source |-> None, expected |-> None,
           decision |-> None, row |-> None, authorization |-> None]
NoEnrollment == [status |-> "NONE", holds |-> {}, revision |-> None, version |-> 0,
                 input |-> None, source |-> None]
NoAuthorization == [status |-> "NONE", enrollment |-> None, revision |-> None,
                    sealed |-> None, preparer |-> None, approver |-> None]

\* A re-entry also starts from COMPLETED, SUSPENDED and WITHDRAWN, which no
\* service writes.
Historical == {"TRANSITIONED"}

-----------------------------------------------------------------------------
(* What the requests read.                                                 *)

Exists(e) == enrollments[e].status # "NONE"
Enrolled(student) == \E e \in Enrollments : StudentOf[e] = student /\ Exists(e)

\* A record is verified once, and immutable from then on.
Verified(f) == f \in facts

\* The verified record the reference of the enrollment leads to.
FactFor(e) == IF Verified(ReferenceOf[e]) THEN ReferenceOf[e] ELSE None

Input(e, source) ==
    [context |-> ContextOf[e], date |-> AdmissionDate[e], cohort |-> CohortOf[e],
     previous_plan |-> IF source = None THEN None ELSE PlanOf[enrollments[source].revision]]

Consumed == {d.fact : d \in UNION {ToSet(decisions[e]) : e \in Enrollments}}
FactsInUse == {work[a].decision.found.fact : a \in {b \in Admins : work[b].step = "entered"}}

FactVerified(e, d) ==   \* mutant: does not look for an earlier decision
    d.status = "RESOLVED" => SubjectOf[d.found.fact] = StudentOf[e]

\* _lock_unconsumed_admission_fact: no fact is needed, or asked for, when the
\* policies do not resolve the case.
FactUsable(e, d) ==
    d.status = "RESOLVED" => /\ d.found.fact \notin Consumed
                             /\ SubjectOf[d.found.fact] = StudentOf[e]
FactFree(d) == d.status = "RESOLVED" => d.found.fact \notin FactsInUse

\* Row locks (FOR UPDATE) held until the end of a request.
SourceLocked(e) == \E a \in Admins : work[a].step = "entered" /\ work[a].source = e
TermLocked(e) ==
    \E a \in Admins : /\ work[a].step = "entered" /\ work[a].op = "create"
                      /\ \E o \in {work[a].enrollment, work[a].source} \ {None} :
                             AdmissionDate[o] = AdmissionDate[e]

\* preview_administered_transition
MayMove(source, e) ==
    /\ Exists(source) /\ enrollments[source].revision # None
    /\ IF ContextOf[e] = "REENTRY" THEN enrollments[source].status \in Historical
                                   ELSE enrollments[source].status = "ACTIVE"
    /\ AdmissionDate[source] < AdmissionDate[e] /\ StudentOf[source] = StudentOf[e]

AwaitsReview(row) == row.status = "NEEDS_REVIEW"   \* mutant: whatever for

AwaitsCurriculum(row) == row.status = "NEEDS_REVIEW" /\ "CURRICULUM_ASSIGNMENT" \in row.holds

-----------------------------------------------------------------------------
(* What they write.                                                        *)

StatusFor(holds) == IF holds = {} THEN "ACTIVE" ELSE "NEEDS_REVIEW"

Decision(method, revision, policy, fact, z) ==
    [method |-> method, revision |-> revision, policy |-> policy, fact |-> fact, authorization |-> z]

\* A resolved case is an AUTOMATIC decision and consumes the fact.
Evaluated(d) ==
    IF d.status = "RESOLVED" THEN Decision("AUTOMATIC", d.revision, d.policy, d.found.fact, None)
                             ELSE Decision("POLICY_EVALUATION", None, None, None, None)

AssignedOnHold(row, revision) ==   \* mutant: leaves the curriculum hold
    [row EXCEPT !.revision = revision, !.version = @ + 1]

\* The curriculum hold goes and the target comes, on the row the request read.
Assigned(row, revision) ==
    LET holds == row.holds \ {"CURRICULUM_ASSIGNMENT"} IN
    [row EXCEPT !.revision = revision, !.holds = holds, !.status = StatusFor(holds),
                !.version = @ + 1]

NewEnrollment(d, identityKnown, source) ==
    LET holds == (IF d.status = "RESOLVED" THEN {} ELSE {"CURRICULUM_ASSIGNMENT"})
                     \cup (IF identityKnown THEN {} ELSE {"IDENTITY_REVIEW"})
    IN  [status |-> StatusFor(holds), holds |-> holds, revision |-> d.revision, version |-> 1,
         input |-> d.found.input, source |-> source]

Done(a) == work' = [work EXCEPT ![a] = NoWork]

-----------------------------------------------------------------------------
(* Verifying an archived admission record.                                 *)

VerifyFact(f) ==
    /\ ~Verified(f)
    /\ \A e \in Enrollments : ReferenceOf[e] = f => ~TermLocked(e)
    /\ facts' = facts \cup {f}
    /\ UNCHANGED <<policyVars, enrollments, decisions, authorizations, work>>

-----------------------------------------------------------------------------
(* create_administered_enrollment and                                      *)
(* create_administered_transition_enrollment.                              *)

\* The preview is a read outside any transaction, so without the lock.  A new
\* account may also be created blind, which only an unresolved case survives.
Preview(a, e, source, blind) ==
    /\ work[a] = NoWork /\ review[a] = Idle
    /\ IF ContextOf[e] = "ADMISSION" THEN source = None /\ ~Enrolled(StudentOf[e])
       ELSE source # None /\ ~blind /\ MayMove(source, e)
    /\ work' = [work EXCEPT ![a] =
           [NoWork EXCEPT !.op = "create", !.step = "seen", !.enrollment = e,
                          !.source = source,
                          !.expected = IF blind THEN None
                                       ELSE Resolution(Input(e, source), FactFor(e))]]
    /\ UNCHANGED <<policyVars, enrollments, decisions, facts, authorizations>>

\* The transaction: source row, terms, advisory lock, and the same question
\* again.  Any answer but the previewed one is refused.
Confirmed(a, d) == work[a].expected = d \/ (work[a].expected = None /\ d.status # "RESOLVED")

Enter(a) ==
    LET w == work[a]
        d == Resolution(Input(w.enrollment, w.source), FactFor(w.enrollment))
    IN  /\ w.op = "create" /\ w.step = "seen"
        /\ ~TermLocked(w.enrollment)
        /\ w.source # None => ~SourceLocked(w.source) /\ ~TermLocked(w.source)
        /\ IF /\ w.source # None => MayMove(w.source, w.enrollment)
              /\ Confirmed(a, d) /\ FactUsable(w.enrollment, d)
           THEN /\ Consult(a, ContextOf[w.enrollment]) /\ FactFree(d)
                /\ work' = [work EXCEPT ![a].step = "entered", ![a].expected = None, ![a].decision = d]
           ELSE Done(a) /\ UNCHANGED policyVars
        /\ UNCHANGED <<enrollments, decisions, facts, authorizations>>

\* Transitions are append-only, one of each context from a source.
Moved(source, context) ==
    \E e \in Enrollments : enrollments[e].source = source /\ ContextOf[e] = context

\* An account is unique, and so are (student, program, term) and transitions: a clash
\* undoes the whole request.
Clashes(w) ==
    IF w.source = None THEN Enrolled(StudentOf[w.enrollment])
    ELSE Exists(w.enrollment) \/ Moved(w.source, ContextOf[w.enrollment])

\* The rows are inserted together.  A plan transition closes its source; a
\* source has no hold the target could inherit, its status rules that out.
Create(a, identityKnown) ==
    LET w == work[a] IN
    /\ w.op = "create" /\ w.step = "entered"
    /\ w.source # None => identityKnown
    /\ IF Clashes(w)
       THEN UNCHANGED <<enrollments, decisions>>
       ELSE /\ enrollments' = [e \in Enrollments |->
                  CASE e = w.enrollment -> NewEnrollment(w.decision, identityKnown, w.source)
                    [] e = w.source /\ ContextOf[w.enrollment] = "PLAN_TRANSITION" ->
                           [enrollments[e] EXCEPT !.status = "TRANSITIONED", !.version = @ + 1]
                    [] OTHER -> enrollments[e]]
            /\ decisions' = [decisions EXCEPT ![w.enrollment] = Append(@, Evaluated(w.decision))]
    /\ Done(a) /\ Leave(a)
    /\ UNCHANGED <<facts, authorizations>>

-----------------------------------------------------------------------------
(* resolve_administered_enrollment_revision.                               *)

\* The row is read, and compared with If-Match, without a lock ...
ReadPending(a, e) ==
    /\ work[a] = NoWork /\ review[a] = Idle /\ AwaitsCurriculum(enrollments[e])
    /\ work' = [work EXCEPT ![a] =
           [NoWork EXCEPT !.op = "resolve", !.step = "seen", !.enrollment = e,
                          !.row = enrollments[e]]]
    /\ UNCHANGED <<policyVars, enrollments, decisions, facts, authorizations>>

\* ... the stored input is asked again under the advisory lock ...
Reevaluate(a) ==
    LET w == work[a]
        d == Resolution(w.row.input, FactFor(w.enrollment))
    IN  /\ w.op = "resolve" /\ w.step = "seen"
        /\ IF d.status = "RESOLVED" /\ FactUsable(w.enrollment, d)
           THEN /\ Consult(a, ContextOf[w.enrollment]) /\ FactFree(d)
                /\ work' = [work EXCEPT ![a].step = "entered", ![a].expected = None, ![a].decision = d]
           ELSE Done(a) /\ UNCHANGED policyVars
        /\ UNCHANGED <<enrollments, decisions, facts, authorizations>>

\* ... and plan, holds and status are written from the row read at the start.
Settle(a) ==
    LET w == work[a] IN
    /\ w.op = "resolve" /\ w.step = "entered" /\ ~SourceLocked(w.enrollment)
    /\ enrollments' = [enrollments EXCEPT ![w.enrollment] =
           [Assigned(w.row, w.decision.revision) EXCEPT !.version = enrollments[w.enrollment].version + 1]]
    /\ decisions' = [decisions EXCEPT ![w.enrollment] = Append(@, Evaluated(w.decision))]
    /\ Done(a) /\ Leave(a)
    /\ UNCHANGED <<facts, authorizations>>

-----------------------------------------------------------------------------
(* The override of one enrollment.                                         *)

\* create_assignment_override_authorization seals the target as it is now.
PrepareOverride(a, z, e, r) ==
    /\ authorizations[z].status = "NONE"
    /\ AwaitsCurriculum(enrollments[e]) /\ ~SourceLocked(e)
    /\ r \in OverrideTargets /\ revisions[r] \in {"PUBLISHED", "SUPERSEDED"}
    /\ authorizations' = [authorizations EXCEPT ![z] =
           [status |-> "DRAFT", enrollment |-> e, revision |-> r,
            sealed |-> revisions[r], preparer |-> a, approver |-> None]]
    /\ UNCHANGED <<policyVars, enrollments, decisions, facts, work>>

\* approve_assignment_override_authorization: another person, the same target.
ApproveOverride(a, z) ==
    LET auth == authorizations[z] IN
    /\ auth.status = "DRAFT" /\ auth.preparer # a
    /\ revisions[auth.revision] = auth.sealed
    /\ auth.revision \notin LockedRevisions /\ ~SourceLocked(auth.enrollment)
    /\ authorizations' = [authorizations EXCEPT ![z].status = "APPROVED", ![z].approver = a]
    /\ UNCHANGED <<policyVars, enrollments, decisions, facts, work>>

\* override_administered_enrollment_assignment: the form is opened on a row ...
OpenOverride(a, z) ==
    LET e == authorizations[z].enrollment IN
    /\ work[a] = NoWork /\ review[a] = Idle /\ authorizations[z].status = "APPROVED"
    /\ AwaitsCurriculum(enrollments[e])
    /\ work' = [work EXCEPT ![a] =
           [NoWork EXCEPT !.op = "override", !.step = "seen", !.enrollment = e,
                          !.row = enrollments[e], !.authorization = z]]
    /\ UNCHANGED <<policyVars, enrollments, decisions, facts, authorizations>>

\* ... which must be unchanged (If-Match) once it is locked.
Override(a) ==
    LET w == work[a]  e == w.enrollment  auth == authorizations[w.authorization] IN
    /\ w.op = "override" /\ ~SourceLocked(e)
    /\ IF enrollments[e].version = w.row.version /\ AwaitsCurriculum(enrollments[e])
       THEN /\ enrollments' = [enrollments EXCEPT ![e] = Assigned(enrollments[e], auth.revision)]
            /\ decisions' = [decisions EXCEPT ![e] = Append(@,
                   Decision("ADMIN_OVERRIDE", auth.revision, None, None, w.authorization))]
       ELSE UNCHANGED <<enrollments, decisions>>
    /\ Done(a)
    /\ UNCHANGED <<policyVars, facts, authorizations>>

-----------------------------------------------------------------------------
(* update_administered_identity lifts the identity hold of every           *)
(* enrollment of the student, all locked.                                  *)

ConfirmIdentity(student) ==
    LET held == {e \in Enrollments : StudentOf[e] = student /\ "IDENTITY_REVIEW" \in enrollments[e].holds}
    IN  /\ held # {} /\ \A e \in Enrollments : StudentOf[e] = student => ~SourceLocked(e)
        /\ enrollments' = [e \in Enrollments |->
               IF e \notin held THEN enrollments[e]
               ELSE LET holds == enrollments[e].holds \ {"IDENTITY_REVIEW"}
                    IN  [enrollments[e] EXCEPT !.holds = holds, !.status = StatusFor(holds),
                                               !.version = @ + 1]]
        /\ UNCHANGED <<policyVars, decisions, facts, authorizations, work>>

\* A request fails or is abandoned: nothing is written and its locks go.
GiveUp(a) ==
    /\ work[a] # NoWork
    /\ Done(a) /\ Leave(a)
    /\ UNCHANGED <<enrollments, decisions, facts, authorizations>>

-----------------------------------------------------------------------------
Init ==
    /\ PolicyInit
    /\ enrollments = [e \in Enrollments |-> NoEnrollment]
    /\ decisions = [e \in Enrollments |-> <<>>]
    /\ facts = {}
    /\ authorizations = [z \in Authorizations |-> NoAuthorization]
    /\ work = [a \in Admins |-> NoWork]

\* Nobody reviews a policy in the middle of an enrollment request.
Governance ==
    /\ GovernanceNext
    /\ \A a \in Admins : review'[a] # review[a] => work[a] = NoWork
    /\ UNCHANGED adminVars

Enrolling ==
    \/ \E f \in Facts : VerifyFact(f)
    \/ \E a \in Admins, e \in Enrollments, source \in Enrollments \cup {None}, blind \in BOOLEAN :
          Preview(a, e, source, blind)
    \/ \E a \in Admins : Enter(a) \/ \E known \in BOOLEAN : Create(a, known)
    \/ \E a \in Admins : Reevaluate(a) \/ Settle(a) \/ \E e \in Enrollments : ReadPending(a, e)
    \/ \E a \in Admins, z \in Authorizations, e \in Enrollments, r \in Revisions :
          PrepareOverride(a, z, e, r)
    \/ \E a \in Admins, z \in Authorizations : ApproveOverride(a, z) \/ OpenOverride(a, z)
    \/ \E a \in Admins : Override(a) \/ GiveUp(a)
    \/ \E student \in {StudentOf[e] : e \in Enrollments} : ConfirmIdentity(student)

Next == Governance \/ Enrolling

Spec == Init /\ [][Next]_vars

-----------------------------------------------------------------------------
(* Properties.                                                             *)

TypeOK ==
    /\ PolicyTypeOK
    /\ \A e \in Enrollments :
        /\ enrollments[e].status \in {"NONE", "NEEDS_REVIEW", "ACTIVE"} \cup Historical
        /\ enrollments[e].holds \subseteq {"CURRICULUM_ASSIGNMENT", "IDENTITY_REVIEW"}
        /\ enrollments[e].revision \in Revisions \cup {None}
        /\ enrollments[e].status = "NEEDS_REVIEW" <=> enrollments[e].holds # {}
        /\ \A i \in DOMAIN decisions[e] :
               /\ decisions[e][i].fact \in Facts \cup {None}
               /\ decisions[e][i].policy \in Policies \cup {None}
    /\ facts \subseteq Facts
    /\ \A z \in Authorizations : authorizations[z].status \in {"NONE", "DRAFT", "APPROVED"}
    /\ \A a \in Admins : work[a].step \in {"idle", "seen", "entered"}

\* The revision of an enrollment is the one its latest decision selected, and
\* it waits for a curriculum exactly as long as no decision selected one: the
\* trail explains the row after every mixture of transitions, resolutions,
\* overrides and identity corrections.
DecisionsExplainTheRow ==
    \A e \in Enrollments : Exists(e) =>
        /\ decisions[e] # <<>>
        /\ enrollments[e].revision = Last(decisions[e]).revision
        /\ "CURRICULUM_ASSIGNMENT" \in enrollments[e].holds <=> enrollments[e].revision = None

\* An admission record backs one decision, of its own subject.  (A second one
\* would be stopped by the unique constraint, as an error nothing maps.)
FactBacksOneDecision ==
    \A e, o \in Enrollments : \A i \in DOMAIN decisions[e], j \in DOMAIN decisions[o] :
        LET f == decisions[e][i].fact IN
        f # None => /\ SubjectOf[f] = StudentOf[e]
                    /\ decisions[o][j].fact = f => e = o /\ i = j

\* An authorization that two people signed is used once, and for its enrollment.
\* Nothing marks it as used: what keeps it from a second use is that the enrollment
\* never waits for a curriculum again, whatever else writes to its row.
OverrideBacksOneDecision ==
    \A e, o \in Enrollments : \A i \in DOMAIN decisions[e], j \in DOMAIN decisions[o] :
        LET z == decisions[e][i].authorization IN
        z # None => /\ authorizations[z].enrollment = e
                    /\ decisions[o][j].authorization = z => e = o /\ i = j

\* What a decision rests on, an admission record or an authorization, backs no other.
EvidenceBacksOneDecision == FactBacksOneDecision /\ OverrideBacksOneDecision

\* An automatic decision commits what the policies in force decide at that
\* moment, not what they decided when the request looked: no publication can
\* come between the question and the commit.
DecidedByTheRulesInForce ==
    [][\A e \in Enrollments :
        Len(decisions'[e]) > Len(decisions[e]) /\ Last(decisions'[e]).method = "AUTOMATIC"
            => Deciding(enrollments'[e].input) = {Last(decisions'[e]).policy}]_vars

\* An enrollment that has its revision keeps it: "Ninguna matricula existente
\* cambia de revision automaticamente".
AssignedRevisionStays ==
    [][\A e \in Enrollments :
        enrollments[e].revision # None => enrollments'[e].revision = enrollments[e].revision]_vars
=============================================================================
