------------------------- MODULE AssignmentPolicies -------------------------
(***************************************************************************)
(* Which curriculum revision an admission belongs to is decided by         *)
(* assignment policies: rows an editor drafts, submits and another person  *)
(* publishes (modules/curriculum/application/assignment.py), and a pure    *)
(* resolver reads (domain/curriculum_assignment.py).  The resolver refuses *)
(* to choose between two policies that apply, so what keeps it useful is   *)
(* that submission and publication never let two of them contradict each   *)
(* other, although several people work on different rows at once.          *)
(*                                                                         *)
(* One program and one policy_code: a row is named by its version, and a   *)
(* row may supersede an earlier one.  A transaction locks its policy and   *)
(* the target revision (FOR UPDATE), then the advisory lock of its scope   *)
(* (program, context), which it keeps until it ends.                       *)
(***************************************************************************)
EXTENDS Integers, FiniteSets

CONSTANTS
    NumPolicies,       \* rows, by version
    Admins,            \* the people who work here
    Editors, Reviewers,  \* those who may submit, and publish, policies
    Contexts,          \* ADMISSION, REENTRY, PLAN_TRANSITION
    Revisions,         \* curriculum revisions of the program
    PlanOf,            \* the plan of a revision
    InitialRevisions,  \* their status before the first step
    Cohorts,
    MaxDate,           \* date.max; date.min is 0
    Contents,          \* what a draft may say
    None

Policies == 1..NumPolicies
Plans == {PlanOf[r] : r \in Revisions}
Dates == 0..MaxDate

\* What an editor fills in.  "verified" is epistemic_status = VERIFIED,
\* "documented" that the evidence links carry every purpose the context asks
\* for and that one of them proves the publication date.
Content == [context : Contexts, revision : Revisions,
            admission_from : Dates \cup {None}, admission_to : Dates \cup {None},
            effective_from : Dates \cup {None}, effective_to : Dates \cup {None},
            cohort : Cohorts \cup {None}, previous_plan : Plans \cup {None},
            supersedes : Policies \cup {None},
            verified : BOOLEAN, documented : BOOLEAN]

\* What is asked of the resolver.  date.max is no admission date: a policy
\* with an open end is treated as ending there by the overlap check only.
Inputs == [context : Contexts, date : 0..(MaxDate - 1),
           cohort : Cohorts \cup {None}, previous_plan : Plans \cup {None}]

ASSUME PolicyAssumption ==
    /\ NumPolicies \in Nat /\ MaxDate \in Nat \ {0}
    /\ Contents \subseteq Content /\ Editors \cup Reviewers \subseteq Admins
    /\ None \notin Dates \cup Policies \cup Admins \cup Cohorts \cup Plans
    /\ InitialRevisions \in [Revisions -> {"DRAFT", "PUBLISHED", "SUPERSEDED"}]

VARIABLES
    policies,    \* the rows
    revisions,   \* status of each curriculum revision
    holder,      \* who holds the advisory lock of each context
    review       \* the submission or publication each person has under way

policyVars == <<policies, revisions, holder, review>>

Idle == [step |-> "idle", op |-> None, policy |-> None]
NoRow == [status |-> "NONE", content |-> None, preparer |-> None,
          approver |-> None, sealed |-> None]

-----------------------------------------------------------------------------
(* The overlap check and the resolver.                                     *)

Known(date, default) == IF date = None THEN default ELSE date

\* _policy_effective_interval
Start(c) == LET a == Known(c.admission_from, 0)  e == Known(c.effective_from, 0)
            IN  IF a >= e THEN a ELSE e
End(c) == LET a == Known(c.admission_to, MaxDate)  e == Known(c.effective_to, MaxDate)
          IN  IF a <= e THEN a ELSE e

Agree(x, y) == x = None \/ y = None \/ x = y

Overlap(c, o) ==
    /\ c.context = o.context
    /\ Agree(c.cohort, o.cohort) /\ Agree(c.previous_plan, o.previous_plan)
    /\ Start(c) < End(o) /\ Start(o) < End(c)

\* Statuses that claim a scope.  The code also names SUPERSEDED, which no
\* operation ever writes on a policy.
Standing(p) == policies[p].status \in {"IN_REVIEW", "PUBLISHED"}

NoOverlapInReview(p) ==   \* mutant: forgets the rows already in force
    \A q \in Policies \ {p, policies[p].content.supersedes} :
        policies[q].status = "IN_REVIEW" => ~Overlap(policies[p].content, policies[q].content)

\* _assert_no_assignment_policy_overlap: only the direct predecessor may overlap.
NoOverlap(p) ==
    \A q \in Policies \ {p, policies[p].content.supersedes} :
        Standing(q) => ~Overlap(policies[p].content, policies[q].content)

\* _validate_policy_review_material
Publishable(c) ==
    /\ revisions[c.revision] \in {"PUBLISHED", "SUPERSEDED"}
    /\ c.verified => /\ c.documented
                     /\ c.admission_from # None \/ c.cohort # None
                     /\ c.context # "ADMISSION" => c.previous_plan # None

Applies(c, v) ==
    /\ c.context = v.context
    /\ c.admission_from # None => c.admission_from <= v.date
    /\ c.effective_from # None => c.effective_from <= v.date
    /\ c.admission_to # None => v.date < c.admission_to
    /\ c.effective_to # None => v.date < c.effective_to
    /\ c.cohort # None => c.cohort = v.cohort
    /\ c.previous_plan # None => c.previous_plan = v.previous_plan

Applicable(v) == {p \in Policies : policies[p].status = "PUBLISHED" /\ Applies(policies[p].content, v)}

\* A policy another applicable one supersedes is out, whatever that one is worth.
Effective(v) == {p \in Applicable(v) : \A q \in Applicable(v) : policies[q].content.supersedes # p}

\* can_resolve: publication has sealed hashes and evidence and no operation
\* retires a revision, so what is left to ask is the material.
Deciding(v) == {p \in Effective(v) : policies[p].content.verified /\ policies[p].content.documented}

\* resolve_curriculum_assignment.  fact is the individual admission fact when
\* a verified one was found.  The record stands for decision_hash: it differs
\* whenever an input of the hash does.
Resolution(v, fact) ==
    LET found == [input |-> v, fact |-> fact,
                  candidates |-> {<<p, revisions[policies[p].content.revision]>> : p \in Effective(v)}]
        outcome(status, p) == [status |-> status, policy |-> p, found |-> found,
                               revision |-> IF p = None THEN None ELSE policies[p].content.revision]
    IN  CASE Applicable(v) = {} -> outcome("UNKNOWN", None)
          [] Applicable(v) # {} /\ Cardinality(Deciding(v)) = 1 /\ fact # None ->
                 outcome("RESOLVED", CHOOSE p \in Deciding(v) : TRUE)
          [] OTHER -> outcome("NEEDS_REVIEW", None)

-----------------------------------------------------------------------------
(* Editing, submitting and publishing a policy.                            *)

LockedRevisions == {policies[review[a].policy].content.revision :
                       a \in {b \in Admins : review[b].step # "idle"}}
RowLocked(p) == \E a \in Admins : review[a].step # "idle" /\ review[a].policy = p

PolicyInit ==
    /\ policies = [p \in Policies |-> NoRow]
    /\ revisions = InitialRevisions
    /\ holder = [x \in Contexts |-> None]
    /\ review = [a \in Admins |-> Idle]

\* clean(): a successor names an earlier row of its context.
WellFormed(p, c) ==
    c.supersedes # None => /\ c.supersedes < p
                           /\ policies[c.supersedes].status # "NONE"
                           /\ policies[c.supersedes].content.context = c.context

\* The Django admin creates a draft; status, hashes and people are read-only there.
Prepare(a, p, c) ==
    /\ a \in Editors /\ policies[p].status = "NONE" /\ WellFormed(p, c)
    /\ p > 1 => policies[p - 1].status # "NONE"
    /\ policies' = [policies EXCEPT ![p] = [status |-> "DRAFT", content |-> c, preparer |-> a,
                                            approver |-> None, sealed |-> None]]
    /\ UNCHANGED <<revisions, holder, review>>

\* ... and edits it.  A save that was opened on a draft and arrives after the
\* submission is refused by save() or, when save() read too early, by the
\* trigger on the row, so what counts is the status the UPDATE finds.
Edit(p, c) ==
    /\ policies[p].status = "DRAFT" /\ ~RowLocked(p) /\ WellFormed(p, c)
    /\ policies' = [policies EXCEPT ![p].content = c]
    /\ UNCHANGED <<revisions, holder, review>>

\* The row locks.  Who may act and the status it takes cannot change while
\* the row is locked, so they are asked for here.
MaySubmit(a, p) == a \in Editors /\ policies[p].status = "DRAFT" /\ policies[p].preparer = a
MayPublish(a, p) == a \in Reviewers /\ policies[p].status = "IN_REVIEW" /\ policies[p].preparer # a

LockPolicy(a, op, p) ==
    /\ review[a] = Idle
    /\ IF op = "submit" THEN MaySubmit(a, p) ELSE MayPublish(a, p)
    /\ ~RowLocked(p) /\ policies[p].content.revision \notin LockedRevisions
    /\ review' = [review EXCEPT ![a] = [step |-> "locked", op |-> op, policy |-> p]]
    /\ UNCHANGED <<policies, revisions, holder>>

\* The advisory lock, then the checks.  A publication also recomputes the
\* hashes sealed at submission, the status of the target revision among them.
Passes(a) ==
    LET p == review[a].policy  c == policies[p].content IN
    /\ Publishable(c) /\ NoOverlap(p)
    /\ review[a].op = "publish" => policies[p].sealed = revisions[c.revision]

ScopeTaken(x) == holder[x] \in Admins \cup {None}   \* mutant: nobody waits for the advisory lock
ScopeFree(x) == holder[x] = None

Check(a) ==
    /\ review[a].step = "locked"
    /\ LET x == policies[review[a].policy].content.context IN
       /\ ScopeFree(x)
       /\ IF Passes(a)
          THEN /\ holder' = [holder EXCEPT ![x] = a]
               /\ review' = [review EXCEPT ![a].step = "checked"]
          ELSE /\ review' = [review EXCEPT ![a] = Idle]
               /\ UNCHANGED holder
    /\ UNCHANGED <<policies, revisions>>

Outcome(a) ==
    LET row == policies[review[a].policy] IN
    IF review[a].op = "submit"
    THEN [row EXCEPT !.status = "IN_REVIEW", !.sealed = revisions[row.content.revision]]
    ELSE [row EXCEPT !.status = "PUBLISHED", !.approver = a]

FreeScope(a) == [x \in Contexts |-> IF holder[x] = a THEN None ELSE holder[x]]

Commit(a) ==
    /\ review[a].step = "checked"
    /\ policies' = [policies EXCEPT ![review[a].policy] = Outcome(a)]
    /\ holder' = FreeScope(a)
    /\ review' = [review EXCEPT ![a] = Idle]
    /\ UNCHANGED revisions

\* A lost connection or a failed save ends the transaction with nothing written.
Abort(a) ==
    /\ review[a].step # "idle"
    /\ holder' = FreeScope(a)
    /\ review' = [review EXCEPT ![a] = Idle]
    /\ UNCHANGED <<policies, revisions>>

\* publish_proposal: the target becomes PUBLISHED and the current revision of
\* its plan SUPERSEDED; it locks both rows.
PublishRevision(r) ==
    LET current == {s \in Revisions : PlanOf[s] = PlanOf[r] /\ revisions[s] = "PUBLISHED"} IN
    /\ revisions[r] = "DRAFT"
    /\ ({r} \cup current) \cap LockedRevisions = {}
    /\ revisions' = [s \in Revisions |-> IF s = r THEN "PUBLISHED"
                                         ELSE IF s \in current THEN "SUPERSEDED" ELSE revisions[s]]
    /\ UNCHANGED <<policies, holder, review>>

\* A transaction that resolves an admission takes the scope and keeps it until it ends.
Consult(a, x) ==
    /\ review[a] = Idle /\ ScopeFree(x)
    /\ holder' = [holder EXCEPT ![x] = a]
    /\ UNCHANGED <<policies, revisions, review>>

Leave(a) ==
    /\ review[a] = Idle
    /\ holder' = FreeScope(a)
    /\ UNCHANGED <<policies, revisions, review>>

GovernanceNext ==
    \/ \E a \in Admins, p \in Policies, c \in Contents : Prepare(a, p, c)
    \/ \E p \in Policies, c \in Contents : Edit(p, c)
    \/ \E a \in Admins, op \in {"submit", "publish"}, p \in Policies : LockPolicy(a, op, p)
    \/ \E a \in Admins : Check(a) \/ Commit(a) \/ Abort(a)
    \/ \E r \in Revisions : PublishRevision(r)

PolicyNext ==
    \/ GovernanceNext
    \/ \E a \in Admins : Leave(a) \/ \E x \in Contexts : Consult(a, x)

PolicySpec == PolicyInit /\ [][PolicyNext]_policyVars

-----------------------------------------------------------------------------
(* Properties.                                                             *)

PolicyTypeOK ==
    /\ policies \in [Policies -> [status : {"NONE", "DRAFT", "IN_REVIEW", "PUBLISHED"},
                                  content : Contents \cup {None},
                                  preparer : Admins \cup {None}, approver : Admins \cup {None},
                                  sealed : {"PUBLISHED", "SUPERSEDED", None}]]
    /\ revisions \in [Revisions -> {"DRAFT", "PUBLISHED", "SUPERSEDED"}]
    /\ holder \in [Contexts -> Admins \cup {None}]
    /\ review \in [Admins -> [step : {"idle", "locked", "checked"},
                              op : {"submit", "publish", None}, policy : Policies \cup {None}]]
    /\ \A p \in Policies : policies[p].status # "NONE" => policies[p].content \in Contents
    /\ \A a \in Admins : review[a].step # "idle" =>
           review[a].policy \in Policies /\ policies[review[a].policy].status # "NONE"

\* Of all policies in force, at most one decides any admission: the resolver
\* never meets two candidates of equal standing, whatever the order in which
\* drafts were edited, submitted, refused and published.  (The query order
\* and priorities may not break such a tie, so it would block the admission.)
OnePolicyDecides == \A v \in Inputs : \A p, q \in Deciding(v) : p = q
=============================================================================
