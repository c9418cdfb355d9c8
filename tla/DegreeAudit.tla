---------------------------- MODULE DegreeAudit -----------------------------
(***************************************************************************)
(* The degree audit (domain/audit/engine.py): which group of the           *)
(* curriculum each course counts for, and whether the student may          *)
(* graduate.  Courses and groups are numbers in the order of their codes,  *)
(* since the engine goes through them in that order.                       *)
(*                                                                         *)
(* A revision is a record:                                                 *)
(*    groups        what each group requires, its component, and whether   *)
(*                  it is the open elective                                *)
(*    memberships   a set of [course, group, role]                         *)
(*    total         the credits of the whole plan                          *)
(*    credits       the catalogue's credits of each course, or None        *)
(*    requirements  a set of [owner, rule, verified]: owner is a course,   *)
(*                  or None for a condition of graduation                  *)
(* A student is a record:                                                  *)
(*    attempts      a set of [course, status, credits]                     *)
(*    recognition   per course: None, or the credits recognized (0 when    *)
(*                  the recognition states none)                           *)
(*    external      what is known of each external requirement             *)
(*    waived        groups and courses of approved exceptions              *)
(* Warnings, explanations, fingerprints and hashes are left out.           *)
(***************************************************************************)
EXTENDS AuditRules, FiniteSetsExt

CONSTANTS NumCourses, NumGroups

ASSUME NumbersAssumption == NumCourses \in Nat /\ NumGroups \in Nat

Courses == 1..NumCourses
Groups  == 1..NumGroups

AcceptedStatuses   == {"PASSED", "VALIDATED", "HOMOLOGATED", "TRANSFERRED"}
InProgressStatuses == {"ENROLLED", "PLANNED"}
AttemptStatuses    ==
    AcceptedStatuses \cup InProgressStatuses \cup {"FAILED", "CANCELLED", "WITHDRAWN", "ANNULLED"}

Known(credits) == IF credits = None THEN 0 ELSE credits

-----------------------------------------------------------------------------
(* The facts: one attempt per course counts.                               *)

Accepted(student, c) ==
    {a \in student.attempts : a.course = c /\ a.status \in AcceptedStatuses}

\* Of several accepted attempts of a course, the one with most credits.
BestCredits(student, c) == Max({0} \cup {Known(a.credits) : a \in Accepted(student, c)})

Selected(student)   == {c \in Courses : Accepted(student, c) # {}}
Recognized(student) == {c \in Courses : student.recognition[c] # None}
Passed(student)     == Selected(student) \cup Recognized(student)
InProgress(student) ==
    {c \in Courses \ Selected(student) :
        \E a \in student.attempts : a.course = c /\ a.status \in InProgressStatuses}

\* What a passed course is worth: the credits of its attempt, else the ones
\* recognized, else the catalogue's.
EarnedCredits(revision, student, c) ==
    LET best == BestCredits(student, c)
    IN CASE best > 0                                              -> best
         [] best = 0 /\ student.recognition[c] \notin {None, 0} -> student.recognition[c]
         [] OTHER                                                -> revision.credits[c]

CreditsUnknown(revision, student) ==
    {c \in Passed(student) : EarnedCredits(revision, student, c) = None}

-----------------------------------------------------------------------------
(* The ledger: each course, in the order of the codes, counts for the      *)
(* first of its mandatory groups; without one, for the first of its groups *)
(* that still needs credits; else for an open elective that does.          *)

GroupsOf(revision, c)        == {m.group : m \in {n \in revision.memberships : n.course = c}}
MandatoryGroups(revision, c) ==
    {m.group : m \in {n \in revision.memberships : n.course = c /\ n.role = "MANDATORY"}}

Needing(revision, applied, groups) ==
    {g \in groups : applied[g] < revision.groups[g].required}

Candidates(revision, applied, c) ==
    LET mandatory == MandatoryGroups(revision, c)
        elective  == Needing(revision, applied, GroupsOf(revision, c))
        open      == Needing(revision, applied, {g \in Groups : revision.groups[g].open})
    IN CASE mandatory # {}                    -> mandatory
         [] mandatory = {} /\ elective # {}   -> elective
         [] OTHER                             -> open

\* Mutant: a course counts only where all of its credits fit.
AllocateWhole(revision, student, applied, c) ==
    LET credits    == Known(EarnedCredits(revision, student, c))
        candidates == {g \in Candidates(revision, applied, c) :
                          applied[g] + credits <= revision.groups[g].required}
    IN IF candidates = {} THEN applied ELSE [applied EXCEPT ![Min(candidates)] = @ + credits]

Allocate(revision, student, applied, c) ==
    LET credits    == Known(EarnedCredits(revision, student, c))
        candidates == Candidates(revision, applied, c)
        group      == Min(candidates)
        room       == revision.groups[group].required - applied[group]
    IN IF candidates = {} THEN applied
       ELSE [applied EXCEPT ![group] = @ + Min({credits, room})]

GroupApplied(revision, student) ==
    LET passed == Passed(student)
        After[n \in 0..NumCourses] ==
            LET before == After[n - 1]
            IN IF n = 0 THEN [g \in Groups |-> 0]
               ELSE IF n \in passed THEN Allocate(revision, student, before, n) ELSE before
    IN After[NumCourses]

TotalEarned(revision, student) ==
    MapThenSumSet(LAMBDA c : Known(EarnedCredits(revision, student, c)), Passed(student))

-----------------------------------------------------------------------------
(* The verdict.                                                            *)

Components(revision) == {revision.groups[g].component : g \in Groups}

MandatoryCourses(revision, g) ==
    {m.course : m \in {n \in revision.memberships : n.group = g /\ n.role = "MANDATORY"}}

GroupStatus(revision, student, applied, g) ==
    IF g \in student.waived.groups THEN "SATISFIED"
    ELSE Decide(/\ MandatoryCourses(revision, g) \subseteq Passed(student) \cup student.waived.courses
                /\ applied[g] >= revision.groups[g].required)

\* What the rules are asked about: prepared once, from the ledger.  Courses are
\* recognized from outside the plan.
Facts(revision, student) ==
    LET applied == GroupApplied(revision, student)
    IN [passed       |-> Passed(student),
        inProgress   |-> InProgress(student),
        unknown      |-> CreditsUnknown(revision, student),
        earned       |-> TotalEarned(revision, student),
        planTotal    |-> revision.total,
        group        |-> applied,
        component    |-> [k \in Components(revision) |->
                             MapThenSumSet(LAMBDA g : applied[g],
                                           {g \in Groups : revision.groups[g].component = k})],
        required     |-> [g \in Groups |-> revision.groups[g].required],
        external     |-> student.external,
        recognitions |-> [c \in Courses |-> IF student.recognition[c] = None THEN None ELSE {}]]

\* A requirement nobody has verified says nothing.
RequirementStatus(requirement, facts) ==
    IF requirement.verified THEN Evaluate(requirement.rule, facts) ELSE "UNKNOWN"

\* An open requirement matters if graduation, or a mandatory course, hangs on it.
Material(revision, requirement) ==
    \/ requirement.owner = None
    \/ \E g \in Groups : requirement.owner \in MandatoryCourses(revision, g)

Overall(revision, student) ==
    LET facts  == Facts(revision, student)
        groups == {GroupStatus(revision, student, facts.group, g) : g \in Groups}
        Answers(R) == {RequirementStatus(r, facts) : r \in R}
        graduation == {r \in revision.requirements : r.owner = None}
        material   == {r \in revision.requirements : Material(revision, r)}
    IN CASE "UNSATISFIED" \in groups \cup Answers(graduation) -> "UNSATISFIED"
         [] /\ "UNSATISFIED" \notin groups \cup Answers(graduation)
            /\ facts.unknown # {} \/ "UNKNOWN" \in Answers(material) -> "UNKNOWN"
         [] OTHER -> "SATISFIED"
=============================================================================
