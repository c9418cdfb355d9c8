--------------------------- MODULE AcademicOverview -------------------------
(***************************************************************************)
(* What the audit tells the student to do next, and the page that shows it *)
(* (the end of audit_degree, and audit/application/overview.py).  The page *)
(* takes the answers of the audit and reads the attempts once more; it     *)
(* does not read recognitions, so a recognized course is still to be taken *)
(* there.  Labels, links, evidence and percentages are left out.           *)
(***************************************************************************)
EXTENDS DegreeAudit

MandatoryMissing(revision, student, g) ==
    MandatoryCourses(revision, g) \ (Passed(student) \cup student.waived.courses)

RemainingOf(revision, student, g) ==
    IF g \in student.waived.groups THEN 0
    ELSE Max({0, revision.groups[g].required - GroupApplied(revision, student)[g]})

\* What is left to do, as pairs of a kind and what it is about.
RemainingRequirements(revision, student) ==
    LET facts == Facts(revision, student)
    IN {<<"group", g>> : g \in {h \in Groups :
            RemainingOf(revision, student, h) > 0 \/ MandatoryMissing(revision, student, h) # {}}}
       \cup {<<"requirement", r>> : r \in {q \in revision.requirements :
            RequirementStatus(q, facts) # "SATISFIED"}}

\* The answers about the courses still to be passed.
NextUnlocks(revision, student) ==
    LET facts == Facts(revision, student)
    IN {[course |-> r.owner, status |-> RequirementStatus(r, facts)] :
           r \in {q \in revision.requirements : q.owner # None /\ q.owner \notin Passed(student)}}

\* Mutant: a requirement that is met opens the course.
AnyOpens(statuses) ==
    CASE statuses \cap {"SATISFIED", "NOT_APPLICABLE"} # {} -> "ELIGIBLE"
      [] "UNSATISFIED" \in statuses                         -> "BLOCKED"
      [] OTHER                                              -> "UNKNOWN"

\* No requirement is no proof that the course is open.
Opens(statuses) ==
    CASE statuses = {}                                                   -> "UNKNOWN"
      [] "UNSATISFIED" \in statuses                                      -> "BLOCKED"
      [] "UNSATISFIED" \notin statuses /\ "UNKNOWN" \in statuses         -> "UNKNOWN"
      [] statuses # {} /\ statuses \subseteq {"SATISFIED", "NOT_APPLICABLE"} -> "ELIGIBLE"

Eligibility(revision, student, c) ==
    LET facts == Facts(revision, student)
    IN CASE c \in Selected(student)   -> "PASSED"
         [] c \in InProgress(student) -> "IN_PROGRESS"
         [] OTHER -> Opens({RequirementStatus(r, facts) : r \in {q \in revision.requirements : q.owner = c}})

\* The state of the page.
NothingKnown(student) == student.attempts = {} /\ Recognized(student) = {}

SomethingUnknown(revision, facts) ==
    facts.unknown # {} \/ \E r \in revision.requirements : RequirementStatus(r, facts) = "UNKNOWN"

OverviewState(revision, student) ==
    CASE NothingKnown(student) -> "NO_HISTORY"
      [] ~NothingKnown(student) /\ SomethingUnknown(revision, Facts(revision, student)) -> "INCOMPLETE"
      [] OTHER -> "READY"

-----------------------------------------------------------------------------
(* The page.  It is about the courses of the revision: a course that only  *)
(* a requirement names has no place in it.                                 *)

MemberCourses(revision) == {m.course : m \in revision.memberships}

\* A course that is passed or being taken needs no reasons.
ReasonsFor(revision, student, c) ==
    LET facts == Facts(revision, student)
    IN IF c \in Selected(student) \cup InProgress(student) THEN {}
       ELSE {[requirement |-> r, status |-> RequirementStatus(r, facts)] :
                r \in {q \in revision.requirements : q.owner = c}}

CourseOptions(revision, student) ==
    [c \in MemberCourses(revision) |->
        [eligibility |-> Eligibility(revision, student, c), reasons |-> ReasonsFor(revision, student, c)]]

GroupViews(revision, student) ==
    LET applied == GroupApplied(revision, student)
    IN [g \in Groups |->
          [applied |-> applied[g], remaining |-> RemainingOf(revision, student, g),
           missing |-> MandatoryMissing(revision, student, g),
           options |-> {m.course : m \in {n \in revision.memberships : n.group = g /\ n.role # "MANDATORY"}}
                          \ Passed(student),
           status  |-> GroupStatus(revision, student, applied, g)]]

Overview(revision, student) ==
    [state   |-> OverviewState(revision, student),
     verdict |-> Overall(revision, student),
     groups  |-> GroupViews(revision, student),
     options |-> CourseOptions(revision, student),
     unlocks |-> {u \in NextUnlocks(revision, student) : u.course \in MemberCourses(revision)}]
=============================================================================
