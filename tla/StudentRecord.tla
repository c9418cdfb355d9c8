---------------------------- MODULE StudentRecord ----------------------------
(***************************************************************************)
(* A student's record as the audit sees it (build_audit_input), growing    *)
(* one fact at a time, and one planning scenario of the student.  Every    *)
(* state is an input of the audit and of the validator, and every step     *)
(* one more fact: what the algorithms answer is compared across steps.     *)
(*                                                                         *)
(* The properties here are about the ledger, the rule language, the edges  *)
(* of the dependency graph, the schedule and the optimizer; those of the   *)
(* pages are in StudentPages and those of the searches in StudentProgress, *)
(* which have the same states and steps.                                   *)
(***************************************************************************)
EXTENDS PlanSolver, CurriculumGraph

CONSTANTS
    Studies,       \* curricula, each with the facts that may come up in it
    Externals,     \* requirements outside of the university's records
    MaxAttempts    \* bound on the attempts of the history

IsMembership(m) == m.course \in Courses /\ m.group \in Groups

IsRevision(r) ==
    /\ DOMAIN r.groups = Groups /\ \A g \in Groups : r.groups[g].required \in Nat
    /\ \A m \in r.memberships : IsMembership(m)
    /\ r.credits \in [Courses -> Nat \cup {None}] /\ r.total \in Nat
    /\ \A q \in r.requirements : q.rule \in AuditRule

Attempts == [course : Courses, status : AttemptStatuses, credits : Nat \cup {None}]

IsItem(item, calendar) ==
    /\ item.course \in Courses /\ item.term \in DOMAIN calendar
    /\ item.credits \in Nat \cup {None}
    /\ \A m \in item.meetings : IsMeeting(m) /\ m.section = item.section
    /\ item.meetings # {} => item.section # None

\* A study with an optimizer: a course is planned once in a term.
IsSolved(solver, items, calendar) ==
    /\ solver.elsewhere \subseteq Courses
    /\ solver.offered \in [Courses -> [DOMAIN calendar -> {"OFFERED", "NOT_OFFERED", "UNKNOWN"}]]
    /\ PreferencesValid(solver.preferences)
    /\ solver.preferences.min \in Nat /\ solver.preferences.max \in Nat
    /\ solver.preferences.target \in Nat \cup {None}
    /\ \A i, j \in items : i.course = j.course /\ i.term = j.term => i = j

\* What the columns of the catalogue and of the history allow.  The time zones of one
\* study are at most a day apart.
ASSUME StudiesAssumption ==
    \A s \in Studies :
        /\ IsRevision(s.revision) /\ s.attempts \subseteq Attempts
        /\ s.recognitions \subseteq [course : Courses, credits : Nat]
        /\ s.externals \subseteq Externals
        /\ s.exceptions \subseteq [groups : SUBSET Groups, courses : SUBSET Courses]
        /\ Len(s.calendar) \in Nat /\ DOMAIN s.calendar = 1..Len(s.calendar)
        /\ \A t \in DOMAIN s.calendar : IsTerm(s.calendar[t])
        /\ \A i \in s.items : IsItem(i, s.calendar)
        /\ s.solver # None => IsSolved(s.solver, s.items, s.calendar)
        /\ ZonesClose(UNION {i.meetings : i \in s.items})

ASSUME ExternalsAssumption ==
    \A rule \in AuditRule : rule.kind = "EXTERNAL_REQUIREMENT" => rule.key \in Externals

\* What a course is recognized for is known by that course.
ASSUME KeysAssumption ==
    \A rule \in AuditRule : rule.kind = "EQUIVALENT_COURSE_PASSED" => rule.key \in Courses

VARIABLES
    study,         \* the curriculum, fixed from the beginning
    student,       \* the facts the audit is given
    plan           \* the courses planned, with their terms

vars == <<study, student, plan>>

revision == study.revision

NewStudent ==
    [attempts    |-> {},
     recognition |-> [c \in Courses |-> None],
     external    |-> [k \in Externals |-> None],
     waived      |-> [groups |-> {}, courses |-> {}]]

Init == study \in Studies /\ student = NewStudent /\ plan = {}

\* An attempt enters the history, with the credits of its version of the course.
RecordAttempt(a) ==
    /\ a \notin student.attempts /\ Cardinality(student.attempts) < MaxAttempts
    /\ student' = [student EXCEPT !.attempts = @ \cup {a}]
    /\ UNCHANGED <<study, plan>>

\* A course taken this term is passed.
PassAttempt(a) ==
    /\ a.status = "ENROLLED"
    /\ student' = [student EXCEPT !.attempts = (@ \ {a}) \cup {[a EXCEPT !.status = "PASSED"]}]
    /\ UNCHANGED <<study, plan>>

\* Of several recognitions of a course, the one with most credits counts.
Recognize(c, credits) ==
    /\ student' = [student EXCEPT !.recognition[c] = Max({Known(@), credits})]
    /\ UNCHANGED <<study, plan>>

\* The caller of the audit states one more external requirement.
StateExternal(k, status) ==
    /\ student.external[k] = None
    /\ student' = [student EXCEPT !.external[k] = status]
    /\ UNCHANGED <<study, plan>>

\* An approved exception waives groups and courses.
ApproveException(scope) ==
    /\ student' = [student EXCEPT !.waived = [groups  |-> @.groups \cup scope.groups,
                                              courses |-> @.courses \cup scope.courses]]
    /\ UNCHANGED <<study, plan>>

PlanCourse(item) ==
    /\ item \notin plan
    /\ plan' = plan \cup {item}
    /\ UNCHANGED <<study, student>>

UnplanCourse(item) ==
    /\ plan' = plan \ {item}
    /\ UNCHANGED <<study, student>>

Next ==
    \/ \E a \in study.attempts : RecordAttempt(a)
    \/ \E a \in student.attempts : PassAttempt(a)
    \/ \E r \in study.recognitions : Recognize(r.course, r.credits)
    \/ \E k \in study.externals, s \in Statuses \ {"UNKNOWN"} : StateExternal(k, s)
    \/ \E scope \in study.exceptions : ApproveException(scope)
    \/ \E item \in study.items : PlanCourse(item)
    \/ \E item \in plan : UnplanCourse(item)

Spec == Init /\ [][Next]_vars

-----------------------------------------------------------------------------
(* Properties.                                                             *)

Records ==
    [attempts    : SUBSET Attempts,
     recognition : [Courses -> Nat \cup {None}],
     external    : [Externals -> Statuses \cup {None}],
     waived      : [groups : SUBSET Groups, courses : SUBSET Courses]]

TypeOK ==
    /\ study \in Studies
    /\ student \in Records /\ IsFiniteSet(student.attempts)
    /\ plan \subseteq study.items

Worth(c) == IF c \in Passed(student) THEN Known(EarnedCredits(revision, student, c)) ELSE 0

\* The ledger is greedy and goes by the codes of the courses, so a new course may
\* push another one out of its group.  Nevertheless, as long as no course loses
\* credits, no group does.
CreditsOnlyGrow ==
    [][LET before == GroupApplied(revision, student)
           after  == GroupApplied(revision, student')
       IN student' # student /\ (\A c \in Courses : Worth(c)' >= Worth(c)) =>
             \A g \in Groups : after[g] >= before[g]]_vars

Decided == {"SATISFIED", "UNSATISFIED"}

\* An answer that was given while an external requirement was unknown remains
\* when it becomes known, whatever it turns out to be: no rule, however nested,
\* and no verdict takes a missing fact for a met or a failed requirement.
AnswersSurviveKnowledge ==
    [][student'.external # student.external =>
          LET before == Facts(revision, student)
              after  == Facts(revision, student')
          IN /\ Overall(revision, student) \in Decided =>
                   Overall(revision, student') = Overall(revision, student)
             /\ \A r \in revision.requirements :
                   RequirementStatus(r, before) \in Decided =>
                      RequirementStatus(r, after) = RequirementStatus(r, before)]_vars

AsksForCredits(rule) ==
    \E part \in Parts(rule) :
        part.rule.kind \in {"CREDITS_IN_GROUP", "CREDITS_IN_COMPONENT", "TOTAL_CREDITS",
                           "GROUP_COMPLETED", "PERCENTAGE_OF_PLAN"}

\* The dependency graph shows everything that a course can open or close: a new
\* attempt changes what the audit says of another course only if the graph has an
\* edge between the two, or the rule asks for credits.
GraphShowsWhatMatters ==
    [][student'.attempts # student.attempts =>
          LET before  == Facts(revision, student)
              after   == Facts(revision, student')
              touched == {a.course : a \in (student'.attempts \ student.attempts) \cup
                                            (student.attempts \ student'.attempts)}
          IN \A r \in {q \in revision.requirements : q.owner # None} :
                RequirementStatus(r, after) # RequirementStatus(r, before) =>
                   \/ AsksForCredits(r.rule)
                   \/ \E e \in Relations({r}) : e.source \in touched /\ e.target = r.owner]_vars

\* A rule names a course, itself or in a rule inside of it.
Names(rule, c) == \E part \in Parts(rule) : c \in Named(part.rule)

AboutCoursesOnly(rule) ==
    LET Only[r \in AuditRule] ==
          CASE r.kind \in {"ALL", "ANY", "NOT"} -> \A c \in Children(r) : Only[c]
            [] OTHER -> r.kind \in {"COURSE_PASSED", "COURSE_PASSED_OR_IN_PROGRESS", "COREQUISITE",
                                   "MANDATORY_COURSES_COMPLETED", "UNKNOWN"}
    IN Only[rule]

\* The history of the scenarios service: recognitions are not part of it.
History == [passed |-> Selected(student), inProgress |-> InProgress(student)]

\* The student when a term begins, the plan having been followed until then: what was
\* in progress and what was planned for the terms before has been passed, with the
\* credits the plan shows, and the courses of the term are being taken.
Attended(items, status) ==
    {[course |-> i.course, status |-> status, credits |-> i.credits] : i \in items}

StudentAt(term) ==
    [student EXCEPT !.attempts =
        {IF a.status \in InProgressStatuses THEN [a EXCEPT !.status = "PASSED"] ELSE a : a \in @}
        \cup Attended({i \in plan : i.term < term}, "PASSED")
        \cup Attended({i \in plan : i.term = term}, "ENROLLED")]

FactsAt(term) == Facts(revision, StudentAt(term))

Requirements(c) == {r \in revision.requirements : r.owner = c}

\* What the validator says of a planned course is what the audit will say when its
\* term comes, if the plan is followed; or the audit will not know, as a course that
\* the rules name is passed then with credits that nobody knows, to which the validator
\* does not look.  It holds of rules about courses, for a student without recognitions:
\* the two evaluators differ on the others.
PlanAgreesWithAudit ==
    Recognized(student) = {} =>
        \A item \in plan :
            LET asked  == {r \in Requirements(item.course) : r.verified}
                answer == CombineAll({Evaluate(r.rule, FactsAt(item.term)) : r \in asked})
                expected == PrerequisiteState(item, [c \in Courses |-> Requirements(c)], plan, History,
                                              revision.total)
            IN asked # {} /\ (\A r \in asked : AboutCoursesOnly(r.rule)) =>
                  \/ answer = expected
                  \/ /\ answer = "UNKNOWN"
                     /\ \E r \in asked, c \in FactsAt(item.term).unknown : Names(r.rule, c)

\* The input of an optimization run of this plan, if the study has one.
Input == SolverInput(revision, student, plan, study.solver.elsewhere, study.solver.offered,
                     study.calendar, study.solver.preferences)

\* No plan makes an input that its own checks refuse; and a run that ends INFEASIBLE
\* before the search ends so for a reason: no assignment satisfies the model.
RefusedForAReason ==
    study.solver # None =>
        /\ InputValid(Input)
        /\ Conflicts(Input) # {} => Solutions(Input) = {}

WithoutNot(rule) == \A part \in Parts(rule) : part.rule.kind # "NOT"

\* An assignment as a plan: each choice with the section its candidate has.
AsPlan(input, s) ==
    {[course |-> k.course, term |-> k.term, credits |-> input.credits[k.course],
      meetings |-> k.meetings] : k \in {l \in input.candidates : <<l.course, l.term>> \in s.x}}

WarningsOf(scenario) ==
    Warnings(scenario, [c \in Courses |-> Requirements(c)], History, revision.total, study.calendar,
             study.solver.offered, study.solver.preferences)

\* The validator and the constraint model read these rules apart: a negation of what is
\* in progress, and a negation of what the model cannot express.
ReadAlike(c) ==
    \A r \in Requirements(c) :
        \/ WithoutNot(r.rule)
        \/ InProgress(student) = {} /\ AboutCoursesOnly(r.rule)

\* The warnings that a plan of the optimizer may have: facts that nobody knows, and
\* days, which it does not look at.
Expected(warning) ==
    CASE warning[1] = "PREREQUISITE_BLOCKED" -> ~ReadAlike(warning[2])
      [] warning[1] = "OFFERING_UNKNOWN"     -> study.solver.preferences.allowUnknown
      [] OTHER -> warning[1] \in {"PREREQUISITE_UNKNOWN", "CREDITS_UNKNOWN", "SCHEDULE_UNKNOWN",
                                  "UNAVAILABLE_WEEKDAY"}

\* A plan about which there is nothing to say, with all that the degree still asks for,
\* is one that the optimizer could propose: as long as nothing is in progress, which
\* the model does not take for passed, no rule is left out for not being verified, and
\* none asks for a share of the plan, which the model cannot express, or for a course to
\* be in progress, which to the validator a passed one is.
Expressible(rule) ==
    \A part \in Parts(rule) : part.rule.kind \notin {"PERCENTAGE_OF_PLAN", "COURSE_IN_PROGRESS"}

Comparable(input) ==
    /\ InProgress(student) = {}
    /\ \A item \in plan :
          /\ item.course \notin input.passed /\ item.credits = input.credits[item.course]
          /\ \A r \in Requirements(item.course) : r.verified /\ Expressible(r.rule)

AcceptedByTheModel(input, s) ==
    (MandatoryTaken(input, s.x) /\ TargetMet(input, s.x)) =>
       /\ s.x \in Selections(input)
       /\ GroupsCovered(input, s) => s \in Solutions(input)

\* The optimizer proposes no plan that the validator has anything against: no course
\* before what it requires, nor twice, no clash, no term above or below the limits; and
\* a plan the validator has nothing against is among those it may propose.
ProposedPlansAreValid ==
    study.solver # None =>
        /\ \A s \in Solutions(Input) :
              \A warning \in WarningsOf(AsPlan(Input, s)) : Expected(warning)
        /\ plan # {} /\ Comparable(Input) /\ WarningsOf(plan) = {} =>
              \A x \in {{<<item.course, item.term>> : item \in plan}} :
                  AcceptedByTheModel(Input, [x |-> x, y |-> Countable(Input, x)])

\* The plan is warned of a clash exactly if there is an hour of the term at which
\* two of its sections meet: across time zones and midnight, for meetings that only
\* share some weeks, and not for meetings that follow each other.
ClashesAreReal ==
    \A term \in DOMAIN study.calendar :
        SaysWhatIs(TermSchedule(plan, term, study.calendar),
                   UNION {item.meetings : item \in {i \in plan : i.term = term}},
                   study.calendar[term])
=============================================================================
