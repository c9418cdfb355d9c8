------------------------------ MODULE TermPlan ------------------------------
(***************************************************************************)
(* The validator of planning scenarios (domain/planning/validator.py): may *)
(* each planned course be taken in its term, given the history and the     *)
(* rest of the plan?  It has an evaluator of rules of its own, which       *)
(* answers for a term to come what the audit answers for today.            *)
(*                                                                         *)
(* A plan is a set of [course, term, credits, meetings]; a term is its     *)
(* position in the calendar, and the meetings are those of the section     *)
(* chosen.  The history is a record of two sets of courses, passed and     *)
(* inProgress.  A course has requirements [rule, verified]; a rule that    *)
(* could not be parsed is None.  Warnings are a kind and what it is about, *)
(* a course in a term or a term alone.                                     *)
(***************************************************************************)
EXTENDS AuditRules, FiniteSetsExt

INSTANCE Schedule

Planned(plan, c)         == {item.term : item \in {i \in plan : i.course = c}}
PlannedBy(plan, c, term)     == \E t \in Planned(plan, c) : t <= term
PlannedBefore(plan, c, term) == \E t \in Planned(plan, c) : t < term

\* A course asked for as passed counts if it is planned earlier; one that may be
\* taken alongside counts if it is planned no later.
CourseAnswer(c, alongside, plan, term, history) ==
    Decide(\/ c \in history.passed \cup history.inProgress
           \/ IF alongside THEN PlannedBy(plan, c, term) ELSE PlannedBefore(plan, c, term))

\* The credits planned up to a term, that term included; a course without known
\* credits adds nothing.
ProjectedCredits(plan, term) ==
    MapThenSumSet(LAMBDA item : IF item.credits = None THEN 0 ELSE item.credits,
                  {item \in plan : item.term <= term})

\* What a rule without others in it says of a course planned in the term.
ExpectLeaf(rule, plan, term, history, total) ==
    LET Answer(c, alongside) == CourseAnswer(c, alongside, plan, term, history)
    IN CASE rule.kind = "COURSE_PASSED" -> Answer(rule.course, FALSE)
         [] rule.kind \in {"COURSE_IN_PROGRESS", "COURSE_PASSED_OR_IN_PROGRESS", "COREQUISITE"} ->
              Answer(rule.course, TRUE)
         [] rule.kind = "MANDATORY_COURSES_COMPLETED" ->
              CombineAll({Answer(c, FALSE) : c \in rule.courses})
         [] rule.kind = "EQUIVALENT_COURSE_PASSED" ->
              CombineAny({Answer(c, FALSE) : c \in rule.courses})
         [] rule.kind = "TOTAL_CREDITS" ->
              Decide(Compare(ProjectedCredits(plan, term), rule.operator, rule.value))
         [] rule.kind = "PERCENTAGE_OF_PLAN" ->
              Decide(ProjectedCredits(plan, term) * rule.denominator >= total * rule.numerator)
         [] OTHER -> "UNKNOWN"

Expect(rule, plan, term, history, total) ==
    LET Answer[r \in AuditRule] ==
          CASE r.kind = "ALL" -> CombineAll({Answer[c] : c \in ToSet(r.children)})
            [] r.kind = "ANY" -> CombineAny({Answer[c] : c \in ToSet(r.children)})
            [] r.kind = "NOT" -> Negate(Answer[r.child])
            [] OTHER          -> ExpectLeaf(r, plan, term, history, total)
    IN Answer[rule]

\* The state of a planned course: every verified rule of it is asked.
PrerequisiteState(item, requirements, plan, history, total) ==
    LET asked == {r \in requirements[item.course] : r.verified /\ r.rule # None}
    IN IF asked = {} THEN "UNKNOWN"
       ELSE CombineAll({Expect(r.rule, plan, item.term, history, total) : r \in asked})

\* The sections planned in a term are compared with each other.
TermSchedule(plan, term, calendar) ==
    ScheduleState(UNION {item.meetings : item \in {i \in plan : i.term = term}}, calendar[term])

-----------------------------------------------------------------------------
(* The warnings.                                                           *)

\* A course that comes again, here or in a term before.
Repeated(item, plan) == \E other \in plan \ {item} : other.course = item.course /\ other.term <= item.term

WarnedOf(state) ==
    CASE state = "UNSATISFIED" -> {"PREREQUISITE_BLOCKED"}
      [] state = "UNKNOWN"     -> {"PREREQUISITE_UNKNOWN"}
      [] OTHER                 -> {}

OfferWarned(state) ==
    CASE state = "NOT_OFFERED" -> {"OFFERING_NOT_REPORTED"}
      [] state = "UNKNOWN"     -> {"OFFERING_UNKNOWN"}
      [] OTHER                 -> {}

\* What is said of a planned course; state is that of its prerequisites.
CourseWarnings(item, state, plan, offered, preferences) ==
    WarnedOf(state) \cup OfferWarned(offered[item.course][item.term])
    \cup {"DUPLICATE_COURSE" : other \in {i \in {item} : Repeated(i, plan)}}
    \cup {"CREDITS_UNKNOWN" : other \in {i \in {item} : i.credits = None}}
    \cup {"UNAVAILABLE_WEEKDAY" : m \in {n \in item.meetings : n.day \in preferences.unavailable}}

PlannedCredits(plan, term) == ProjectedCredits({item \in plan : item.term = term}, term)

\* What is said of a term with something in it.
TermWarnings(plan, term, calendar, preferences) ==
    {w \in {"CREDITS_ABOVE_MAX", "CREDITS_BELOW_MIN", "SCHEDULE_CONFLICT", "SCHEDULE_UNKNOWN"} :
        CASE w = "CREDITS_ABOVE_MAX" -> PlannedCredits(plan, term) > preferences.max
          [] w = "CREDITS_BELOW_MIN" -> PlannedCredits(plan, term) < preferences.min
          [] w = "SCHEDULE_CONFLICT" -> TermSchedule(plan, term, calendar) = "CONFLICT"
          [] w = "SCHEDULE_UNKNOWN"  -> TermSchedule(plan, term, calendar) = "UNKNOWN"}

Warnings(plan, requirements, history, total, calendar, offered, preferences) ==
    (UNION {{<<w, item.course, item.term>> :
                w \in CourseWarnings(item, PrerequisiteState(item, requirements, plan, history, total),
                                     plan, offered, preferences)} : item \in plan})
    \cup (UNION {{<<w, None, t>> : w \in TermWarnings(plan, t, calendar, preferences)} :
                    t \in {item.term : item \in plan}})
=============================================================================
