----------------------------- MODULE AuditRules -----------------------------
(***************************************************************************)
(* The rule language of the degree audit (domain/rules): what a rule says  *)
(* of a student, given the facts the audit prepared.  An answer is one of  *)
(* four: a rule is decided, or a fact is missing, or it does not apply.    *)
(*                                                                         *)
(* A rule is a record with a kind; ALL and ANY have a sequence of          *)
(* children, NOT has one.  The facts are a record:                         *)
(*    passed, inProgress, unknown   sets of courses; the credits of the    *)
(*                                  unknown ones could not be determined   *)
(*    earned, planTotal             credits                                *)
(*    group, component, required    credits of each group or component,    *)
(*                                  and what each group requires           *)
(*    external, recognitions        what is known of an external key, and  *)
(*                                  the courses recognized under a key     *)
(* Progress, explanations and evidence are left out, and so are grades and *)
(* rules marked as not applicable, which the audit never supplies.         *)
(***************************************************************************)
EXTENDS Integers, Sequences, SequencesExt

CONSTANTS
    None,      \* a fact nobody has stated
    AuditRule, \* the rules there are, with all the rules inside of them
    Nesting    \* how many levels of rules are inside of each

Kinds == {"ALL", "ANY", "NOT", "COURSE_PASSED", "COURSE_IN_PROGRESS", "COURSE_PASSED_OR_IN_PROGRESS",
          "COREQUISITE", "CREDITS_IN_GROUP", "CREDITS_IN_COMPONENT", "TOTAL_CREDITS", "PERCENTAGE_OF_PLAN",
          "GROUP_COMPLETED", "MANDATORY_COURSES_COMPLETED", "MINIMUM_GRADE", "EXTERNAL_REQUIREMENT",
          "EQUIVALENT_COURSE_PASSED", "UNKNOWN"}

Statuses == {"SATISFIED", "UNSATISFIED", "UNKNOWN", "NOT_APPLICABLE"}

Decide(fact) == IF fact THEN "SATISFIED" ELSE "UNSATISFIED"

Compare(current, operator, value) ==
    CASE operator = ">=" -> current >= value
      [] operator = ">"  -> current > value
      [] operator = "="  -> current = value
      [] operator = "<=" -> current <= value
      [] operator = "<"  -> current < value

CombineAll(statuses) ==
    CASE "UNSATISFIED" \in statuses       -> "UNSATISFIED"
      [] "UNSATISFIED" \notin statuses /\ "UNKNOWN" \in statuses -> "UNKNOWN"
      [] statuses = {"NOT_APPLICABLE"}    -> "NOT_APPLICABLE"
      [] OTHER                            -> "SATISFIED"

\* Mutant: ANY overlooks what is unknown.
CombineKnown(statuses) ==
    CASE "SATISFIED" \in statuses         -> "SATISFIED"
      [] statuses = {"NOT_APPLICABLE"}    -> "NOT_APPLICABLE"
      [] OTHER                            -> "UNSATISFIED"

CombineAny(statuses) ==
    CASE "SATISFIED" \in statuses         -> "SATISFIED"
      [] "SATISFIED" \notin statuses /\ "UNKNOWN" \in statuses -> "UNKNOWN"
      [] statuses = {"NOT_APPLICABLE"}    -> "NOT_APPLICABLE"
      [] OTHER                            -> "UNSATISFIED"

Negate(status) ==
    CASE status = "SATISFIED"   -> "UNSATISFIED"
      [] status = "UNSATISFIED" -> "SATISFIED"
      [] OTHER                  -> status

\* A rule about courses is open while the credits of one of them are unknown.
AboutCourses(codes, facts, holds) ==
    IF codes \cap facts.unknown # {} THEN "UNKNOWN" ELSE Decide(holds)

AboutCredits(current, operator, value) ==
    IF current = None THEN "UNKNOWN" ELSE Decide(Compare(current, operator, value))

Leaf(rule, facts) ==
    CASE rule.kind = "COURSE_PASSED" ->
           AboutCourses({rule.course}, facts, rule.course \in facts.passed)
      [] rule.kind = "COURSE_IN_PROGRESS" ->
           AboutCourses({rule.course}, facts, rule.course \in facts.inProgress)
      [] rule.kind \in {"COURSE_PASSED_OR_IN_PROGRESS", "COREQUISITE"} ->
           AboutCourses({rule.course}, facts, rule.course \in facts.passed \cup facts.inProgress)
      [] rule.kind = "MANDATORY_COURSES_COMPLETED" ->
           AboutCourses(rule.courses, facts, rule.courses \subseteq facts.passed)
      [] rule.kind = "EQUIVALENT_COURSE_PASSED" ->
           LET recognized == facts.recognitions[rule.key]
           IN IF recognized = None THEN "UNKNOWN"
              ELSE AboutCourses(rule.courses \cup recognized, facts,
                                (rule.courses \cup recognized) \cap facts.passed # {})
      [] rule.kind = "CREDITS_IN_GROUP" ->
           AboutCredits(facts.group[rule.group], rule.operator, rule.value)
      [] rule.kind = "CREDITS_IN_COMPONENT" ->
           AboutCredits(facts.component[rule.component], rule.operator, rule.value)
      [] rule.kind = "TOTAL_CREDITS" ->
           AboutCredits(facts.earned, rule.operator, rule.value)
      [] rule.kind = "GROUP_COMPLETED" ->
           AboutCredits(facts.group[rule.group], ">=", facts.required[rule.group])
      [] rule.kind = "PERCENTAGE_OF_PLAN" ->
           Decide(facts.earned * rule.denominator >= facts.planTotal * rule.numerator)
      [] rule.kind = "EXTERNAL_REQUIREMENT" ->
           IF facts.external[rule.key] = None THEN "UNKNOWN" ELSE facts.external[rule.key]
      [] rule.kind \in {"MINIMUM_GRADE", "UNKNOWN"} -> "UNKNOWN"

\* A rule holds the rules in it, and never itself: it is read from a JSON document.
Children(rule) ==
    CASE rule.kind \in {"ALL", "ANY"} -> ToSet(rule.children)
      [] rule.kind = "NOT"            -> {rule.child}
      [] OTHER                        -> {}

ASSUME RulesAssumption ==
    /\ None \notin AuditRule /\ Nesting \in [AuditRule -> Nat]
    /\ \A rule \in AuditRule :
          /\ rule.kind \in Kinds
          /\ \A child \in Children(rule) : child \in AuditRule /\ Nesting[child] < Nesting[rule]

\* A comparison is parsed with its operator.
ASSUME OperatorsAssumption ==
    \A rule \in AuditRule :
        rule.kind \in {"CREDITS_IN_GROUP", "CREDITS_IN_COMPONENT", "TOTAL_CREDITS"} =>
           rule.operator \in {">=", ">", "=", "<=", "<"}

Evaluate(rule, facts) ==
    LET Answer[r \in AuditRule] ==
          CASE r.kind = "ALL" -> CombineAll({Answer[c] : c \in ToSet(r.children)})
            [] r.kind = "ANY" -> CombineAny({Answer[c] : c \in ToSet(r.children)})
            [] r.kind = "NOT" -> Negate(Answer[r.child])
            [] OTHER          -> Leaf(r, facts)
    IN Answer[rule]
=============================================================================
