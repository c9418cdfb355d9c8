---------------------------- MODULE BaselineRules ----------------------------
(***************************************************************************)
(* The rules in a baseline: what the parser takes (domain/rules/ast.py),   *)
(* what validation takes (imports/application/baseline.py), and which      *)
(* groups and components a rule counts.  These are the answers by which    *)
(* module CurriculumBaseline knows a rule.                                 *)
(***************************************************************************)
EXTENDS GraphSearches

-----------------------------------------------------------------------------
(* Rules as they are parsed.  Exactly the fields of a kind may be there.   *)

Operators == {">=", ">", "=", "<=", "<"}

Fields(kind) ==
    CASE kind \in {"ALL", "ANY"} -> {"children"}
      [] kind = "NOT" -> {"child"}
      [] kind \in {"COURSE_PASSED", "COURSE_IN_PROGRESS", "COURSE_PASSED_OR_IN_PROGRESS", "COREQUISITE"} ->
           {"course"}
      [] kind = "CREDITS_IN_GROUP"            -> {"group", "operator", "value"}
      [] kind = "CREDITS_IN_COMPONENT"        -> {"component", "operator", "value"}
      [] kind = "TOTAL_CREDITS"               -> {"operator", "value"}
      [] kind = "PERCENTAGE_OF_PLAN"          -> {"numerator", "denominator"}
      [] kind = "GROUP_COMPLETED"             -> {"group"}
      [] kind = "MANDATORY_COURSES_COMPLETED" -> {"courses"}
      [] kind = "MINIMUM_GRADE"               -> {"course", "grade"}
      [] kind = "EXTERNAL_REQUIREMENT"        -> {"key"}
      [] kind = "EQUIVALENT_COURSE_PASSED"    -> {"key", "courses"}
      [] kind = "UNKNOWN"                     -> {}

WellFormed(rule) ==
    /\ rule.kind \in Kinds
    /\ DOMAIN rule = Fields(rule.kind) \cup {"kind"}
    /\ "operator" \in DOMAIN rule => rule.operator \in Operators
    /\ "value" \in DOMAIN rule => rule.value \in Nat
    /\ "denominator" \in DOMAIN rule => rule.numerator \in Nat /\ rule.denominator \in Nat \ {0}
    /\ "courses" \in DOMAIN rule => rule.courses # {}
    /\ "children" \in DOMAIN rule => rule.children # <<>>

RECURSIVE Parses(_)
Parses(rule) ==
    /\ WellFormed(rule)
    /\ rule.kind \in {"ALL", "ANY"} => \A r \in ToSet(rule.children) : Parses(r)
    /\ rule.kind = "NOT" => Parses(rule.child)

-----------------------------------------------------------------------------
(* Rules as they are validated, given the courses, groups and components   *)
(* the file has.  A baseline may use some kinds of rules only.  Of the     *)
(* fields of a rule about the credits of a group or component, only its    *)
(* name is checked: the parser does the rest when the file is imported.    *)

RECURSIVE ValidRule(_, _)
ValidRule(rule, has) ==
    CASE rule.kind \in {"ALL", "ANY"} ->
           rule.children # <<>> /\ \A r \in ToSet(rule.children) : ValidRule(r, has)
      [] rule.kind = "COURSE_PASSED" -> rule.course \in has.courses
      [] rule.kind \in {"CREDITS_IN_GROUP", "GROUP_COMPLETED"} -> rule.group \in has.groups
      [] rule.kind = "CREDITS_IN_COMPONENT" -> rule.component \in has.components
      [] rule.kind = "PERCENTAGE_OF_PLAN" -> rule.numerator \in Nat /\ rule.denominator \in Nat \ {0}
      [] rule.kind = "TOTAL_CREDITS" -> rule.operator \in Operators /\ rule.value \in Nat
      [] rule.kind \in {"UNKNOWN", "EXTERNAL_REQUIREMENT"} -> TRUE
      [] OTHER -> FALSE

\* Whether the engine would find each group and component the rule counts.
RECURSIVE CountsExist(_, _)
CountsExist(rule, has) ==
    CASE rule.kind \in {"ALL", "ANY"} -> \A r \in ToSet(rule.children) : CountsExist(r, has)
      [] rule.kind = "NOT" -> CountsExist(rule.child, has)
      [] OTHER -> /\ "group" \in DOMAIN rule => rule.group \in has.groups
                  /\ "component" \in DOMAIN rule => rule.component \in has.components

HasCycles(graph) == FindCycles(graph) # {}
=============================================================================
