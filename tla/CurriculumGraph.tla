--------------------------- MODULE CurriculumGraph --------------------------
(***************************************************************************)
(* The dependency graph of a curriculum (domain/rules/graph.py): what      *)
(* hangs on what, without asking what a rule says.  The searches of the    *)
(* graph are in GraphSearches.                                             *)
(*                                                                         *)
(* Requirements are a set of [owner, rule] with a course as owner; courses *)
(* are numbers in the order of their codes.  Nodes are courses, and the    *)
(* conditions inside of rules, known by their requirement and their path   *)
(* in its rule.  Labels and evidence are left out.                         *)
(***************************************************************************)
EXTENDS AuditRules, FiniteSetsExt

\* The rules that name one course and nothing else are no conditions.
NamesCourse(rule) ==
    rule.kind \in {"COURSE_PASSED", "COURSE_IN_PROGRESS", "COURSE_PASSED_OR_IN_PROGRESS", "COREQUISITE"}

\* The courses a rule names itself, its children aside.
Named(rule) ==
    CASE NamesCourse(rule) \/ rule.kind = "MINIMUM_GRADE" -> {rule.course}
      [] rule.kind \in {"EQUIVALENT_COURSE_PASSED", "MANDATORY_COURSES_COMPLETED"} -> rule.courses
      [] OTHER -> {}

-----------------------------------------------------------------------------
(* The projection.                                                         *)

\* A rule in another one, the parts of which are one level further down there.
Under(parts, i) == {[path |-> <<i>> \o part.path, rule |-> part.rule] : part \in parts}

\* Mutant: what is negated is not looked at.
PositiveParts(rule) ==
    LET All[r \in AuditRule] ==
          {[path |-> <<>>, rule |-> r]} \cup
          (CASE r.kind \in {"ALL", "ANY"} -> UNION {Under(All[r.children[i]], i) : i \in DOMAIN r.children}
             [] OTHER                     -> {})
    IN All[rule]

\* A rule and the rules in it, each with its path.
Parts(rule) ==
    LET All[r \in AuditRule] ==
          {[path |-> <<>>, rule |-> r]} \cup
          (CASE r.kind \in {"ALL", "ANY"} -> UNION {Under(All[r.children[i]], i) : i \in DOMAIN r.children}
             [] r.kind = "NOT"            -> Under(All[r.child], 1)
             [] OTHER                     -> {})
    IN All[rule]

CourseNode(c) == <<"course", c>>

NodeOf(q, part) ==
    IF NamesCourse(part.rule) THEN CourseNode(part.rule.course) ELSE <<"condition", q, part.path>>

InputKind(rule) ==
    IF rule.kind = "EQUIVALENT_COURSE_PASSED" THEN "ALTERNATIVE_INPUT" ELSE "THRESHOLD_INPUT"

RootKind(rule) ==
    CASE rule.kind = "COREQUISITE"                        -> "COREQUISITE"
      [] rule.kind # "COREQUISITE" /\ NamesCourse(rule)   -> "PREREQUISITE"
      [] OTHER                                            -> "CONDITION_SATISFIES"

Edge(source, target, kind) == [source |-> source, target |-> target, kind |-> kind]

\* From a course into a condition, from a condition into the one around it, and from
\* the whole rule to its owner.
EdgesOf(q) ==
    LET parts == Parts(q.rule)
        Root(part) == part.path = <<>>
        Inputs(part) == {Edge(CourseNode(c), NodeOf(q, part), InputKind(part.rule)) : c \in Named(part.rule)}
        Around(part) == CHOOSE p \in parts : p.path = Front(part.path)
    IN (UNION {Inputs(part) : part \in {p \in parts : ~NamesCourse(p.rule)}})
       \cup {Edge(NodeOf(q, part), NodeOf(q, Around(part)), "CONDITION_INPUT") :
                part \in {p \in parts : ~Root(p)}}
       \cup {Edge(NodeOf(q, part), CourseNode(q.owner), RootKind(part.rule)) :
                part \in {p \in parts : Root(p)}}

\* What a course is to the owner of a rule that names it.  A corequisite is one
\* wherever it stands in the rule.
RelationKind(part) ==
    CASE part.rule.kind = "COREQUISITE" -> "COREQUISITE"
      [] part.rule.kind # "COREQUISITE" /\ NamesCourse(part.rule) ->
           IF part.path = <<>> THEN "PREREQUISITE" ELSE "CONDITION_INPUT"
      [] OTHER -> InputKind(part.rule)

RelationsOf(q) ==
    UNION {{Edge(c, q.owner, RelationKind(part)) : c \in Named(part.rule)} : part \in Parts(q.rule)}

Edges(requirements)     == UNION {EdgesOf(q) : q \in requirements}
Relations(requirements) == UNION {RelationsOf(q) : q \in requirements}
=============================================================================
