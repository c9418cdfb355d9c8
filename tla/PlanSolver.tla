----------------------------- MODULE PlanSolver -----------------------------
(***************************************************************************)
(* The constraint model of the optimizer (domain/optimization/solver.py)   *)
(* and its input (build_optimization_input).  The search is OR-Tools; what *)
(* it searches is here: the checks made before it, the assignments that    *)
(* satisfy the model, and the order of the objectives.                     *)
(*                                                                         *)
(* An input is a record:                                                   *)
(*    courses, mandatory         the courses of the revision, and planned  *)
(*    credits, memberships       as in the revision                        *)
(*    rules                      the rules of each course, verified or not *)
(*    groups                     what each unfinished group still requires *)
(*    terms                      1..n, in the order of their beginning     *)
(*    candidates                 a set of [course, term, state, section,   *)
(*                               meetings], one for each course and term   *)
(*    passed, inProgress         from the attempts; not from recognitions  *)
(*    locked                     a set of <<course, term>>                 *)
(*    preferences                bounds, target, whether an offering that  *)
(*                               nobody reported may be assumed            *)
(* An assignment is a record: x, the chosen <<course, term>>, and y, the   *)
(* <<course, term, group>> that count for a group.                         *)
(***************************************************************************)
EXTENDS DegreeAudit, TermPlan

-----------------------------------------------------------------------------
(* The input.                                                              *)

\* A group whose credits are complete is not part of the input any more.
RemainingCredits(revision, student) ==
    LET applied    == GroupApplied(revision, student)
        unfinished == {g \in Groups \ student.waived.groups : applied[g] < revision.groups[g].required}
    IN [g \in unfinished |-> revision.groups[g].required - applied[g]]

SolverRule(requirement) ==
    IF requirement.rule = None THEN [kind |-> "UNKNOWN"] ELSE requirement.rule

\* The courses of the revision, and those that any scenario of the enrollment plans:
\* this one, or another (elsewhere).
InputCourses(revision, plan, elsewhere) ==
    {m.course : m \in revision.memberships} \cup {i.course : i \in plan} \cup elsewhere

RulesOf(revision, c) == {SolverRule(r) : r \in {q \in revision.requirements : q.owner = c}}

\* The section of a candidate is the one planned for that course and term.
CandidateFor(plan, offered, c, t) ==
    LET existing == {i \in plan : i.course = c /\ i.term = t}
        planned  == IF existing = {} THEN [section |-> None, meetings |-> {}] ELSE CHOOSE i \in existing : TRUE
    IN [course  |-> c, term |-> t, state |-> offered[c][t],
        section |-> planned.section, meetings |-> planned.meetings]

LockedChoices(plan) == {<<i.course, i.term>> : i \in {j \in plan : j.locked}}

SolverInput(revision, student, plan, elsewhere, offered, terms, preferences) ==
    LET courses == InputCourses(revision, plan, elsewhere)
    IN [courses     |-> courses,
        mandatory   |-> {m.course : m \in {n \in revision.memberships : n.role = "MANDATORY"}},
        credits     |-> revision.credits,
        memberships |-> revision.memberships,
        rules       |-> [c \in courses |-> RulesOf(revision, c)],
        groups      |-> RemainingCredits(revision, student),
        terms       |-> terms,
        candidates  |-> {CandidateFor(plan, offered, c, t) : c \in courses, t \in DOMAIN terms},
        passed      |-> Selected(student),
        inProgress  |-> {a.course : a \in {b \in student.attempts : b.status \in InProgressStatuses}},
        locked      |-> LockedChoices(plan),
        preferences |-> preferences]

\* What the input is checked for when it is made.
PreferencesValid(preferences) ==
    /\ 0 <= preferences.min /\ preferences.min <= preferences.max
    /\ \A wish \in {preferences.target, preferences.preferred} \ {None} : wish >= 0

InputValid(input) ==
    /\ PreferencesValid(input.preferences)
    /\ \A k \in input.candidates :
          /\ k.term \in DOMAIN input.terms /\ k.course \in input.courses
          /\ \A l \in input.candidates : <<k.course, k.term>> = <<l.course, l.term>> => k = l

Blocked(input, candidate) ==
    \/ candidate.state = "NOT_OFFERED"
    \/ candidate.state # "OFFERED" /\ ~input.preferences.allowUnknown

Options(input, c) == {k \in input.candidates : k.course = c}
Viable(input, c)  == \E k \in Options(input, c) : ~Blocked(input, k)
Required(input)   == input.mandatory \ input.passed

Clash(input, k, l) ==
    /\ k.meetings # {} /\ l.meetings # {}
    /\ ScheduleState(k.meetings \cup l.meetings, input.terms[k.term]) = "CONFLICT"

-----------------------------------------------------------------------------
(* Before the search.                                                      *)

\* The credits that courses still to be taken could bring.
Capacity(input, courses) ==
    MapThenSumSet(LAMBDA c : Known(input.credits[c]),
                  {c \in courses \ input.passed : Viable(input, c)})

Members(input, g) == {m.course : m \in {n \in input.memberships : n.group = g}}

CreditsOpen(input, courses) ==
    \E c \in courses \ input.passed : input.credits[c] = None /\ Viable(input, c)

\* Mutant: a capacity that just suffices is refused.
NeedsMore(capacity, required) == capacity <= required

TooLittle(capacity, required) == capacity < required

\* What makes the input impossible, as pairs of a reason and what it is about.
Conflicts(input) ==
    LET lockedOptions == {k \in input.candidates : <<k.course, k.term>> \in input.locked}
    IN {<<"LOCKED_COURSE_ALREADY_PASSED", k.course>> :
            k \in {l \in lockedOptions : l.course \in input.passed}}
       \cup {<<"LOCKED_OFFERING_UNAVAILABLE", k.course>> :
            k \in {l \in lockedOptions : l.course \notin input.passed /\ Blocked(input, l)}}
       \cup {<<"LOCKED_COURSE_MULTIPLE_TERMS", k.course>> :
            k \in {l \in lockedOptions : \E m \in lockedOptions : m.course = l.course /\ m.term # l.term}}
       \cup {<<"LOCKED_SCHEDULE_CONFLICT", k.course>> :
            k \in {l \in lockedOptions :
                      \E m \in lockedOptions : m.course # l.course /\ m.term = l.term /\ Clash(input, l, m)}}
       \cup {<<"MANDATORY_COURSE_UNAVAILABLE", c>> :
            c \in {d \in Required(input) : ~Viable(input, d)}}
       \cup {<<"GROUP_CREDIT_CAPACITY", g>> :
            g \in {h \in DOMAIN input.groups :
                      /\ TooLittle(Capacity(input, Members(input, h)), input.groups[h])
                      /\ ~CreditsOpen(input, Members(input, h))}}
       \cup (IF /\ input.preferences.target # None
                /\ TooLittle(Capacity(input, input.courses), input.preferences.target)
             THEN {<<"CREDIT_TARGET_CAPACITY", None>>} ELSE {})

ContainsUnknown(rule) ==
    LET Open[r \in AuditRule] ==
          CASE r.kind \in {"ALL", "ANY", "NOT"} -> \E c \in Children(r) : Open[c]
            [] OTHER -> r.kind \in {"EXTERNAL_REQUIREMENT", "UNKNOWN", "MINIMUM_GRADE",
                                   "CREDITS_IN_COMPONENT", "PERCENTAGE_OF_PLAN"}
    IN Open[rule]

\* Without these facts there is no answer.
FactsMissing(input) ==
    \/ \E c \in Required(input) :
          input.credits[c] = None \/ \E r \in input.rules[c] : ContainsUnknown(r)
    \/ \E g \in DOMAIN input.groups :
          /\ TooLittle(Capacity(input, Members(input, g)), input.groups[g])
          /\ CreditsOpen(input, Members(input, g))

-----------------------------------------------------------------------------
(* The model.                                                              *)

Chosen(s, c, last) == \E p \in s.x : p[1] = c /\ p[2] <= last

CreditsOf(input, choices) == MapThenSumSet(LAMBDA p : Known(input.credits[p[1]]), choices)

GroupCredits(input, s, g, last) ==
    CreditsOf(input, {a \in s.y : a[3] = g /\ a[2] <= last})

\* A rule without others in it becomes a literal, so it holds or does not: what the
\* model cannot express does not hold.
LeafHolds(rule, target, input, s) ==
    LET PassedBefore(c) == c \in input.passed \/ Chosen(s, c, target - 1)
    IN CASE rule.kind = "COURSE_PASSED" -> PassedBefore(rule.course)
         [] rule.kind = "COURSE_IN_PROGRESS" ->
              rule.course \in input.inProgress \/ Chosen(s, rule.course, target)
         [] rule.kind \in {"COURSE_PASSED_OR_IN_PROGRESS", "COREQUISITE"} ->
              rule.course \in input.passed \cup input.inProgress \/ Chosen(s, rule.course, target)
         [] rule.kind = "EQUIVALENT_COURSE_PASSED"    -> \E c \in rule.courses : PassedBefore(c)
         [] rule.kind = "MANDATORY_COURSES_COMPLETED" -> \A c \in rule.courses : PassedBefore(c)
         [] rule.kind = "TOTAL_CREDITS" ->
              Compare(CreditsOf(input, {p \in s.x : p[2] <= target}), rule.operator, rule.value)
         [] rule.kind = "CREDITS_IN_GROUP" ->
              Compare(GroupCredits(input, s, rule.group, target), rule.operator, rule.value)
         [] rule.kind = "GROUP_COMPLETED" ->
              GroupCredits(input, s, rule.group, target) >=
                 (IF rule.group \in DOMAIN input.groups THEN input.groups[rule.group] ELSE 0)
         [] OTHER -> FALSE

Holds(rule, target, input, s) ==
    LET Literal[r \in AuditRule] ==
          CASE r.kind = "ALL" -> \A c \in Children(r) : Literal[c]
            [] r.kind = "ANY" -> \E c \in Children(r) : Literal[c]
            [] r.kind = "NOT" -> ~Literal[r.child]
            [] OTHER          -> LeafHolds(r, target, input, s)
    IN Literal[rule]

\* What is asked of the choice of courses and terms alone.
OncePerCourse(input, x) ==
    \A c \in input.courses : Cardinality({p \in x : p[1] = c}) <= 1

NothingBlocked(input, x) ==
    \A k \in input.candidates :
        <<k.course, k.term>> \in x => k.course \notin input.passed /\ ~Blocked(input, k)

MandatoryTaken(input, x) == \A c \in Required(input) : \E p \in x : p[1] = c

TargetMet(input, x) ==
    input.preferences.target = None \/ CreditsOf(input, x) >= input.preferences.target

TermCredits(input, x) ==
    \A t \in DOMAIN input.terms :
        LET load == {p \in x : p[2] = t}
        IN /\ CreditsOf(input, load) <= input.preferences.max
           /\ load # {} => CreditsOf(input, load) >= input.preferences.min

NoClash(input, x) ==
    LET inSections == {k \in input.candidates : <<k.course, k.term>> \in x /\ k.section # None}
    IN \A k, l \in inSections : k.term = l.term /\ k.course # l.course => ~Clash(input, k, l)

LocksKept(input, x) == input.locked \subseteq x

\* What is asked of the choice together with what counts for which group.
GroupsCovered(input, s) ==
    \A g \in DOMAIN input.groups :
        GroupCredits(input, s, g, Len(input.terms)) >= input.groups[g]

\* The bound on the assignments of a course goes through them by their key, a group
\* and a course, and reads it the other way around: it bounds the assignments of a
\* group that has the code of the course.
CourseCode(c) == <<"course", c>>
GroupCode(g)  == <<"group", g>>
BoundedFor(s, c) == {a \in s.y : GroupCode(a[3]) = CourseCode(c)}

AssignmentsBounded(input, s) ==
    \A c \in input.courses :
        Cardinality(BoundedFor(s, c)) <= Cardinality({p \in s.x : p[1] = c})

\* Mutant: only mandatory courses bring their rules into the model.
RulesOfMandatory(input, s) ==
    \A p \in s.x : p[1] \in input.mandatory =>
        \A r \in input.rules[p[1]] : Holds(r, p[2], input, s)

RulesHold(input, s) ==
    \A p \in s.x : \A r \in input.rules[p[1]] : Holds(r, p[2], input, s)

Selections(input) ==
    LET pairs == {<<k.course, k.term>> : k \in input.candidates}
    IN {x \in SUBSET pairs :
           /\ OncePerCourse(input, x) /\ NothingBlocked(input, x) /\ MandatoryTaken(input, x)
           /\ TargetMet(input, x) /\ TermCredits(input, x) /\ NoClash(input, x)
           /\ LocksKept(input, x)}

Countable(input, x) ==
    {<<p[1], p[2], g>> : p \in x, g \in Groups} \cap
    {<<m.course, t, m.group>> : m \in input.memberships, t \in DOMAIN input.terms}

\* The assignments that satisfy the model.
Solutions(input) ==
    {s \in UNION {{[x |-> x, y |-> y] : y \in SUBSET Countable(input, x)} : x \in Selections(input)} :
        GroupsCovered(input, s) /\ AssignmentsBounded(input, s) /\ RulesHold(input, s)}

-----------------------------------------------------------------------------
(* The objectives, in the order of the passes: each pass keeps the best    *)
(* value of the ones before.  The first term has order 0.                  *)

Distance(a, b) == IF a > b THEN a - b ELSE b - a

Preferred(input) ==
    LET pref == input.preferences
        n    == Len(input.terms)
    IN IF pref.preferred # None THEN pref.preferred
       ELSE Max({pref.min, Min({pref.max, Known(pref.target) \div n})})

Objectives(input, s) ==
    <<Max({0} \cup {p[2] - 1 : p \in s.x}),
      Cardinality({k \in input.candidates :
                      <<k.course, k.term>> \in s.x /\ k.state \notin {"OFFERED", "NOT_OFFERED"}}),
      MapThenSumSet(LAMBDA t : Distance(CreditsOf(input, {p \in s.x : p[2] = t}), Preferred(input)),
                    DOMAIN input.terms),
      MapThenSumSet(LAMBDA p : input.preferences.penalty[p[1]], s.x)>>

Better(v, w) == \E i \in DOMAIN v : v[i] < w[i] /\ \A j \in 1..(i - 1) : v[j] = w[j]

\* The answer when no pass runs out of time.
Optimal(input) ==
    LET solutions == Solutions(input)
    IN {s \in solutions : \A other \in solutions :
           ~Better(Objectives(input, other), Objectives(input, s))}
=============================================================================
