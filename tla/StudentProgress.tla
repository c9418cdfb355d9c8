-------------------------- MODULE StudentProgress ---------------------------
(***************************************************************************)
(* What is computed from a student's record and plan (StudentRecord)       *)
(* besides the audit, the validator, the optimizer and the pages           *)
(* (StudentPages): the searches of the dependency graph and its map.       *)
(***************************************************************************)
EXTENDS StudentPages, CurriculumPages

-----------------------------------------------------------------------------
(* Properties.                                                             *)

\* An optimal plan completes the groups without counting a course twice: docs/11 and
\* ADR-0019 say that the assignments to groups are there to prevent it.
NoCourseCountsTwice ==
    study.solver # None =>
        \A s \in Optimal(Input) :
            \E y \in SUBSET Countable(Input, s.x) :
                /\ \A c \in Input.courses : Cardinality({a \in y : a[1] = c}) <= 1
                /\ GroupsCovered(Input, [s EXCEPT !.y = y])

\* Chains of courses in which each depends on the next, and no course comes twice.
Chains(graph) ==
    {p \in UNION {[1..n -> DOMAIN graph] : n \in 1..Cardinality(DOMAIN graph)} :
        IsInjective(p) /\ \A i \in 1..(Len(p) - 1) : p[i + 1] \in graph[p[i]]}

From(chains, c) == {p \in chains : p[1] = c}
Ends(chains)    == {p[Len(p)] : p \in chains}

\* What the graph says of a course and of another: descendants are at the end of a
\* chain that leads to the course, as far away as the shortest one, with a path that
\* explains them; ancestors are the same read from the other end.
FocusIsExact(page, map, chains, c, d) ==
    LET near == page.focus[c]
        far  == {Len(p) - 1 : p \in {q \in From(chains, d) : q[Len(q)] = c}}
    IN /\ d \in DOMAIN near.descendants <=> d # c /\ far # {}
       /\ d \in DOMAIN near.descendants => d \in near.paths /\ near.descendants[d].distance = Min(far)
       /\ d \in DOMAIN near.descendants <=> c \in DOMAIN page.focus[d].ancestors
       /\ d \in map.courses[c].unlocks <=> d \in near.unlocks \/ c \in page.focus[d].corequisites

\* A course has a level exactly if no cycle is below it: that of the longest chain.
LevelsAreExact(page, map, graph, chains) ==
    LET OnCycle(c) == \E d \in Ends(From(chains, c)) : c \in graph[d]
    IN /\ page.cycles = {} <=> \A c \in DOMAIN graph : ~OnCycle(c)
       /\ map.cyclic = {} <=> page.cycles = {}
       /\ \A p \in page.cycles : p[1] = p[Len(p)] /\ \A i \in 1..(Len(p) - 1) : p[i + 1] \in graph[p[i]]
       /\ \A c \in DOMAIN graph :
             map.courses[c].depth =
                IF \E d \in Ends(From(chains, c)) : OnCycle(d) THEN None
                ELSE Max({Len(p) - 1 : p \in From(chains, c)})

\* The map and the graph shown to the student explain what the page says: a course is
\* shown blocked exactly if one of its requirements is shown unsatisfied, and if that
\* is about courses, one that it needs is there that is not shown as passed.
GraphAgrees(map, asked) ==
    \A c \in DOMAIN map.courses :
        LET shown == map.courses[c]
            near  == Focus(asked, c)
        IN /\ c \in MemberCourses(revision) =>
                 (shown.status = "BLOCKED" <=> \E q \in shown.requirements : q.status = "UNSATISFIED")
           /\ shown.status = "BLOCKED" /\ (\A q \in shown.requirements :
                 AboutCoursesOnly(q.requirement.rule) /\ WithoutNot(q.requirement.rule)) =>
                    \E d \in near.prerequisites \cup near.corequisites : map.courses[d].status # "PASSED"

AgreesWithGraph ==
    plan = {} => GraphAgrees(CurriculumMap(revision, CourseOptions(revision, student)), OwnedRules(revision))

\* The searches of the graph and of the map find what there is, and cycles are reported
\* by both exactly if there are any; the edges join the nodes that are shown.  The
\* student has no part in it, so newcomers, and a page without a student, stand for all.
SearchesAreExact ==
    student = NewStudent /\ plan = {} =>
        \A page \in {DependencyPage(revision, <<>>)}, map \in {CurriculumMap(revision, <<>>)} :
            LET graph  == [c \in DOMAIN map.courses |-> map.courses[c].dependencies]
                strict == Chains([c \in DOMAIN graph |-> page.focus[c].prerequisites])
            IN /\ \A c, d \in DOMAIN graph : FocusIsExact(page, map, strict, c, d)
               /\ LevelsAreExact(page, map, graph, Chains(graph))
               /\ \A e \in page.edges : {e.source, e.target} \subseteq DOMAIN page.states
\* The graph and the map show what there is, and why a course is blocked.
GraphIsExact == SearchesAreExact /\ AgreesWithGraph
=============================================================================
