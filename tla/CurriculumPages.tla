--------------------------- MODULE CurriculumPages --------------------------
(***************************************************************************)
(* The pages that show a curriculum: its map (curriculum/application/      *)
(* map.py) and its dependency graph (curriculum/application/graph.py), to  *)
(* a student with the answers of the overview page, to others without.     *)
(*                                                                         *)
(* `options` are the courses of the overview page with what it says of     *)
(* them; <<>> when nobody is logged in, or the enrollment needs review.    *)
(* Names, links, layouts, evidence and offers are left out (offers are in  *)
(* Offerings).                                                             *)
(***************************************************************************)
EXTENDS GraphSearches, AcademicOverview

OwnedRules(revision) == {r \in revision.requirements : r.owner # None}

\* The courses of the revision, those with requirements and those the requirements name.
MapCourses(revision) ==
    MemberCourses(revision) \cup
    UNION {{q.owner} \cup DirectDependencies(q.rule) : q \in OwnedRules(revision)}

\* What the page says of a course, or of a requirement that is a reason for it.
StatusShown(options, c) == IF c \in DOMAIN options THEN options[c].eligibility ELSE "NOT_ASSESSED"

RequirementShown(options, q) ==
    LET reasons == UNION {options[c].reasons : c \in DOMAIN options}
    IN IF \E reason \in reasons : reason.requirement = q
       THEN (CHOOSE reason \in reasons : reason.requirement = q).status
       ELSE "NOT_ASSESSED"

CurriculumMap(revision, options) ==
    LET graph  == [c \in MapCourses(revision) |-> DependenciesOf(OwnedRules(revision), c)]
        depths == Depths(graph)
    IN [cyclic  |-> depths.cyclic,
        courses |-> [c \in DOMAIN graph |->
            [status       |-> StatusShown(options, c),
             depth        |-> depths.levels[c],
             dependencies |-> graph[c],
             unlocks      |-> {d \in DOMAIN graph : c \in graph[d]},
             requirements |-> {[requirement |-> q, status |-> RequirementShown(options, q)] :
                                  q \in {r \in OwnedRules(revision) : r.owner = c}}]]]

-----------------------------------------------------------------------------
(* The page of the graph.                                                  *)

Conditions(q) == {NodeOf(q, part) : part \in {p \in Parts(q.rule) : ~NamesCourse(p.rule)}}

\* Each node shows one state: a course its own, a condition that of the whole
\* requirement it is a part of.
NodeStates(revision, options) ==
    LET map == CurriculumMap(revision, options)
    IN [node \in {CourseNode(c) : c \in DOMAIN map.courses}
                 \cup UNION {Conditions(q) : q \in OwnedRules(revision)} |->
           IF node[1] = "course" THEN map.courses[node[2]].status ELSE RequirementShown(options, node[2])]

\* How far from one course to another: no path leads through a corequisite.
CourseHops(relations, source, target) == Hops(Unlocking(relations), source, target)

Reach(relations, source, targets, direct) ==
    [target \in targets |-> [distance |-> CourseHops(relations, source, target), direct |-> target \in direct]]

\* What surrounds a course.  The way to its ancestors is looked for from the course,
\* as to its descendants.
Focus(requirements, c) ==
    LET relations   == Relations(requirements)
        opens       == Unlocking(relations)
        before      == {r.source : r \in {q \in opens : q.target = c}}
        after       == {r.target : r \in {q \in opens : q.source = c}}
        ancestors   == {a \in {r.source : r \in relations} : c \in Descendants(relations, a)}
        descendants == Descendants(relations, c)
    IN [prerequisites |-> before,
        corequisites  |-> {r.source : r \in {q \in relations : q.target = c /\ q.kind = "COREQUISITE"}},
        unlocks       |-> after,
        ancestors     |-> Reach(relations, c, ancestors, before),
        descendants   |-> Reach(relations, c, descendants, after),
        paths         |-> {d \in descendants : Hops(Edges(requirements), CourseNode(c), CourseNode(d)) # None}]

DependencyPage(revision, options) ==
    LET asked == OwnedRules(revision)
    IN [states    |-> NodeStates(revision, options),
        edges     |-> Edges(asked),
        relations |-> Relations(asked),
        cycles    |-> FindCycles(OwnerGraph(asked)),
        focus     |-> [c \in MapCourses(revision) |-> Focus(asked, c)]]
=============================================================================
