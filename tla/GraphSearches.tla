---------------------------- MODULE GraphSearches ---------------------------
(***************************************************************************)
(* What is looked for in the dependency graph of a curriculum              *)
(* (domain/rules/graph.py): what follows on a course, how far away, and    *)
(* the cycles; and the levels of its map (curriculum/application/map.py).  *)
(***************************************************************************)
EXTENDS CurriculumGraph

RECURSIVE DirectDependencies(_)
DirectDependencies(rule) ==
    CASE rule.kind \in {"ALL", "ANY"} -> UNION {DirectDependencies(r) : r \in ToSet(rule.children)}
      [] rule.kind = "NOT"            -> DirectDependencies(rule.child)
      [] OTHER                        -> Named(rule)

-----------------------------------------------------------------------------
(* Searches, level by level.                                               *)

Across(edges, nodes) == {e.target : e \in {f \in edges : f.source \in nodes}}

\* Corequisites open nothing.
Unlocking(relations) == {r \in relations : r.kind # "COREQUISITE"}

RECURSIVE Reached(_, _, _)
Reached(edges, frontier, seen) ==
    LET new == frontier \ seen
    IN IF new = {} THEN seen ELSE Reached(edges, Across(edges, new), seen \cup new)

\* The courses that a course helps to open, one after another; never itself.
Descendants(relations, c) ==
    LET edges == Unlocking(relations)
    IN Reached(edges, Across(edges, {c}), {c}) \ {c}

\* The number of edges from one node to another, or None.
RECURSIVE HopsFrom(_, _, _, _, _)
HopsFrom(edges, frontier, visited, target, hops) ==
    LET new == Across(edges, frontier) \ visited
    IN CASE target \in new -> hops + 1
         [] target \notin new /\ new = {} -> None
         [] OTHER -> HopsFrom(edges, new, visited \cup new, target, hops + 1)

Hops(edges, source, target) ==
    IF source = target THEN 0 ELSE HopsFrom(edges, {source}, {source}, target, 0)

-----------------------------------------------------------------------------
(* Cycles, and the levels of the map.                                      *)

DependenciesOf(requirements, c) ==
    UNION {DirectDependencies(q.rule) : q \in {r \in requirements : r.owner = c}}

\* Owners, and what they depend on among owners.
OwnerGraph(requirements) ==
    LET owners == {q.owner : q \in requirements}
    IN [c \in owners |-> DependenciesOf(requirements, c) \cap owners]

InOrder(codes) == SetToSortSeq(codes, <)

\* Depth first.  A course met again on the stack closes a cycle; a course left behind
\* is not entered again.
RECURSIVE Visit(_, _, _, _)
Visit(graph, c, stack, found) ==
    IF c \in ToSet(stack)
    THEN LET start == CHOOSE i \in DOMAIN stack : stack[i] = c
         IN [found EXCEPT !.cycles = @ \cup {Append(SubSeq(stack, start, Len(stack)), c)}]
    ELSE IF c \in found.visited THEN found
    ELSE LET after == FoldLeft(LAMBDA f, d : Visit(graph, d, Append(stack, c), f), found, InOrder(graph[c]))
         IN [after EXCEPT !.visited = @ \cup {c}]

FindCycles(graph) ==
    FoldLeft(LAMBDA f, c : Visit(graph, c, <<>>, f), [visited |-> {}, cycles |-> {}],
             InOrder(DOMAIN graph)).cycles

\* Mutant: an unknown level below is passed over.
LevelAboveKnown(levels) ==
    IF levels \ {None} = {} THEN 0 ELSE Max(levels \ {None}) + 1

LevelAbove(levels) ==
    CASE None \in levels -> None
      [] levels = {}     -> 0
      [] OTHER           -> Max(levels) + 1

\* The same search of the map: a course on a cycle has no level, nor has one above it.
RECURSIVE Climb(_, _, _, _)
Climb(graph, c, visiting, found) ==
    CASE c \in DOMAIN found.levels -> found
      [] c \notin DOMAIN found.levels /\ c \in ToSet(visiting) ->
           [found EXCEPT !.cyclic = @ \cup
               {visiting[i] : i \in {j \in DOMAIN visiting : \E k \in 1..j : visiting[k] = c}}]
      [] OTHER ->
           LET after == FoldLeft(LAMBDA f, d : Climb(graph, d, Append(visiting, c), f), found, InOrder(graph[c]))
               levels == {IF d \in DOMAIN after.levels THEN after.levels[d] ELSE None : d \in graph[c]}
           IN [after EXCEPT !.levels = @ @@ (c :> LevelAbove(levels))]

Depths(graph) ==
    FoldLeft(LAMBDA f, c : Climb(graph, c, <<>>, f), [levels |-> <<>>, cyclic |-> {}], InOrder(DOMAIN graph))
=============================================================================
