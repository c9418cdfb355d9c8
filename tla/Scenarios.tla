------------------------------- MODULE Scenarios -------------------------------
(***************************************************************************)
(* Planning scenarios of apps/api/modules/planning.                        *)
(*                                                                         *)
(* Browser tabs view a scenario in several queries and send edits with     *)
(* the version they saw as If-Match.  An edit is one transaction: it locks *)
(* the scenario's row, checks the version and its own conditions, computes *)
(* the audit projection of the scenario as it will be, and commits all     *)
(* together.  Creating and duplicating a scenario lock nothing.            *)
(*                                                                         *)
(* A step is a query of a view, a statement that locks or reads what       *)
(* others may change, or a commit.  A projection is represented by the     *)
(* planned courses it was computed from.                                   *)
(***************************************************************************)
EXTENDS Integers, FiniteSets

CONSTANTS
    Scenarios,   \* rows of PlanScenario, those not yet created included
    First,       \* the scenario there is at the start
    Names,       \* names a scenario may be given
    Courses,     \* course versions
    Terms,       \* academic terms
    Limits,      \* values of a PlanningPreference
    Tabs,        \* clients
    MaxVersion,  \* bound: the version no edit goes beyond
    None

ASSUME BoundsAssumption == MaxVersion \in Nat \ {0}
ASSUME FirstAssumption == First \in Scenarios
ASSUME NoneAssumption ==
    None \notin Scenarios \cup Names \cup Courses \cup Terms \cup Limits

VARIABLES
    scenario,  \* PlanScenario with its preference, planned courses and projection
    tokens,    \* share tokens generated so far
    pc,        \* where each tab's request stands
    view,      \* what the tab shows
    job        \* the mutation its request is in, and the projection it computed

vars == <<scenario, tokens, pc, view, job>>

-----------------------------------------------------------------------------
\* PlannedCourse: a course in a term, locked or not.
Planned == [course : Courses, term : Terms, locked : BOOLEAN]

\* A PlanScenario row; token 0 is none.
Row == [name : Names, version : 1..MaxVersion, sharing : BOOLEAN, token : Nat,
        limit : Limits, courses : SUBSET Planned, projection : SUBSET Courses]

ASSUME RowAssumption == None \notin Row

Exists(s) == scenario[s] # None
Free == {s \in Scenarios : ~Exists(s)}
Taken(name) == \E s \in Scenarios : Exists(s) /\ scenario[s].name = name

Codes(courses) == {c.course : c \in courses}
Planning(courses, course, term) ==
    \E c \in courses : c.course = course /\ c.term = term

Seeing(s, version, courses) == [of |-> s, version |-> version, limit |-> None, courses |-> courses]
NoView == Seeing(None, 0, {})
NoEdit == [kind |-> "none"]
NoJob == [on |-> None, edit |-> NoEdit, projection |-> {}]
NewRow(name, limit, courses) ==
    [name |-> name, version |-> 1, sharing |-> FALSE, token |-> 0, limit |-> limit,
     courses |-> courses, projection |-> Codes(courses)]

Init ==
    /\ \E name \in Names, limit \in Limits :
          scenario = [s \in Scenarios |->
              IF s = First THEN NewRow(name, limit, {}) ELSE None]
    /\ tokens = 0
    /\ pc = [t \in Tabs |-> "idle"]
    /\ view = [t \in Tabs |-> NoView]
    /\ job = [t \in Tabs |-> NoJob]

Go(t, from, to) == pc[t] = from /\ pc' = [pc EXCEPT ![t] = to]

-----------------------------------------------------------------------------
(* scenario_view: the row, then the preference, then the planned courses.  *)

ReadRow(t, s) ==
    /\ Go(t, "idle", "row")
    /\ Exists(s)
    /\ view' = [view EXCEPT ![t] = Seeing(s, scenario[s].version, {})]
    /\ UNCHANGED <<scenario, tokens, job>>

ReadPreference(t) ==
    /\ Go(t, "row", "preference")
    /\ view' = [view EXCEPT ![t].limit = scenario[view[t].of].limit]
    /\ UNCHANGED <<scenario, tokens, job>>

ReadCourses(t) ==
    /\ Go(t, "preference", "viewing")
    /\ view' = [view EXCEPT ![t].courses = scenario[view[t].of].courses]
    /\ UNCHANGED <<scenario, tokens, job>>

Leave(t) ==
    /\ Go(t, "viewing", "idle")
    /\ view' = [view EXCEPT ![t] = NoView]
    /\ UNCHANGED <<scenario, tokens, job>>

-----------------------------------------------------------------------------
(* The edits: what a request may ask for, what refuses it, what it writes. *)

Edits ==
    [kind : {"rename"}, name : Names]
        \cup [kind : {"share"}, on : BOOLEAN]
        \cup [kind : {"prefer"}, limit : Limits]
        \cup [kind : {"add"}, course : Courses, term : Terms]
        \cup [kind : {"change"}, course : Courses, from : Terms, to : Terms, lock : BOOLEAN]
        \cup [kind : {"remove"}, course : Courses, from : Terms]

\* The planned course an edit names; its course and term identify it.
Item(row, e) == {c \in row.courses : c.course = e.course /\ c.term = e.from}

\* Mutant: the lock of the planned course is not looked at.
AllowedAnyway(row, e) ==
    CASE e.kind = "rename" -> row.name = e.name \/ ~Taken(e.name)
      [] e.kind = "add" -> ~Planning(row.courses, e.course, e.term)
      [] e.kind = "change" -> /\ Item(row, e) # {}
                              /\ e.to = e.from \/ ~Planning(row.courses, e.course, e.to)
      [] e.kind = "remove" -> Item(row, e) # {}
      [] OTHER -> TRUE
Allowed(row, e) ==
    CASE e.kind = "rename" -> row.name = e.name \/ ~Taken(e.name)
      [] e.kind = "add" -> ~Planning(row.courses, e.course, e.term)
      [] e.kind = "change" -> /\ Item(row, e) # {}
                              /\ \/ e.to = e.from
                                 \/ /\ \A c \in Item(row, e) : ~c.locked
                                    /\ ~Planning(row.courses, e.course, e.to)
      [] e.kind = "remove" -> /\ Item(row, e) # {}
                              /\ \A c \in Item(row, e) : ~c.locked
      [] OTHER -> TRUE

CoursesAfter(row, e) ==
    CASE e.kind = "add" ->
            row.courses \cup {[course |-> e.course, term |-> e.term, locked |-> FALSE]}
      [] e.kind = "change" ->
            (row.courses \ Item(row, e))
                \cup {[course |-> e.course, term |-> e.to, locked |-> e.lock]}
      [] e.kind = "remove" -> row.courses \ Item(row, e)
      [] OTHER -> row.courses

\* Switching sharing off drops the token; save() makes a fresh one when it is on.
TokenAfter(row, e) ==
    IF e.kind # "share" THEN row.token
    ELSE IF ~e.on THEN 0
    ELSE IF row.token = 0 THEN tokens + 1 ELSE row.token

\* Mutant: the version is not moved on.
RowUntouched(row, e, projection) ==
    [row EXCEPT !.name = IF e.kind = "rename" THEN e.name ELSE @,
                !.limit = IF e.kind = "prefer" THEN e.limit ELSE @,
                !.sharing = IF e.kind = "share" THEN e.on ELSE @,
                !.token = TokenAfter(row, e),
                !.courses = CoursesAfter(row, e),
                !.version = IF e.kind \in {"change", "remove"} THEN @ ELSE @ + 1,
                !.projection = projection]
RowAfter(row, e, projection) ==
    [row EXCEPT !.name = IF e.kind = "rename" THEN e.name ELSE @,
                !.limit = IF e.kind = "prefer" THEN e.limit ELSE @,
                !.sharing = IF e.kind = "share" THEN e.on ELSE @,
                !.token = TokenAfter(row, e),
                !.courses = CoursesAfter(row, e),
                !.version = @ + 1,
                !.projection = projection]

-----------------------------------------------------------------------------
(* update_scenario, add_planned_course, update_planned_course and          *)
(* delete_planned_course.                                                  *)

InEdit(t) == pc[t] = "locked"
\* Mutant: select_for_update is left out.
NeverHeld(s) == FALSE
Held(s) == \E t \in Tabs : InEdit(t) /\ job[t].on = s

\* If-Match; only add_planned_course may come without one.
Current(t, e, guarded) ==
    IF guarded THEN scenario[view[t].of].version = view[t].version ELSE e.kind = "add"

Lock(t, e, guarded) ==
    LET s == view[t].of IN
    /\ pc[t] = "viewing"
    /\ guarded \/ e.kind = "add"
    /\ ~Held(s)
    /\ scenario[s].version < MaxVersion
    /\ IF Current(t, e, guarded) /\ Allowed(scenario[s], e)
       THEN /\ Go(t, "viewing", "locked")
            /\ job' = [job EXCEPT ![t] =
                   [on |-> s, edit |-> e, projection |-> Codes(CoursesAfter(scenario[s], e))]]
            /\ view' = IF guarded THEN view ELSE [view EXCEPT ![t] = NoView]
       ELSE /\ Go(t, "viewing", "idle")
            /\ view' = [view EXCEPT ![t] = NoView]
            /\ UNCHANGED job
    /\ UNCHANGED <<scenario, tokens>>

\* The unique name is left to the database when another request took it meanwhile.
Collides(t) ==
    LET j == job[t] IN
    j.edit.kind = "rename" /\ j.edit.name # scenario[j.on].name /\ Taken(j.edit.name)

\* The answer is a view of the row just written.
Commit(t) ==
    LET s == job[t].on
        after == RowAfter(scenario[s], job[t].edit, job[t].projection)
    IN
    /\ ~Collides(t)
    /\ Go(t, "locked", "row")
    /\ scenario' = [scenario EXCEPT ![s] = after]
    /\ tokens' = IF after.token > tokens THEN after.token ELSE tokens
    /\ view' = [view EXCEPT ![t] = Seeing(s, after.version, {})]
    /\ job' = [job EXCEPT ![t] = NoJob]

RollBack(t) ==
    /\ pc[t] = "locked" /\ Collides(t)
    /\ Go(t, "locked", "idle")
    /\ view' = [view EXCEPT ![t] = NoView]
    /\ job' = [job EXCEPT ![t] = NoJob]
    /\ UNCHANGED <<scenario, tokens>>

-----------------------------------------------------------------------------
(* create_scenario and duplicate_scenario.                                 *)

\* The name is free, the row is written, its projection computed; not yet committed.
Draft(t, name, limit, courses) ==
    job' = [job EXCEPT ![t] =
        [on |-> None,
         edit |-> [kind |-> "new", row |-> NewRow(name, limit, courses)],
         projection |-> Codes(courses)]]

Create(t, name, limit) ==
    /\ Go(t, "idle", "drafted")
    /\ ~Taken(name)
    /\ Draft(t, name, limit, {})
    /\ UNCHANGED <<scenario, tokens, view>>

\* The planned courses of the source are read with it, before anything else.
ReadSource(t, s) ==
    /\ Go(t, "idle", "source")
    /\ Exists(s)
    /\ view' = [view EXCEPT ![t] = Seeing(s, 0, scenario[s].courses)]
    /\ UNCHANGED <<scenario, tokens, job>>

Unlocked(courses) == {[c EXCEPT !.locked = FALSE] : c \in courses}

Duplicate(t, name) ==
    /\ Go(t, "source", "drafted")
    /\ ~Taken(name)
    /\ Draft(t, name, scenario[view[t].of].limit, Unlocked(view[t].courses))
    /\ UNCHANGED <<scenario, tokens, view>>

Insert(t, s) ==
    /\ Go(t, "drafted", "idle")
    /\ s \in Free /\ ~Taken(job[t].edit.row.name)
    /\ scenario' = [scenario EXCEPT ![s] = job[t].edit.row]
    /\ view' = [view EXCEPT ![t] = NoView]
    /\ job' = [job EXCEPT ![t] = NoJob]
    /\ UNCHANGED tokens

\* The name was taken, before the draft or before its commit.
Abandon(t) ==
    /\ \/ /\ Go(t, "source", "idle")
       \/ /\ Go(t, "drafted", "idle")
          /\ Taken(job[t].edit.row.name)
    /\ view' = [view EXCEPT ![t] = NoView]
    /\ job' = [job EXCEPT ![t] = NoJob]
    /\ UNCHANGED <<scenario, tokens>>

Next ==
    \E t \in Tabs :
          \/ \E s \in Scenarios : ReadRow(t, s) \/ ReadSource(t, s) \/ Insert(t, s)
          \/ ReadPreference(t) \/ ReadCourses(t) \/ Leave(t)
          \/ \E e \in Edits, guarded \in BOOLEAN : Lock(t, e, guarded)
          \/ Commit(t) \/ RollBack(t)
          \/ \E name \in Names, limit \in Limits : Create(t, name, limit)
          \/ \E name \in Names : Duplicate(t, name)
          \/ Abandon(t)

Spec == Init /\ [][Next]_vars

-----------------------------------------------------------------------------
\* Every variable stays within its type.
TypeOK ==
    /\ scenario \in [Scenarios -> Row \cup {None}]
    /\ tokens \in Nat
    /\ pc \in [Tabs -> {"idle", "row", "preference", "viewing", "locked", "source", "drafted"}]
    /\ view \in [Tabs -> [of : Scenarios \cup {None}, version : 0..MaxVersion,
                         limit : Limits \cup {None}, courses : SUBSET Planned]]
    /\ job \in [Tabs -> [on : Scenarios \cup {None},
                        edit : Edits \cup {NoEdit} \cup [kind : {"new"}, row : Row],
                        projection : SUBSET Courses]]

\* The stored projection is the audit of the courses the scenario has now, however
\* many edits and duplications run at once (recompute_scenario_projection).
ProjectionMatchesCourses ==
    \A s \in Scenarios :
        Exists(s) => scenario[s].projection = Codes(scenario[s].courses)

\* An edit that passed its If-Match was made by a tab that shows exactly the
\* preference and the planned courses it edits, although views are read query by
\* query while others commit: no guarded edit overwrites what its author has not seen.
GuardedEditSawTheScenario ==
    \A t \in Tabs :
        pc[t] = "locked" /\ view[t].of # None =>
            /\ view[t].limit = scenario[job[t].on].limit
            /\ view[t].courses = scenario[job[t].on].courses

\* A planned course that is locked keeps its place: no request moves or removes it
\* before another has unlocked it, and none unlocks and moves it at once.
LockedCourseStays ==
    [][\A s \in Scenarios : Exists(s) =>
          \A c \in scenario[s].courses :
              c.locked => Planning(scenario'[s].courses, c.course, c.term)]_vars
=============================================================================
