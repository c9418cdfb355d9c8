--------------------------- MODULE Scenarios_proofs ---------------------------
(***************************************************************************)
(* Proofs about Scenarios, for any number of tabs, scenarios and courses.  *)
(*                                                                         *)
(* A row that an edit has locked is nobody else's until the edit ends, so  *)
(* what the edit computed from it still holds when it commits.             *)
(***************************************************************************)
EXTENDS Scenarios, TLAPS

\* What a request in progress has in hand.
InHand(t) ==
    /\ pc[t] \in {"row", "preference", "viewing", "source"} =>
          view[t].of \in Scenarios /\ Exists(view[t].of)
    /\ pc[t] = "locked" =>
          /\ job[t].on \in Scenarios /\ Exists(job[t].on)
          /\ job[t].edit \in Edits
          /\ scenario[job[t].on].version < MaxVersion
          /\ view[t].of \in {None, job[t].on}
    /\ pc[t] = "drafted" => job[t].edit \in [kind : {"new"}, row : Row]

\* SELECT ... FOR UPDATE: an edit has its row for itself.
Exclusive ==
    \A t, u \in Tabs : pc[t] = "locked" /\ pc[u] = "locked" /\ job[t].on = job[u].on => t = u

Typed == TypeOK /\ Exclusive /\ \A t \in Tabs : InHand(t)

-----------------------------------------------------------------------------
(* What an edit makes of a row.                                            *)

LEMMA EditFields ==
  ASSUME NEW e \in Edits
  PROVE  /\ e.kind \in {"rename", "share", "prefer", "add", "change", "remove"}
         /\ e.kind = "rename" => e.name \in Names
         /\ e.kind = "share" => e.on \in BOOLEAN
         /\ e.kind = "prefer" => e.limit \in Limits
         /\ e.kind = "add" => e.course \in Courses /\ e.term \in Terms
         /\ e.kind = "change" =>
               e.course \in Courses /\ e.from \in Terms /\ e.to \in Terms /\ e.lock \in BOOLEAN
         /\ e.kind = "remove" => e.course \in Courses /\ e.from \in Terms
  BY DEF Edits

LEMMA CodesTyped ==
  ASSUME NEW courses \in SUBSET Planned
  PROVE  Codes(courses) \in SUBSET Courses
  BY DEF Codes, Planned

LEMMA CoursesAfterTyped ==
  ASSUME NEW row \in Row, NEW e \in Edits
  PROVE  CoursesAfter(row, e) \in SUBSET Planned
<1>1. row.courses \in SUBSET Planned
  BY DEF Row
<1>2. CASE e.kind = "add"
  <2>1. [course |-> e.course, term |-> e.term, locked |-> FALSE] \in Planned
    BY <1>2, EditFields DEF Planned
  <2>2. QED
    BY <1>1, <1>2, <2>1 DEF CoursesAfter
<1>3. CASE e.kind = "change"
  BY <1>1, <1>3, EditFields DEF CoursesAfter, Planned
<1>4. CASE e.kind = "remove"
  BY <1>1, <1>4 DEF CoursesAfter
<1>5. CASE e.kind \notin {"add", "change", "remove"}
  BY <1>1, <1>5 DEF CoursesAfter
<1>6. QED
  BY <1>2, <1>3, <1>4, <1>5

LEMMA RowAfterTyped ==
  ASSUME NEW row \in Row, NEW e \in Edits, NEW projection \in SUBSET Courses,
         row.version < MaxVersion, tokens \in Nat
  PROVE  /\ RowAfter(row, e, projection) \in Row
         /\ RowAfter(row, e, projection).version = row.version + 1
         /\ RowAfter(row, e, projection).courses = CoursesAfter(row, e)
         /\ RowAfter(row, e, projection).projection = projection
         /\ RowAfter(row, e, projection).token \in Nat
<1> DEFINE after == RowAfter(row, e, projection)
<1>1. /\ after.name = IF e.kind = "rename" THEN e.name ELSE row.name
      /\ after.limit = IF e.kind = "prefer" THEN e.limit ELSE row.limit
      /\ after.sharing = IF e.kind = "share" THEN e.on ELSE row.sharing
      /\ after.token = TokenAfter(row, e)
      /\ after.courses = CoursesAfter(row, e)
      /\ after.version = row.version + 1
      /\ after.projection = projection
  BY DEF RowAfter, Row
<1>2. TokenAfter(row, e) \in Nat
  BY DEF TokenAfter, Row
<1>3. after.name \in Names /\ after.limit \in Limits /\ after.sharing \in BOOLEAN
  BY <1>1, EditFields DEF Row
<1>4. after.version \in 1..MaxVersion
  BY <1>1, BoundsAssumption DEF Row
<1>5. CoursesAfter(row, e) \in SUBSET Planned
  BY CoursesAfterTyped
<1>6. after \in Row
  BY <1>1, <1>2, <1>3, <1>4, <1>5, CodesTyped DEF RowAfter, Row
<1>7. QED
  BY <1>1, <1>2, <1>6 DEF after

LEMMA NewRowTyped ==
  ASSUME NEW name \in Names, NEW limit \in Limits, NEW courses \in SUBSET Planned
  PROVE  /\ NewRow(name, limit, courses) \in Row
         /\ NewRow(name, limit, courses).projection = Codes(NewRow(name, limit, courses).courses)
  BY CodesTyped, BoundsAssumption DEF NewRow, Row

-----------------------------------------------------------------------------
(* Types.                                                                  *)

LEMMA TypedInit == Init => Typed
<1> SUFFICES ASSUME Init PROVE Typed  OBVIOUS
<1>1. PICK name \in Names, limit \in Limits :
         scenario = [s \in Scenarios |-> IF s = First THEN NewRow(name, limit, {}) ELSE None]
  BY DEF Init
<1>2. scenario \in [Scenarios -> Row \cup {None}]
  BY <1>1, NewRowTyped
<1>3. NoView \in [of : Scenarios \cup {None}, version : 0..MaxVersion,
                 limit : Limits \cup {None}, courses : SUBSET Planned]
  BY BoundsAssumption DEF NoView, Seeing
<1>4. NoJob \in [on : Scenarios \cup {None},
                edit : Edits \cup {NoEdit} \cup [kind : {"new"}, row : Row],
                projection : SUBSET Courses]
  BY DEF NoJob
<1>5. QED
  BY <1>2, <1>3, <1>4 DEF Init, Typed, TypeOK, Exclusive, InHand

\* A step of t that leaves the scenarios alone and locks nothing.
LEMMA QuietStep ==
  ASSUME Typed, TypeOK', NEW t \in Tabs, scenario' = scenario, pc'[t] # "locked", InHand(t)',
         \A u \in Tabs \ {t} : pc'[u] = pc[u] /\ view'[u] = view[u] /\ job'[u] = job[u]
  PROVE  Typed'
  BY DEF Typed, Exclusive, InHand, Exists

\* The queries of a view and of a copy.
LEMMA TypedReads ==
  ASSUME Typed, NEW t \in Tabs,
         \/ \E s \in Scenarios : ReadRow(t, s) \/ ReadSource(t, s)
         \/ ReadPreference(t) \/ ReadCourses(t) \/ Leave(t)
  PROVE  Typed'
<1> USE BoundsAssumption DEF Typed, TypeOK, NoView, Seeing
<1>1. ASSUME NEW s \in Scenarios, ReadRow(t, s) PROVE Typed'
  <2>1. scenario[s] \in Row
    BY <1>1 DEF ReadRow, Exists
  <2>2. scenario[s].version \in 0..MaxVersion
    BY <2>1 DEF Row
  <2>3. TypeOK'
    BY <1>1, <2>2 DEF ReadRow, Go
  <2>4. InHand(t)'
    BY <1>1 DEF ReadRow, Go, InHand, Exists
  <2>5. QED
    BY <1>1, <2>3, <2>4, QuietStep DEF ReadRow, Go
<1>2. ASSUME NEW s \in Scenarios, ReadSource(t, s) PROVE Typed'
  <2>1. scenario[s] \in Row
    BY <1>2 DEF ReadSource, Exists
  <2>2. scenario[s].courses \in SUBSET Planned
    BY <2>1 DEF Row
  <2>3. TypeOK'
    BY <1>2, <2>2 DEF ReadSource, Go
  <2>4. InHand(t)'
    BY <1>2 DEF ReadSource, Go, InHand, Exists
  <2>5. QED
    BY <1>2, <2>3, <2>4, QuietStep DEF ReadSource, Go
<1>3. CASE ReadPreference(t)
  <2>1. view[t].of \in Scenarios /\ scenario[view[t].of] \in Row
    BY <1>3 DEF ReadPreference, Go, InHand, Exists
  <2>2. scenario[view[t].of].limit \in Limits
    BY <2>1 DEF Row
  <2>3. TypeOK'
    BY Z3, <1>3, <2>2 DEF ReadPreference, Go
  <2>4. InHand(t)'
    BY <1>3 DEF ReadPreference, Go, InHand, Exists
  <2>5. QED
    BY <1>3, <2>3, <2>4, QuietStep DEF ReadPreference, Go
<1>4. CASE ReadCourses(t)
  <2>1. view[t].of \in Scenarios /\ scenario[view[t].of] \in Row
    BY <1>4 DEF ReadCourses, Go, InHand, Exists
  <2>2. scenario[view[t].of].courses \in SUBSET Planned
    BY <2>1 DEF Row
  <2>3. TypeOK'
    BY ZenonT(60), <1>4, <2>2 DEF ReadCourses, Go
  <2>4. InHand(t)'
    BY <1>4 DEF ReadCourses, Go, InHand, Exists
  <2>5. QED
    BY <1>4, <2>3, <2>4, QuietStep DEF ReadCourses, Go
<1>5. CASE Leave(t)
  <2>1. TypeOK'
    BY <1>5 DEF Leave, Go
  <2>2. InHand(t)'
    BY <1>5 DEF Leave, Go, InHand
  <2>3. QED
    BY <1>5, <2>1, <2>2, QuietStep DEF Leave, Go
<1>6. QED
  BY <1>1, <1>2, <1>3, <1>4, <1>5

LEMMA TypedLock ==
  ASSUME Typed, NEW t \in Tabs, NEW e \in Edits, NEW guarded \in BOOLEAN, Lock(t, e, guarded)
  PROVE  Typed'
<1> USE DEF Typed, TypeOK
<1> DEFINE s == view[t].of
<1>1. s \in Scenarios /\ scenario[s] \in Row /\ Exists(s)
  BY DEF Lock, InHand, Exists
<1>2. CASE Current(t, e, guarded) /\ Allowed(scenario[s], e)
  <2>1. Codes(CoursesAfter(scenario[s], e)) \in SUBSET Courses
    BY <1>1, CoursesAfterTyped, CodesTyped
  <2>2. /\ scenario' = scenario /\ tokens' = tokens /\ pc[t] = "viewing"
        /\ pc' = [pc EXCEPT ![t] = "locked"]
        /\ job' = [job EXCEPT ![t] = [on |-> s, edit |-> e,
                                     projection |-> Codes(CoursesAfter(scenario[s], e))]]
        /\ view' = IF guarded THEN view ELSE [view EXCEPT ![t] = NoView]
        /\ ~Held(s) /\ scenario[s].version < MaxVersion
    BY <1>2 DEF Lock, Go
  <2>3. TypeOK'
    BY <1>1, <2>1, <2>2, BoundsAssumption DEF NoView, Seeing
  <2>4. InHand(t)'
    BY <1>1, <2>2 DEF InHand, NoView, Seeing, Exists
  <2>5. Exclusive'
    BY <2>2 DEF Exclusive, Held, InEdit
  <2>6. \A u \in Tabs \ {t} : InHand(u)'
    BY <2>2 DEF InHand, Exists
  <2>7. QED
    BY <2>3, <2>4, <2>5, <2>6
<1>3. CASE ~(Current(t, e, guarded) /\ Allowed(scenario[s], e))
  <2>1. /\ scenario' = scenario /\ tokens' = tokens /\ job' = job
        /\ pc' = [pc EXCEPT ![t] = "idle"] /\ view' = [view EXCEPT ![t] = NoView]
    BY <1>3 DEF Lock, Go
  <2>2. TypeOK'
    BY <2>1, BoundsAssumption DEF NoView, Seeing
  <2>3. InHand(t)'
    BY <2>1 DEF InHand
  <2>4. QED
    BY <2>1, <2>2, <2>3, QuietStep
<1>4. QED
  BY <1>2, <1>3

\* The row an edit commits.
LEMMA CommitWrites ==
  ASSUME Typed, NEW t \in Tabs, Commit(t)
  PROVE  LET s == job[t].on
             after == RowAfter(scenario[s], job[t].edit, job[t].projection)
         IN  /\ s \in Scenarios /\ scenario[s] \in Row /\ job[t].edit \in Edits
             /\ pc[t] = "locked" /\ after \in Row
             /\ after.version = scenario[s].version + 1 /\ after.projection = job[t].projection
             /\ after.courses = CoursesAfter(scenario[s], job[t].edit)
             /\ scenario' = [scenario EXCEPT ![s] = after]
             /\ \A u \in Tabs \ {t} : pc[u] = "locked" => job[u].on # s
<1> DEFINE s == job[t].on
<1>1. /\ pc[t] = "locked" /\ s \in Scenarios /\ scenario[s] \in Row /\ job[t].edit \in Edits
      /\ scenario[s].version < MaxVersion /\ job[t].projection \in SUBSET Courses /\ tokens \in Nat
  BY DEF Commit, Go, Typed, TypeOK, InHand, Exists
<1>2. QED
  BY <1>1, RowAfterTyped DEF Commit, Typed, Exclusive

LEMMA TypedCommit ==
  ASSUME Typed, NEW t \in Tabs, Commit(t)
  PROVE  Typed'
<1> DEFINE s == job[t].on
           after == RowAfter(scenario[s], job[t].edit, job[t].projection)
<1>1. /\ s \in Scenarios /\ scenario[s] \in Row /\ pc[t] = "locked" /\ after \in Row
      /\ after.version = scenario[s].version + 1
      /\ scenario' = [scenario EXCEPT ![s] = after]
      /\ \A u \in Tabs \ {t} : pc[u] = "locked" => job[u].on # s
  BY CommitWrites
<1>2. after.version \in 0..MaxVersion /\ after.token \in Nat
  BY <1>1 DEF Row
<1> HIDE DEF after
<1>3. /\ pc' = [pc EXCEPT ![t] = "row"] /\ job' = [job EXCEPT ![t] = NoJob]
      /\ tokens' = IF after.token > tokens THEN after.token ELSE tokens
      /\ view' = [view EXCEPT ![t] = Seeing(s, after.version, {})]
  BY DEF Commit, Go, after
<1>5. TypeOK'
  <2>1. scenario' \in [Scenarios -> Row \cup {None}] /\ tokens' \in Nat
    BY <1>1, <1>2, <1>3 DEF Typed, TypeOK
  <2>2. view' \in [Tabs -> [of : Scenarios \cup {None}, version : 0..MaxVersion,
                           limit : Limits \cup {None}, courses : SUBSET Planned]]
    BY <1>1, <1>2, <1>3 DEF Typed, TypeOK, Seeing
  <2>3. QED
    BY <1>3, <2>1, <2>2 DEF Typed, TypeOK, NoJob
<1>6. Exclusive'
  BY <1>3 DEF Typed, TypeOK, Exclusive
<1>7. \A q \in Scenarios : Exists(q) => Exists(q)'
  BY <1>1, RowAssumption DEF Exists, Typed, TypeOK
<1>8. InHand(t)'
  BY <1>1, <1>3, RowAssumption DEF InHand, Exists, Typed, TypeOK, Seeing
<1>9. ASSUME NEW u \in Tabs \ {t} PROVE InHand(u)'
  BY <1>1, <1>3, <1>7 DEF InHand, Exists, Typed, TypeOK
<1>10. QED
  BY <1>5, <1>6, <1>8, <1>9 DEF Typed

LEMMA TypedEnds ==
  ASSUME Typed, NEW t \in Tabs,
         \/ RollBack(t) \/ Abandon(t)
         \/ \E name \in Names, limit \in Limits : Create(t, name, limit)
         \/ \E name \in Names : Duplicate(t, name)
  PROVE  Typed'
<1> USE BoundsAssumption DEF Typed, TypeOK
<1>1. CASE RollBack(t) \/ Abandon(t)
  <2>1. /\ scenario' = scenario /\ tokens' = tokens /\ pc' = [pc EXCEPT ![t] = "idle"]
        /\ view' = [view EXCEPT ![t] = NoView] /\ job' = [job EXCEPT ![t] = NoJob]
    BY <1>1 DEF RollBack, Abandon, Go
  <2>2. TypeOK'
    BY <2>1 DEF NoView, Seeing, NoJob
  <2>3. InHand(t)'
    BY <2>1 DEF InHand
  <2>4. QED
    BY <2>1, <2>2, <2>3, QuietStep
<1>2. ASSUME NEW name \in Names, NEW limit \in Limits, NEW courses \in SUBSET Planned,
             Draft(t, name, limit, courses), UNCHANGED <<scenario, tokens, view>>,
             pc' = [pc EXCEPT ![t] = "drafted"]
      PROVE  Typed'
  <2>1. NewRow(name, limit, courses) \in Row /\ Codes(courses) \in SUBSET Courses
    BY NewRowTyped, CodesTyped
  <2>2. TypeOK'
    BY <1>2, <2>1 DEF Draft
  <2>3. InHand(t)'
    BY <1>2, <2>1 DEF Draft, InHand
  <2>4. QED
    BY <1>2, <2>2, <2>3, QuietStep DEF Draft
<1>3. ASSUME NEW name \in Names, NEW limit \in Limits, Create(t, name, limit) PROVE Typed'
  BY <1>2, <1>3 DEF Create, Go
<1>4. ASSUME NEW name \in Names, Duplicate(t, name) PROVE Typed'
  <2>1. scenario[view[t].of] \in Row /\ view[t].courses \in SUBSET Planned
    BY <1>4 DEF Duplicate, Go, InHand, Exists
  <2>2. scenario[view[t].of].limit \in Limits
    BY <2>1 DEF Row
  <2>3. Unlocked(view[t].courses) \in SUBSET Planned
    <3>1. \A c \in Planned : [c EXCEPT !.locked = FALSE] \in Planned
      BY DEF Planned
    <3>2. QED
      BY <2>1, <3>1 DEF Unlocked
  <2>4. QED
    BY <1>2, <1>4, <2>2, <2>3 DEF Duplicate, Go
<1>5. QED
  BY <1>1, <1>3, <1>4

LEMMA TypedInsert ==
  ASSUME Typed, NEW t \in Tabs, NEW s \in Scenarios, Insert(t, s)
  PROVE  Typed'
<1> USE BoundsAssumption DEF Typed, TypeOK
<1>1. /\ job[t].edit.row \in Row /\ scenario[s] = None /\ pc' = [pc EXCEPT ![t] = "idle"]
      /\ scenario' = [scenario EXCEPT ![s] = job[t].edit.row] /\ tokens' = tokens
      /\ view' = [view EXCEPT ![t] = NoView] /\ job' = [job EXCEPT ![t] = NoJob]
  BY DEF Insert, Go, InHand, Free, Exists
<1>2. TypeOK'
  BY <1>1 DEF NoView, Seeing, NoJob
<1>3. Exclusive'
  BY <1>1 DEF Exclusive
<1>4. \A u \in Tabs : InHand(u)'
  BY <1>1 DEF InHand, Exists
<1>5. QED
  BY <1>2, <1>3, <1>4

LEMMA TypedInvariant == Spec => []Typed
<1>1. Typed /\ [Next]_vars => Typed'
  <2> SUFFICES ASSUME Typed, [Next]_vars PROVE Typed'  OBVIOUS
  <2>1. CASE UNCHANGED vars
    BY <2>1 DEF vars, Typed, TypeOK, Exclusive, InHand, Exists
  <2>2. CASE Next
    BY <2>2, TypedReads, TypedLock, TypedCommit, TypedEnds, TypedInsert DEF Next
  <2>3. QED
    BY <2>1, <2>2
<1>2. QED
  BY <1>1, TypedInit, PTL DEF Spec

\* Every variable keeps its type, and no version goes beyond its bound.
THEOREM TypeCorrect == Spec => []TypeOK
<1>1. Typed => TypeOK
  BY DEF Typed
<1>2. QED
  BY <1>1, TypedInvariant, PTL

-----------------------------------------------------------------------------
(* What a request holds agrees with what is stored.                        *)

Keeps(row, e) ==
    \A c \in row.courses : c.locked => Planning(CoursesAfter(row, e), c.course, c.term)

\* The projection an edit will store is that of the courses it will store, and it
\* leaves the locked courses where they are.
JobSound(t) ==
    /\ pc[t] = "locked" =>
          /\ job[t].projection = Codes(CoursesAfter(scenario[job[t].on], job[t].edit))
          /\ Keeps(scenario[job[t].on], job[t].edit)
    /\ pc[t] = "drafted" => job[t].edit.row.projection = Codes(job[t].edit.row.courses)

\* While the version a view has read is the current one, so is what it read since.
UpToDate(t) == view[t].version = scenario[view[t].of].version
ViewSound(t) ==
    /\ pc[t] \in {"row", "preference", "viewing"} =>
          view[t].version <= scenario[view[t].of].version
    /\ pc[t] \in {"preference", "viewing"} /\ UpToDate(t) =>
          view[t].limit = scenario[view[t].of].limit
    /\ pc[t] = "viewing" /\ UpToDate(t) => view[t].courses = scenario[view[t].of].courses
    /\ pc[t] = "locked" /\ view[t].of # None =>
          /\ view[t].limit = scenario[job[t].on].limit
          /\ view[t].courses = scenario[job[t].on].courses

Sound == ProjectionMatchesCourses /\ \A t \in Tabs : JobSound(t) /\ ViewSound(t)

\* An edit that is allowed keeps the locked courses in their place.
LEMMA AllowedKeeps ==
  ASSUME NEW row \in Row, NEW e \in Edits, Allowed(row, e)
  PROVE  Keeps(row, e)
<1> SUFFICES ASSUME NEW c \in row.courses, c.locked
             PROVE  Planning(CoursesAfter(row, e), c.course, c.term)
  BY DEF Keeps
<1>1. CASE e.kind = "remove"
  BY <1>1 DEF Allowed, CoursesAfter, Planning, Item
<1>2. CASE e.kind = "change"
  <2>1. CASE c \notin Item(row, e)
    BY <1>2, <2>1 DEF CoursesAfter, Planning
  <2>2. CASE c \in Item(row, e)
    <3> DEFINE moved == [course |-> e.course, term |-> e.to, locked |-> e.lock]
    <3>1. e.to = e.from
      BY <1>2, <2>2 DEF Allowed
    <3>2. moved.course = c.course /\ moved.term = c.term
      BY <2>2, <3>1 DEF Item
    <3>3. moved \in CoursesAfter(row, e)
      BY <1>2 DEF CoursesAfter
    <3>4. QED
      BY <3>2, <3>3 DEF Planning
  <2>3. QED
    BY <2>1, <2>2
<1>3. CASE e.kind \notin {"remove", "change"}
  BY <1>3 DEF CoursesAfter, Planning
<1>4. QED
  BY <1>1, <1>2, <1>3

LEMMA QuietSound ==
  ASSUME Sound, NEW t \in Tabs, scenario' = scenario, JobSound(t)', ViewSound(t)',
         \A u \in Tabs \ {t} : pc'[u] = pc[u] /\ view'[u] = view[u] /\ job'[u] = job[u]
  PROVE  Sound'
  BY DEF Sound, ProjectionMatchesCourses, Exists, JobSound, ViewSound, UpToDate

LEMMA SoundReads ==
  ASSUME Typed, Sound, NEW t \in Tabs,
         \/ \E s \in Scenarios : ReadRow(t, s) \/ ReadSource(t, s)
         \/ ReadPreference(t) \/ ReadCourses(t) \/ Leave(t)
  PROVE  Sound'
<1> USE DEF Typed, TypeOK
<1>1. ASSUME NEW s \in Scenarios, ReadRow(t, s) \/ ReadSource(t, s) PROVE Sound'
  <2>1. scenario[s].version \in Nat
    BY <1>1 DEF ReadRow, ReadSource, Exists, Row
  <2>2. JobSound(t)' /\ ViewSound(t)'
    BY <1>1, <2>1 DEF ReadRow, ReadSource, Go, JobSound, ViewSound, Seeing
  <2>3. QED
    BY <1>1, <2>2, QuietSound DEF ReadRow, ReadSource, Go
<1>2. CASE ReadPreference(t)
  <2>1. JobSound(t)' /\ ViewSound(t)'
    BY <1>2 DEF ReadPreference, Go, JobSound, ViewSound, Sound, UpToDate
  <2>2. QED
    BY <1>2, <2>1, QuietSound DEF ReadPreference, Go
<1>3. CASE ReadCourses(t)
  <2>1. JobSound(t)' /\ ViewSound(t)'
    BY <1>3 DEF ReadCourses, Go, JobSound, ViewSound, Sound, UpToDate
  <2>2. QED
    BY <1>3, <2>1, QuietSound DEF ReadCourses, Go
<1>4. CASE Leave(t)
  <2>1. JobSound(t)' /\ ViewSound(t)'
    BY <1>4 DEF Leave, Go, JobSound, ViewSound
  <2>2. QED
    BY <1>4, <2>1, QuietSound DEF Leave, Go
<1>5. QED
  BY <1>1, <1>2, <1>3, <1>4

LEMMA SoundLock ==
  ASSUME Typed, Sound, NEW t \in Tabs, NEW e \in Edits, NEW guarded \in BOOLEAN,
         Lock(t, e, guarded)
  PROVE  Sound'
<1> USE DEF Typed, TypeOK
<1> DEFINE s == view[t].of
<1>1. CASE Current(t, e, guarded) /\ Allowed(scenario[s], e)
  <2>1. /\ scenario' = scenario /\ pc[t] = "viewing" /\ pc' = [pc EXCEPT ![t] = "locked"]
        /\ job' = [job EXCEPT ![t] = [on |-> s, edit |-> e,
                                     projection |-> Codes(CoursesAfter(scenario[s], e))]]
        /\ view' = IF guarded THEN view ELSE [view EXCEPT ![t] = NoView]
        /\ s \in Scenarios /\ scenario[s] \in Row
    BY <1>1 DEF Lock, Go, InHand, Exists
  <2>2. JobSound(t)'
    <3>1. Keeps(scenario[s], e)
      BY <1>1, <2>1, AllowedKeeps
    <3>2. QED
      BY <2>1, <3>1 DEF JobSound, Keeps
  <2>3. ViewSound(t)'
    <3>1. CASE guarded
      BY <1>1, <2>1, <3>1 DEF ViewSound, Sound, Current, UpToDate
    <3>2. CASE ~guarded
      BY <2>1, <3>2 DEF ViewSound, NoView, Seeing
    <3>3. QED
      BY <3>1, <3>2
  <2>4. QED
    BY <2>1, <2>2, <2>3, QuietSound
<1>2. CASE ~(Current(t, e, guarded) /\ Allowed(scenario[s], e))
  <2>1. /\ scenario' = scenario /\ job' = job
        /\ pc' = [pc EXCEPT ![t] = "idle"] /\ view' = [view EXCEPT ![t] = NoView]
    BY <1>2 DEF Lock, Go
  <2>2. JobSound(t)' /\ ViewSound(t)'
    BY <2>1 DEF JobSound, ViewSound
  <2>3. QED
    BY <2>1, <2>2, QuietSound
<1>3. QED
  BY <1>1, <1>2

LEMMA SoundCommit ==
  ASSUME Typed, Sound, NEW t \in Tabs, Commit(t)
  PROVE  Sound'
<1> USE DEF Typed, TypeOK
<1> DEFINE s == job[t].on
           after == RowAfter(scenario[s], job[t].edit, job[t].projection)
<1>1. /\ s \in Scenarios /\ scenario[s] \in Row /\ pc[t] = "locked" /\ after \in Row
      /\ after.version = scenario[s].version + 1 /\ after.projection = job[t].projection
      /\ after.courses = CoursesAfter(scenario[s], job[t].edit)
      /\ scenario' = [scenario EXCEPT ![s] = after]
      /\ \A u \in Tabs \ {t} : pc[u] = "locked" => job[u].on # s
  BY CommitWrites
<1>2. after.projection = Codes(after.courses)
  BY <1>1 DEF Sound, JobSound
<1>3. after.version \in Nat /\ scenario[s].version \in Nat
  BY <1>1 DEF Row
<1> HIDE DEF after
<1>4. /\ pc' = [pc EXCEPT ![t] = "row"] /\ job' = [job EXCEPT ![t] = NoJob]
      /\ view' = [view EXCEPT ![t] = Seeing(s, after.version, {})]
  BY DEF Commit, Go, after
<1>5. ProjectionMatchesCourses'
  BY <1>1, <1>2 DEF Sound, ProjectionMatchesCourses, Exists
<1>6. JobSound(t)' /\ ViewSound(t)'
  BY <1>1, <1>3, <1>4 DEF JobSound, ViewSound, Seeing
<1>7. ASSUME NEW u \in Tabs \ {t} PROVE JobSound(u)' /\ ViewSound(u)'
  <2>1. pc'[u] = pc[u] /\ view'[u] = view[u] /\ job'[u] = job[u]
    BY <1>4
  <2>2. JobSound(u)'
    BY <1>1, <2>1 DEF Sound, JobSound, InHand
  <2>3. CASE pc[u] \in {"row", "preference", "viewing"} /\ view[u].of = s
    <3>1. view[u].version < after.version
      <4>1. view[u].version <= scenario[s].version /\ view[u].version \in Int
        BY <2>3 DEF Sound, ViewSound
      <4>2. QED
        BY <1>1, <1>3, <4>1
    <3>2. scenario'[view'[u].of] = after /\ ~UpToDate(u)'
      BY <1>1, <1>3, <2>1, <2>3, <3>1 DEF UpToDate
    <3>3. view'[u].version <= after.version
      BY <1>3, <2>1, <3>1
    <3>4. QED
      BY <2>1, <2>2, <2>3, <3>2, <3>3 DEF ViewSound
  <2>4. CASE pc[u] \in {"row", "preference", "viewing"} /\ view[u].of # s
    <3>1. scenario'[view'[u].of] = scenario[view[u].of] /\ UpToDate(u)' = UpToDate(u)
      BY <1>1, <2>1, <2>4 DEF UpToDate, InHand
    <3>2. QED
      BY <2>1, <2>2, <2>4, <3>1 DEF Sound, ViewSound
  <2>5. CASE pc[u] = "locked"
    <3>1. scenario'[job'[u].on] = scenario[job[u].on]
      BY <1>1, <2>1, <2>5 DEF InHand
    <3>2. QED
      BY <2>1, <2>2, <2>5, <3>1 DEF Sound, ViewSound
  <2>6. CASE pc[u] \notin {"row", "preference", "viewing", "locked"}
    BY <2>1, <2>2, <2>6 DEF ViewSound
  <2>7. QED
    BY <2>2, <2>3, <2>4, <2>5, <2>6
<1>8. QED
  BY <1>5, <1>6, <1>7 DEF Sound

LEMMA SoundEnds ==
  ASSUME Typed, Sound, NEW t \in Tabs,
         \/ RollBack(t) \/ Abandon(t)
         \/ \E name \in Names, limit \in Limits : Create(t, name, limit)
         \/ \E name \in Names : Duplicate(t, name)
  PROVE  Sound'
<1> USE DEF Typed, TypeOK
<1>1. CASE RollBack(t) \/ Abandon(t)
  <2>1. /\ scenario' = scenario /\ pc' = [pc EXCEPT ![t] = "idle"]
        /\ view' = [view EXCEPT ![t] = NoView] /\ job' = [job EXCEPT ![t] = NoJob]
    BY <1>1 DEF RollBack, Abandon, Go
  <2>2. JobSound(t)' /\ ViewSound(t)'
    BY <2>1 DEF JobSound, ViewSound
  <2>3. QED
    BY <2>1, <2>2, QuietSound
<1>2. ASSUME NEW name, NEW limit, NEW courses, Draft(t, name, limit, courses),
             UNCHANGED <<scenario, tokens, view>>, pc' = [pc EXCEPT ![t] = "drafted"]
      PROVE  Sound'
  <2>1. JobSound(t)' /\ ViewSound(t)'
    BY <1>2 DEF Draft, NewRow, JobSound, ViewSound
  <2>2. QED
    BY <1>2, <2>1, QuietSound DEF Draft
<1>3. QED
  BY <1>1, <1>2 DEF Create, Duplicate, Go

LEMMA SoundInsert ==
  ASSUME Typed, Sound, NEW t \in Tabs, NEW s \in Scenarios, Insert(t, s)
  PROVE  Sound'
<1> USE DEF Typed, TypeOK
<1>1. /\ scenario[s] = None /\ pc[t] = "drafted" /\ pc' = [pc EXCEPT ![t] = "idle"]
      /\ scenario' = [scenario EXCEPT ![s] = job[t].edit.row]
      /\ view' = [view EXCEPT ![t] = NoView] /\ job' = [job EXCEPT ![t] = NoJob]
  BY DEF Insert, Go, Free, Exists
<1>2. ProjectionMatchesCourses'
  BY <1>1 DEF Sound, JobSound, ProjectionMatchesCourses, Exists
<1>3. \A u \in Tabs : JobSound(u)'
  BY <1>1 DEF Sound, JobSound, InHand, Exists
<1>4. \A u \in Tabs : ViewSound(u)'
  BY <1>1 DEF Sound, ViewSound, UpToDate, InHand, Exists
<1>5. QED
  BY <1>2, <1>3, <1>4 DEF Sound

LEMMA SoundInvariant == Spec => []Sound
<1>1. Init => Sound
  BY DEF Init, NewRow, Sound, ProjectionMatchesCourses, Exists, JobSound, ViewSound
<1>2. Typed /\ Sound /\ [Next]_vars => Sound'
  <2> SUFFICES ASSUME Typed, Sound, [Next]_vars PROVE Sound'  OBVIOUS
  <2>1. CASE UNCHANGED vars
    BY <2>1 DEF vars, Sound, ProjectionMatchesCourses, Exists, JobSound, ViewSound, UpToDate
  <2>2. CASE Next
    BY <2>2, SoundReads, SoundLock, SoundCommit, SoundEnds, SoundInsert DEF Next
  <2>3. QED
    BY <2>1, <2>2
<1>3. QED
  BY <1>1, <1>2, TypedInvariant, PTL DEF Spec

\* The stored projection of every scenario is that of its planned courses
\* (recompute_scenario_projection), whatever edits, copies and drafts run at once.
THEOREM ProjectionCurrent == Spec => []ProjectionMatchesCourses
<1>1. Sound => ProjectionMatchesCourses
  BY DEF Sound
<1>2. QED
  BY <1>1, SoundInvariant, PTL

\* An edit that passed If-Match overwrites nothing its author has not seen, although
\* the view was read in three queries.
THEOREM NothingUnseenOverwritten == Spec => []GuardedEditSawTheScenario
<1>1. Sound => GuardedEditSawTheScenario
  BY DEF Sound, ViewSound, GuardedEditSawTheScenario
<1>2. QED
  BY <1>1, SoundInvariant, PTL

\* No request moves or removes a locked planned course, not even one that was allowed
\* before somebody else locked it (update_planned_course, delete_planned_course).
THEOREM LocksAreObeyed == Spec => LockedCourseStays
<1> DEFINE Stays == \A s \in Scenarios : Exists(s) =>
                       \A c \in scenario[s].courses :
                           c.locked => Planning(scenario'[s].courses, c.course, c.term)
<1>1. Typed /\ Sound /\ [Next]_vars => [Stays]_vars
  <2> SUFFICES ASSUME Typed, Sound, Next, NEW s \in Scenarios, Exists(s),
                      NEW c \in scenario[s].courses, c.locked
               PROVE  Planning(scenario'[s].courses, c.course, c.term)
    BY DEF vars
  <2>1. CASE scenario'[s] = scenario[s]
    BY <2>1 DEF Planning
  <2>2. ASSUME NEW t \in Tabs, Commit(t), scenario'[s] # scenario[s]
        PROVE  Planning(scenario'[s].courses, c.course, c.term)
    <3>1. s = job[t].on /\ pc[t] = "locked"
          /\ scenario'[s].courses = CoursesAfter(scenario[s], job[t].edit)
      BY <2>2, CommitWrites DEF Typed, TypeOK
    <3>2. QED
      BY <3>1 DEF Sound, JobSound, Keeps
  <2>3. ASSUME NEW t \in Tabs, NEW q \in Scenarios, Insert(t, q) PROVE scenario'[s] = scenario[s]
    BY <2>3 DEF Insert, Free, Exists, Typed, TypeOK
  <2>4. ASSUME NEW t \in Tabs,
               \/ \E q \in Scenarios : ReadRow(t, q) \/ ReadSource(t, q)
               \/ ReadPreference(t) \/ ReadCourses(t) \/ Leave(t)
               \/ \E e \in Edits, guarded \in BOOLEAN : Lock(t, e, guarded)
               \/ RollBack(t) \/ Abandon(t)
               \/ \E name \in Names, limit \in Limits : Create(t, name, limit)
               \/ \E name \in Names : Duplicate(t, name)
        PROVE  scenario'[s] = scenario[s]
    <3>1. ASSUME NEW e \in Edits, NEW guarded \in BOOLEAN, Lock(t, e, guarded)
          PROVE  scenario' = scenario
      BY <3>1 DEF Lock
    <3>2. QED
      BY <2>4, <3>1 DEF ReadRow, ReadSource, ReadPreference, ReadCourses, Leave, RollBack,
         Create, Duplicate, Abandon
  <2>5. QED
    BY <2>1, <2>2, <2>3, <2>4 DEF Next
<1>2. QED
  BY <1>1, TypedInvariant, SoundInvariant, PTL DEF Spec, LockedCourseStays
=============================================================================
