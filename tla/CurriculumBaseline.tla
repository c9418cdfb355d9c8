------------------------- MODULE CurriculumBaseline -------------------------
(***************************************************************************)
(* A baseline: the file from which a revision of a curriculum is imported. *)
(* Its contents are validated and compared with another baseline           *)
(* (imports/application/baseline.py).  What its rules say is the subject   *)
(* of module BaselineRules; here they are known by five answers.           *)
(*                                                                         *)
(* A baseline is a record:                                                 *)
(*    plan, revision, from, total       identity and effective date        *)
(*    components   a set of [id, required, mandatory, elective]            *)
(*    groups       a set of [id, component, required]                      *)
(*    courses      a set of [code, credits]                                *)
(*    memberships  a set of [course, group, mandatory, status]             *)
(*    enrollment   a sequence of [owner, purpose, status, evidence, rule]  *)
(*    graduation   a sequence of [id, status, evidence, url, rule]         *)
(*    ambiguities  a sequence of [course, issue, status]                   *)
(* Evidence is a page, a "mapping" without one, or None.  A number that is *)
(* not a natural stands for whatever is not a number of credits.  Texts,   *)
(* which are checked for presence only, and page locators are left out.    *)
(***************************************************************************)
EXTENDS Integers, Sequences, SequencesExt, FiniteSets, FiniteSetsExt

CONSTANTS
    None,              \* no row, no page, no number
    Parsed(_),         \* whether the parser takes a rule
    Fits(_, _),        \* whether validation takes a rule, given what the file has
    Answerable(_, _),  \* whether what the rule counts exists in what the file has
    DependsOn(_),      \* the courses a rule depends on
    Cyclic(_)          \* whether courses depend on each other in a circle

Entities == {"components", "groups", "courses", "memberships", "enrollment", "graduation", "ambiguities"}

Listed   == {"enrollment", "graduation", "ambiguities"}

Rows(b, entity) == IF entity \in Listed THEN ToSet(b[entity]) ELSE b[entity]

KeyOf(entity, row) ==
    CASE entity \in {"components", "groups", "graduation"} -> row.id
      [] entity = "courses"     -> row.code
      [] entity = "memberships" -> <<row.course, row.group>>
      [] entity = "enrollment"  -> <<row.owner, row.purpose>>
      [] entity = "ambiguities" -> <<row.course, row.issue>>

KeysOf(b, entity) == {KeyOf(entity, row) : row \in Rows(b, entity)}

-----------------------------------------------------------------------------
(* Validation.                                                             *)

SourceStatuses == {"VERIFIED", "DERIVED", "INFERRED_PENDING_REVIEW", "UNKNOWN", "DISPUTED", "SUPERSEDED",
                   "VERIFIED_AT_INSTITUTION_LEVEL"}
Reviewable == {"UNKNOWN", "INFERRED_PENDING_REVIEW", "DISPUTED"}

\* No two rows have one key.  The conditions of graduation are not looked at.
KeysAreUnique(b) ==
    /\ \A entity \in {"components", "groups", "courses", "memberships"} :
          Cardinality(KeysOf(b, entity)) = Cardinality(Rows(b, entity))
    /\ Cardinality(KeysOf(b, "enrollment")) = Len(b.enrollment)

Credits(rows) == MapThenSumSet(LAMBDA row : row.required, rows)

GroupCredits(b, component) == Credits({g \in b.groups : g.component = component})

\* What each component requires, which is all the catalogue keeps of its credits.
Required(b) == {[id |-> k.id, required |-> k.required] : k \in b.components}

\* The credits add up: in each component, over its groups, and over the plan.
CreditsAddUp(b) ==
    /\ \A k \in b.components :
          /\ {k.required, k.mandatory, k.elective} \subseteq Nat
          /\ k.mandatory + k.elective = k.required
          /\ GroupCredits(b, k.id) = k.required
    /\ \A g \in b.groups : g.required \in Nat
    /\ \A c \in b.courses : c.credits \in Nat \cup {None}
    /\ b.total = Credits(Required(b))

\* What a rule may name.
Has(b) == [courses |-> KeysOf(b, "courses"), groups |-> KeysOf(b, "groups"), components |-> KeysOf(b, "components")]

Rules(b) == {q.rule : q \in ToSet(b.enrollment) \cup ToSet(b.graduation)}

ReferencesExist(b) ==
    /\ \A g \in b.groups : g.component \in KeysOf(b, "components")
    /\ \A m \in b.memberships :
          m.course \in KeysOf(b, "courses") /\ m.group \in KeysOf(b, "groups") /\ m.status \in SourceStatuses
    /\ \A q \in ToSet(b.enrollment) : q.owner \in KeysOf(b, "courses") /\ q.status \in SourceStatuses
    /\ \A rule \in Rules(b) : Fits(rule, Has(b))
    /\ \A a \in ToSet(b.ambiguities) : a.status \in Reviewable

VerifiedHaveEvidence(b) ==
    /\ \A q \in ToSet(b.enrollment) : q.status = "VERIFIED" => q.evidence # None
    /\ \A q \in ToSet(b.graduation) : q.status = "VERIFIED" => q.evidence # None \/ q.url

\* What each owner depends on, by the rules of rows.
Dependencies(owners, rows) ==
    [c \in owners |-> UNION {DependsOn(q.rule) : q \in {r \in rows : r.owner = c}}]

\* A row whose column is labelled otherwise, and one that is unknown, is not looked at.
DependencyGraph(b) ==
    Dependencies(KeysOf(b, "courses"),
                 {q \in ToSet(b.enrollment) : q.purpose \in {"PREREQUISITE", "COREQUISITE"} /\ q.status # "UNKNOWN"})

ValidBaseline(b) ==
    /\ KeysAreUnique(b) /\ CreditsAddUp(b) /\ ReferencesExist(b) /\ VerifiedHaveEvidence(b)
    /\ ~Cyclic(DependencyGraph(b))

-----------------------------------------------------------------------------
(* Comparison, row by row.  Pages and excerpts are provenance, no content. *)

Content(row) ==
    [f \in DOMAIN row \ {"evidence"} |-> row[f]]

Contents(b, entity) == IF b = None THEN {} ELSE {Content(row) : row \in Rows(b, entity)}

\* The row of a key, if there is one.  Of several in a list the last one counts.
RowOf(b, entity, key) ==
    LET LastOf(s) == Content(s[Max({i \in DOMAIN s : KeyOf(entity, s[i]) = key})])
    IN CASE b = None \/ key \notin KeysOf(b, entity) -> None
         [] b # None /\ key \in KeysOf(b, entity) /\ entity \in Listed -> LastOf(b[entity])
         [] OTHER -> CHOOSE row \in Contents(b, entity) : KeyOf(entity, row) = key

\* What identifies the plan, and the revision, as two rows of their own.
Header(b, row) ==
    CASE b = None            -> None
      [] row = "identity"    -> <<b.plan, b.total>>
      [] row = "revision"    -> <<b.revision, b.from>>

Headers == {"identity", "revision"}

Found(b, row) == IF row[1] \in Headers THEN Header(b, row[1]) ELSE RowOf(b, row[1], row[2])

NamedRows(b) == {<<h, h>> : h \in Headers} \cup UNION {{<<e, k>> : k \in KeysOf(b, e)} : e \in Entities}

Change(base, b, row) == [before |-> Found(base, row), after |-> Found(b, row)]

Difference(base, b, rows) ==
    [row \in {r \in rows : Found(base, r) # Found(b, r)} |-> Change(base, b, row)]

\* Mutant: what the new baseline no longer has is not reported.
DiffOfNew(base, b) == Difference(base, b, NamedRows(b))

\* The rows that were added (none before), removed (none after) or changed.
SemanticDiff(base, b) == Difference(base, b, NamedRows(b) \cup (IF base = None THEN {} ELSE NamedRows(base)))

Operation(entity, change) ==
    CASE entity \in Headers -> "CHANGE"
      [] entity \notin Headers /\ change.before = None -> "ADD"
      [] entity \notin Headers /\ change.after = None  -> "REMOVE"
      [] OTHER -> "CHANGE"

\* What is put before a reviewer: a row to add, to remove or to change.
Items(diff) == {<<row, Operation(row[1], diff[row])>> : row \in DOMAIN diff}
=============================================================================
