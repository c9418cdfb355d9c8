------------------------------ MODULE Catalogue -----------------------------
(***************************************************************************)
(* The catalogue of curricula: the rows that the import of baselines       *)
(* (imports/application/services.py) leaves behind, the proposals that put *)
(* them up for review, and what a degree audit reads of them               *)
(* (audit/application/services.py).                                        *)
(*                                                                         *)
(* A step is one request.  How the statements of concurrent requests on    *)
(* one plan interleave is the subject of module Publication, which leaves  *)
(* out what the rows say.                                                  *)
(***************************************************************************)
EXTENDS CurriculumBaseline

CONSTANTS
    Archives       \* what may happen: the files [baselines, offers] to import, the
                   \* [edits] of terms, and the [calendar]: the years of its instants

\* Files are written by tools of the project: their rows have the columns their
\* schema names, and dates are numbers.  Of their contents nothing is assumed.
IsFile(b) ==
    /\ b # None /\ b.from \in Nat /\ None \notin KeysOf(b, "courses")
    /\ \A e \in Listed : b[e] \in Seq(ToSet(b[e]))
    /\ \A e \in Entities \ Listed : IsFiniteSet(b[e])
    /\ \A e \in Entities : None \notin Contents(b, e)
    /\ \A k \in b.components :
          k = [id |-> k.id, required |-> k.required, mandatory |-> k.mandatory, elective |-> k.elective]
    /\ \A g \in b.groups : g = [id |-> g.id, component |-> g.component, required |-> g.required]
    /\ \A c \in b.courses : c = [code |-> c.code, credits |-> c.credits]
    /\ \A m \in b.memberships :
          m = [course |-> m.course, group |-> m.group, mandatory |-> m.mandatory, status |-> m.status]
    /\ \A q \in ToSet(b.enrollment) :
          /\ q = [owner |-> q.owner, purpose |-> q.purpose, status |-> q.status, evidence |-> q.evidence, rule |-> q.rule]
          /\ q.evidence \in {"page", "mapping", None}
    /\ \A q \in ToSet(b.graduation) :
          q = [id |-> q.id, status |-> q.status, evidence |-> q.evidence, url |-> q.url, rule |-> q.rule]
    /\ \A a \in ToSet(b.ambiguities) : a = [course |-> a.course, issue |-> a.issue, status |-> a.status]

ASSUME ArchiveAssumption ==
    /\ None # "page"
    /\ \A a \in Archives : IsFiniteSet(a.baselines) /\ \A b \in a.baselines : IsFile(b)

\* A rule that passes validation and parses counts groups and components of its file.
ASSUME RuleAssumption ==
    \A a \in Archives : \A b \in a.baselines : \A rule \in Rules(b) :
        Parsed(rule) /\ Fits(rule, Has(b)) => Answerable(rule, Has(b))

VARIABLES
    archive,       \* the files that may be imported, fixed from the beginning
    revisions,     \* CurriculumRevision with its rows, by plan and revision code
    versions,      \* CourseVersion, by course and valid_from; plans share them
    proposals      \* ChangeProposal, by its baseline; its candidates, by row and
                   \* operation.  Of each, those there are

catalogue == <<archive, revisions, versions, proposals>>

Key(b) == <<b.plan, b.revision>>
VersionsOf(b) == {<<c.code, b.from>> : c \in b.courses}
Keys   == {Key(b) : b \in archive.baselines}

InitCatalogue ==
    /\ archive \in Archives
    /\ revisions = <<>> /\ versions = <<>> /\ proposals = <<>>

\* What is new is put over what there was.
Over(new, old) == [x \in DOMAIN new \cup DOMAIN old |-> IF x \in DOMAIN new THEN new[x] ELSE old[x]]
Put(x, value, old) == [y \in DOMAIN old \cup {x} |-> IF y = x THEN value ELSE old[y]]

Kept     == {"PUBLISHED", "SUPERSEDED", "RETIRED"}
Imported == DOMAIN revisions

-----------------------------------------------------------------------------
(* The rows an import writes.                                              *)

Same(row, other, key) == \A field \in key : row[field] = other[field]

\* Mutant: rows that are there already are left as they are.
GetOrCreate(old, new, key) == old \cup {n \in new : \A o \in old : ~Same(n, o, key)}

\* Rows that are there already, by their key, are written over; none is deleted.
UpdateOrCreate(old, new, key) == new \cup {o \in old : \A n \in new : ~Same(n, o, key)}

Role(row) ==
    CASE row.mandatory                                  -> "MANDATORY"
      [] ~row.mandatory /\ row.group = "FREE_ELECTIVE"  -> "FREE_ELECTIVE_OPTION"
      [] OTHER                                          -> "ELECTIVE_OPTION"

\* A status of the source that is none of the catalogue's, as that of a rule that the
\* institution alone vouches for, is not kept.
Status(row) ==
    IF row.status \in SourceStatuses \ {"VERIFIED_AT_INSTITUTION_LEVEL"} THEN row.status
    ELSE "INFERRED_PENDING_REVIEW"

\* A column that is labelled otherwise is taken for a prerequisite.
Purpose(row) == IF row.purpose = "COREQUISITE" THEN "COREQUISITE" ELSE "ENROLLMENT_PREREQUISITE"

\* A rule is verified only by a page of the archived source.
EnrollmentRow(row) ==
    [owner  |-> row.owner, code |-> Purpose(row), rule |-> row.rule,
     status |-> IF Status(row) = "VERIFIED" /\ row.evidence # "page" THEN "INFERRED_PENDING_REVIEW"
                ELSE Status(row),
     linked |-> row.evidence = "page"]

\* Evidence of a condition of graduation has to be linked by hand, every time.
GraduationRow(row) ==
    [owner  |-> None, code |-> row.id, rule |-> row.rule,
     status |-> IF Status(row) = "VERIFIED" /\ row.evidence = None THEN "INFERRED_PENDING_REVIEW"
                ELSE Status(row),
     linked |-> FALSE]

RequirementKey == {"owner", "code"}

\* The rows are written one after another: of two with one key the last one remains.
LastRows(rows) ==
    {rows[i] : i \in {j \in DOMAIN rows :
                         \A k \in DOMAIN rows : k > j => ~Same(rows[k], rows[j], RequirementKey)}}

Requirements(b) ==
    LET Enrollment(i) == EnrollmentRow(b.enrollment[i])
        Graduation(i) == GraduationRow(b.graduation[i])
    IN LastRows([i \in DOMAIN b.enrollment |-> Enrollment(i)])
       \cup LastRows([i \in DOMAIN b.graduation |-> Graduation(i)])

MembershipRow(b, m) == [course |-> m.course, from |-> b.from, group |-> m.group, role |-> Role(m)]

NewRevision ==
    [status |-> "DRAFT", from |-> 0, total |-> 0, payload |-> None, created |-> Cardinality(Imported),
     components |-> {}, groups |-> {}, memberships |-> {}, requirements |-> {}]

Written(b) ==
    LET old == IF Key(b) \in Imported THEN revisions[Key(b)] ELSE NewRevision
    IN [old EXCEPT
            !.from         = b.from,
            !.total        = b.total,
            !.payload      = b,
            !.components   = UpdateOrCreate(@, Required(b), {"id"}),
            !.groups       = UpdateOrCreate(@, b.groups, {"id"}),
            !.memberships  = UpdateOrCreate(@, {MembershipRow(b, m) : m \in b.memberships},
                                            {"course", "from", "group"}),
            !.requirements = UpdateOrCreate(@, Requirements(b), RequirementKey)]

-----------------------------------------------------------------------------
(* Importing a baseline.                                                   *)

\* The revision a version was imported for is part of it.
Version(b, c) == [credits |-> c.credits, source |-> b.revision]

\* Mutant: any version may be updated.
Unprotected(v) == FALSE

\* The version belongs to what students are following now.
Protected(v) ==
    \E r \in Imported : revisions[r].status = "PUBLISHED" /\
        \E m \in revisions[r].memberships : <<m.course, m.from>> = v

VersionsAllow(b) ==
    \A c \in b.courses : LET v == <<c.code, b.from>> IN
        v \in DOMAIN versions /\ versions[v] # Version(b, c) => ~Protected(v)

\* The latest other revision of the plan, whatever its status.
BaseOf(b) ==
    LET others == {r \in Imported : r[1] = b.plan /\ r # Key(b)}
        Later(r, s) == \/ revisions[r].from > revisions[s].from
                       \/ revisions[r].from = revisions[s].from /\ revisions[r].created > revisions[s].created
    IN IF others = {} THEN None
       ELSE CHOOSE r \in others : \A s \in others \ {r} : Later(r, s)

PayloadOf(r) == IF r = None THEN None ELSE revisions[r].payload

\* Candidates are added for what the diff shows now, and none is taken away.  One that
\* is there keeps what it says, though its row may have been drawn up against another
\* file since.
CandidatesAfter(b, diff) ==
    Over(IF b \in DOMAIN proposals THEN proposals[b].candidates ELSE <<>>,
         [item \in Items(diff) |-> diff[item[1]]])

\* A new proposal; or the one there is, whose diff is brought up to date while it is
\* a draft.  Its base remains.
ProposalAfterImport(b) ==
    LET base    == BaseOf(b)
        against == PayloadOf(base)
        diff    == SemanticDiff(against, b)
        kept    == IF b \in DOMAIN proposals THEN proposals[b]
                   ELSE [status |-> "DRAFT", base |-> base, diff |-> diff, against |-> against,
                         candidates |-> <<>>, open |-> FALSE]
        current == IF kept.status = "DRAFT" THEN [kept EXCEPT !.diff = diff, !.against = against] ELSE kept
        all     == CandidatesAfter(b, diff)
    IN [current EXCEPT !.candidates = all, !.open = @ \/ DOMAIN all # DOMAIN kept.candidates]

Parsable(b) == \A rule \in Rules(b) : Parsed(rule)

Import(b) ==
    /\ ValidBaseline(b) /\ Parsable(b) /\ VersionsAllow(b)
    /\ Key(b) \in Imported => revisions[Key(b)].status = "DRAFT"
    /\ revisions' = Put(Key(b), Written(b), revisions)
    /\ versions'  = Over([v \in VersionsOf(b) |-> Version(b, CHOOSE c \in b.courses : c.code = v[1])], versions)
    /\ proposals' = Put(b, ProposalAfterImport(b), proposals)
    /\ UNCHANGED archive

-----------------------------------------------------------------------------
(* Review and publication (governance/application/services.py).            *)

Candidate(b)    == revisions[Key(b)]
CanEdit(r)      == revisions[r].status \notin Kept
Open            == {"DRAFT", "IN_REVIEW", "APPROVED"}

Decided(b, proposal, revision) ==
    /\ proposals' = [proposals EXCEPT ![b].status = proposal]
    /\ revisions' = [revisions EXCEPT ![Key(b)].status = revision]
    /\ UNCHANGED <<archive, versions>>

Submit(b) ==
    /\ proposals[b].status \in {"DRAFT", "REJECTED"}
    /\ CanEdit(Key(b))
    /\ Decided(b, "IN_REVIEW", "IN_REVIEW")

\* The report is about the file that was imported last.  Of the rows it looks at one
\* thing: whether a verified requirement has no evidence.
Validation(b) ==
    /\ ValidBaseline(Candidate(b).payload)
    /\ \A q \in Candidate(b).requirements : q.status = "VERIFIED" => q.linked

InReview(b) ==
    /\ proposals[b].status \in {"IN_REVIEW", "APPROVED"}
    /\ Candidate(b).status \in Open

Approve(b) ==
    /\ InReview(b) /\ ~proposals[b].open /\ Validation(b)
    /\ Decided(b, "APPROVED", "APPROVED")

RequestChanges(b) == InReview(b) /\ Decided(b, "DRAFT", "DRAFT")
Reject(b)         == InReview(b) /\ Decided(b, "REJECTED", "DRAFT")

\* Candidates are decided, the last one pending too, or put back.
ReviewCandidates(b, open) ==
    /\ DOMAIN proposals[b].candidates # {} /\ CanEdit(Key(b))
    /\ proposals' = [proposals EXCEPT ![b].open = open]
    /\ UNCHANGED <<archive, revisions, versions>>

\* An editor sets the evidence of a requirement, to something or to nothing.
LinkEvidence(r, q, linked) ==
    /\ CanEdit(r) /\ q \in revisions[r].requirements /\ q.linked # linked
    /\ revisions' = [revisions EXCEPT ![r].requirements = (@ \ {q}) \cup {[q EXCEPT !.linked = linked]}]
    /\ UNCHANGED <<archive, versions, proposals>>

PublishedOf(plan) == {r \in Imported : r[1] = plan /\ revisions[r].status = "PUBLISHED"}

\* The published revision of the plan is superseded; it must be the proposal's base.
Publish(b) ==
    /\ proposals[b].status = "APPROVED" /\ ~proposals[b].open
    /\ Candidate(b).status \in Open /\ Validation(b)
    /\ PublishedOf(b.plan) \subseteq {proposals[b].base}
    /\ revisions' = [r \in Imported |->
                        CASE r = Key(b)                -> [revisions[r] EXCEPT !.status = "PUBLISHED"]
                          [] r \in PublishedOf(b.plan) -> [revisions[r] EXCEPT !.status = "SUPERSEDED"]
                          [] OTHER                     -> revisions[r]]
    /\ proposals' = [proposals EXCEPT ![b].status = "APPLIED"]
    /\ UNCHANGED <<archive, versions>>

Retire(r) ==
    /\ revisions[r].status \in {"PUBLISHED", "SUPERSEDED"}
    /\ revisions' = [revisions EXCEPT ![r].status = "RETIRED"]
    /\ UNCHANGED <<archive, versions, proposals>>

NextCatalogue ==
    \/ \E b \in archive.baselines : Import(b)
    \/ \E b \in DOMAIN proposals :
          \/ Submit(b) \/ Approve(b) \/ RequestChanges(b) \/ Reject(b) \/ Publish(b)
          \/ \E open \in BOOLEAN : ReviewCandidates(b, open)
    \/ \E r \in Imported :
          \/ Retire(r)
          \/ \E q \in revisions[r].requirements, linked \in BOOLEAN : LinkEvidence(r, q, linked)

-----------------------------------------------------------------------------
(* What the audit reads of a revision (build_revision_snapshot).           *)

\* The credits of a course are those of the version its membership names.
Snapshot(r) ==
    LET w == revisions[r]
    IN [total        |-> w.total,
        components   |-> w.components,
        groups       |-> w.groups,
        memberships  |-> {[course |-> m.course, group |-> m.group, role |-> m.role] : m \in w.memberships},
        credits      |-> {<<m.course, versions[<<m.course, m.from>>].credits>> : m \in w.memberships},
        requirements |-> w.requirements]

\* The audit refuses a revision whose credits do not add up.
Auditable(s) ==
    /\ Credits(s.components) = s.total
    /\ {g.component : g \in s.groups} \subseteq {k.id : k \in s.components}

-----------------------------------------------------------------------------
(* Properties.                                                             *)

Published(r) == r \in Imported /\ revisions[r].status = "PUBLISHED"

\* What the audit reads of a published revision never changes while students follow
\* it, whatever is imported into other revisions and plans that share its courses.
PublishedCatalogueStands ==
    [][\A r \in Keys : Published(r) /\ Published(r)' => Snapshot(r)' = Snapshot(r)]_catalogue

\* The rows of a revision are those of its last file alone, and no other file has
\* written over the versions they share.
Intact(r) ==
    LET w == revisions[r]
        b == w.payload
    IN /\ {k.id : k \in w.components} = KeysOf(b, "components")
       /\ {g.id : g \in w.groups} = KeysOf(b, "groups")
       /\ {<<m.course, m.from, m.group>> : m \in w.memberships} = {<<m.course, b.from, m.group>> : m \in b.memberships}
       /\ {<<q.owner, q.code>> : q \in w.requirements} = {<<q.owner, q.code>> : q \in Requirements(b)}
       /\ \A v \in VersionsOf(b) : versions[v].source = b.revision
       /\ \A s \in Imported \ {r} : s[2] # r[2]

\* The requirements of a course, or of graduation, that the audit evaluates.
Asked(s, owner) ==
    {q.rule : q \in {p \in s.requirements : p.owner = owner /\ p.status \notin {"UNKNOWN", "DISPUTED", "SUPERSEDED"}}}

\* Of a revision that is intact the audit reads what the file says: its credits add
\* up, its courses count where the file has them, mandatory ones as such, and no rule
\* is asked, or called verified, that the file does not state so, or that the engine
\* could not evaluate.
RowsReadBack ==
    \A r \in Imported : Intact(r) =>
        LET s == Snapshot(r)
            b == revisions[r].payload
        IN /\ Auditable(s)
           /\ \A k \in b.components :
                 Credits({g \in s.groups : g.component = k.id}) = k.required
           /\ \A g \in KeysOf(b, "groups") :
                 {m.course : m \in {n \in s.memberships : n.group = g /\ n.role = "MANDATORY"}}
                    = {m.course : m \in {n \in b.memberships : n.group = g /\ n.mandatory}}
           /\ s.credits \subseteq {<<c.code, c.credits>> : c \in b.courses}
           /\ \A c \in KeysOf(b, "courses") :
                 LET rows == {q \in ToSet(b.enrollment) : q.owner = c}
                 IN /\ Asked(s, c) \subseteq {q.rule : q \in rows}
                    /\ Cardinality(rows) = 1 /\ (\A q \in rows : q.status \in {"VERIFIED", "DERIVED"}) =>
                          Asked(s, c) = {q.rule : q \in rows}
           /\ \A q \in s.requirements : Parsed(q.rule) /\ Answerable(q.rule, Has(b))
           /\ \A q \in s.requirements : q.status = "VERIFIED" =>
                 \E p \in ToSet(b.enrollment) \cup ToSet(b.graduation) :
                    p.rule = q.rule /\ p.status = "VERIFIED" /\ p.evidence # None

\* What counts of a file: of the rows of a list that have one key, the last.
Counted(b, entity) ==
    LET LastOf(rows) == {rows[i] : i \in {j \in DOMAIN rows :
                            \A k \in DOMAIN rows : k > j => KeyOf(entity, rows[k]) # KeyOf(entity, rows[j])}}
    IN CASE b = None                              -> {}
         [] b # None /\ entity \in Listed         -> {Content(row) : row \in LastOf(b[entity])}
         [] b # None /\ entity \notin Listed      -> Contents(b, entity)

\* The file that a diff of b may be drawn up against: none, or that of another revision.
Bases(b) == {None} \cup {f \in archive.baselines : f.plan = b.plan /\ Key(f) # Key(b)}

\* The diff put before the reviewers is exact: applied to the file it was drawn up
\* against it gives the file under review, whatever was imported in between; each of
\* its rows is a candidate for them to decide; and each candidate, those of earlier
\* imports too, says what the file under review has for its row, and what the file of
\* some other revision has: that one need not be the one of the diff any more.
DiffsAreExact ==
    \A b \in DOMAIN proposals :
        LET p == proposals[b]
            Of(e) == {p.diff[row] : row \in {r \in DOMAIN p.diff : r[1] = e}}
            Applied(e) == (Counted(p.against, e) \ {d.before : d \in Of(e)}) \cup ({d.after : d \in Of(e)} \ {None})
        IN /\ \A e \in Entities : Applied(e) = Counted(b, e)
           /\ Items(p.diff) \subseteq DOMAIN p.candidates
           /\ \A item \in DOMAIN p.candidates :
                 LET candidate == p.candidates[item]
                 IN /\ \E base \in Bases(b) : candidate = Change(base, b, item[1])
                    /\ candidate.before # candidate.after /\ item[2] = Operation(item[1][1], candidate)

\* ADR-0020: validation keeps a revision with cycles or inconsistent totals from
\* being published.
PublishedIsSound ==
    \A r \in Imported : Published(r) =>
        LET s      == Snapshot(r)
            asked  == {q \in s.requirements : q.owner # None /\ q.rule \in Asked(s, q.owner)}
            owners == {q.owner : q \in asked}
            graph  == Dependencies(owners, asked)
        IN Auditable(s) /\ ~Cyclic([c \in owners |-> graph[c] \cap owners])
=============================================================================
