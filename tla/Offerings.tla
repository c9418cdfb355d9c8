----------------------------- MODULE Offerings ------------------------------
(***************************************************************************)
(* What is offered in a term (modules/offerings): files of offers are      *)
(* imported over the catalogue, each in one transaction; administrators    *)
(* set terms by hand; and students of a published revision are told        *)
(* whether a course is offered.                                            *)
(*                                                                         *)
(* A file is a record:                                                     *)
(*    source              the key of the system it was exported from       *)
(*    term, starts, ends  the term; its dates are those of the catalogue   *)
(*    offers              by course: [status, sections], the status a      *)
(*                        value or None if the file has none; sections by  *)
(*                        group: [capacity, enrolled, meetings], a meeting *)
(*                        a record [day, starts, ends]                     *)
(* Modalities, places and names are left out.                              *)
(***************************************************************************)
EXTENDS Catalogue

CONSTANTS
    Campuses,      \* a file may be imported for one of them
    MaxAge         \* how old a capture may be to count as fresh

ASSUME AgeAssumption == MaxAge \in Nat

\* Dates are numbers, and time has an end; None is no status and no snapshot of a file.
ASSUME OfferAssumption ==
    /\ None # "CANCELLED"
    /\ \A a \in Archives :
          /\ a.calendar \in Seq(Nat) \ {<<>>}
          /\ \A o \in a.offers : o.starts \in Nat /\ \A at \in DOMAIN a.calendar : <<o, a.calendar[at]>> # None

VARIABLES
    terms,         \* AcademicTerm by code, those there are: [campus, starts, ends,
                   \* source], and, for the properties, the codes each has had
    captured,      \* SourceSnapshot by file and calendar year: when it was captured
    offered,       \* CourseOffering with its sections, by course version and term
    referenced,    \* the terms that admissions refer to
    now            \* an instant of the calendar, which has its year

offerings == <<terms, captured, offered, referenced, now>>

InitOfferings ==
    /\ terms = <<>> /\ captured = <<>> /\ offered = <<>>
    /\ referenced = {}
    /\ now        = 1

OfferingStatuses == {"PLANNED", "PUBLISHED", "CANCELLED", "COMPLETED"}

-----------------------------------------------------------------------------
(* Importing a file.                                                       *)

Versions(c, date) == {v \in DOMAIN versions : v[1] = c /\ v[2] <= date}

\* Mutant: the first version of a course, when the term has none of its own.
FirstVersion(c, date) == CHOOSE v \in Versions(c, date) : \A w \in Versions(c, date) : v[2] <= w[2]

\* The version of a course at the beginning of a term is the latest one, whichever
\* revision it was imported for.
VersionAt(c, date) == CHOOSE v \in Versions(c, date) : \A w \in Versions(c, date) : v[2] >= w[2]

Meetings(offer)   == UNION {offer.sections[g].meetings : g \in DOMAIN offer.sections}
Overbooked(s)     == None \notin {s.capacity, s.enrolled} /\ s.enrolled > s.capacity
Acceptable(offer) ==
    /\ offer.status \in OfferingStatuses \cup {None}
    /\ \A g \in DOMAIN offer.sections : ~Overbooked(offer.sections[g])
    /\ \A m \in Meetings(offer) : m.day \in 0..6 /\ m.starts < m.ends

\* One course or section that is refused rolls back all of the file.
Readable(o) ==
    /\ o.starts < o.ends
    /\ \A c \in DOMAIN o.offers : Versions(c, o.starts) # {} /\ Acceptable(o.offers[c])

\* The document of a source is that of a year, and a snapshot is one of its document:
\* a file that is imported again in another year is another capture.
Capture(o, at) == <<o, archive.calendar[at]>>

\* A term keeps its campus if the import names none.
TermOf(o, campus, at) ==
    LET known == o.term \in DOMAIN terms
    IN [campus |-> IF known /\ campus = None THEN terms[o.term].campus ELSE campus,
        starts |-> o.starts, ends |-> o.ends, source |-> Capture(o, at),
        codes  |-> IF known THEN terms[o.term].codes ELSE {o.term}]

Scope(w) == [campus |-> w.campus, starts |-> w.starts, ends |-> w.ends]

\* A term that is referenced takes no other campus or dates, and keeps its source.
TermAllows(o, campus, at) ==
    o.term \in referenced => Scope(TermOf(o, campus, at)) = Scope(terms[o.term])

TermAfter(o, campus, at) ==
    IF o.term \in referenced THEN terms[o.term] ELSE TermOf(o, campus, at)

\* Mutant: meetings are added to those there are.
MeetingsAdded(old, new) ==
    Over([g \in DOMAIN new |-> IF g \notin DOMAIN old THEN new[g]
                               ELSE [new[g] EXCEPT !.meetings = @ \cup old[g].meetings]], old)

\* Sections of the file are written over, with all their meetings; others remain.
SectionsAfter(old, new) == Over(new, old)

OfferAfter(o, c, at) ==
    LET place == <<VersionAt(c, o.starts), o.term>>
        offer == o.offers[c]
        old   == IF place \in DOMAIN offered THEN offered[place] ELSE [status |-> "PUBLISHED", sections |-> <<>>]
    IN [status   |-> IF offer.status = None THEN old.status ELSE offer.status,
        source   |-> Capture(o, at),
        sections |-> SectionsAfter(old.sections, offer.sections)]

\* The same file imported again in the year is the capture it was: it does not become
\* newer.
ImportOffers(o, campus, at) ==
    /\ Readable(o) /\ TermAllows(o, campus, at)
    /\ captured' = IF Capture(o, at) \in DOMAIN captured THEN captured ELSE Put(Capture(o, at), at, captured)
    /\ terms'    = Put(o.term, TermAfter(o, campus, at), terms)
    /\ offered'  = Over([place \in {<<VersionAt(c, o.starts), o.term>> : c \in DOMAIN o.offers} |->
                            OfferAfter(o, place[1][1], at)], offered)
    /\ UNCHANGED <<referenced, now>>

-----------------------------------------------------------------------------
(* Terms (api.py), and time.                                               *)

InUse(t) == t \in referenced \/ \E place \in DOMAIN offered : place[2] = t

\* What an administrator makes of a term: its source is any snapshot there is, or none.
TermSet(edit, source, codes) ==
    [campus |-> edit.campus, starts |-> edit.starts, ends |-> edit.ends, source |-> source,
     codes  |-> codes \cup {edit.code}]

CreateTerm(edit, source) ==
    /\ edit.code \notin DOMAIN terms /\ edit.starts < edit.ends
    /\ terms' = Put(edit.code, TermSet(edit, source, {}), terms)
    /\ UNCHANGED <<captured, offered, referenced, now>>

\* What names a term by its row, as its offers do, follows it to another code.
Renamed(old, t, code) ==
    [place \in {<<p[1], IF p[2] = t THEN code ELSE p[2]>> : p \in DOMAIN old} |->
        old[<<place[1], IF place[2] = code THEN t ELSE place[2]>>]]

\* Its offers are not asked: the source of the term, its dates and even its code may
\* come to differ from theirs.
PatchTerm(t, edit, source) ==
    /\ t \notin referenced /\ edit.code \notin DOMAIN terms \ {t} /\ edit.starts < edit.ends
    /\ terms'   = Put(edit.code, TermSet(edit, source, terms[t].codes), [u \in DOMAIN terms \ {t} |-> terms[u]])
    /\ offered' = Renamed(offered, t, edit.code)
    /\ UNCHANGED <<captured, referenced, now>>

DeleteTerm(t) ==
    /\ ~InUse(t)
    /\ terms' = [u \in DOMAIN terms \ {t} |-> terms[u]]
    /\ UNCHANGED <<captured, offered, referenced, now>>

ReferenceTerm(t) ==
    /\ t \notin referenced
    /\ referenced' = referenced \cup {t}
    /\ UNCHANGED <<terms, captured, offered, now>>

\* Time is told once something was captured.
Tick ==
    /\ now < Len(archive.calendar) /\ captured # <<>>
    /\ now' = now + 1
    /\ UNCHANGED <<terms, captured, offered, referenced>>

NextOfferings ==
    \/ \E o \in archive.offers, campus \in Campuses \cup {None}, at \in 1..now : ImportOffers(o, campus, at)
    \/ \E edit \in archive.edits, source \in DOMAIN captured \cup {None} :
          \/ CreateTerm(edit, source)
          \/ \E t \in DOMAIN terms : PatchTerm(t, edit, source)
    \/ \E t \in DOMAIN terms : DeleteTerm(t) \/ ReferenceTerm(t)
    \/ Tick

Init == InitCatalogue /\ InitOfferings

Next == \/ NextCatalogue /\ UNCHANGED offerings
        \/ NextOfferings /\ UNCHANGED catalogue

Spec == Init /\ [][Next]_<<catalogue, offerings>>

-----------------------------------------------------------------------------
(* What students are told.                                                 *)

Freshness(source) ==
    CASE source = None -> "UNKNOWN"
      [] source # None /\ now - captured[source] <= MaxAge -> "FRESH"
      [] OTHER -> "STALE"

\* The source of an offer is that of its term if it has none itself.
ShownSource(place) == IF offered[place].source # None THEN offered[place].source ELSE terms[place[2]].source

OfferingState(place) ==
    CASE place \notin DOMAIN offered -> "UNKNOWN"
      [] place \in DOMAIN offered /\ offered[place].status = "CANCELLED" -> "NOT_OFFERED"
      [] OTHER -> IF ShownSource(place) = None THEN "UNKNOWN" ELSE "OFFERED"

\* The version that a revision's students plan: of those at the beginning of the
\* first term there is, or else of all, the latest.
VersionPlanned(r, c) ==
    LET dates == {m.from : m \in {n \in revisions[r].memberships : n.course = c}}
        known == {terms[t].starts : t \in DOMAIN terms}
        valid == {d \in dates : known # {} /\ d <= Min(known)}
    IN <<c, Max(IF valid = {} THEN dates ELSE valid)>>

\* The map of the curriculum shows a course by its latest version, whichever revision
\* it is from, and the offers of a term by their status alone.
MapVersion(c) ==
    LET known == {v \in DOMAIN versions : v[1] = c}
    IN CHOOSE v \in known : \A w \in known : v[2] >= w[2]

MapOffer(c, t) ==
    LET place == <<MapVersion(c), t>>
    IN CASE t \notin DOMAIN terms                               -> "UNKNOWN"
         [] t \in DOMAIN terms /\ place \notin DOMAIN offered -> "NOT_REPORTED"
         [] OTHER -> IF offered[place].status = "CANCELLED" THEN "NOT_AVAILABLE" ELSE "AVAILABLE"

-----------------------------------------------------------------------------
(* Properties.                                                             *)

\* Both pages tell the same of a course, as long as no later version was imported.
MapAgrees(c, v, t, state) ==
    MapVersion(c) = v => /\ MapOffer(c, t) = "AVAILABLE" <=> state = "OFFERED"
                         /\ MapOffer(c, t) = "NOT_AVAILABLE" <=> state = "NOT_OFFERED"

Told(r, c, o) ==
    LET v     == VersionPlanned(r, c)
        state == OfferingState(<<v, o.term>>)
    IN v \in Versions(c, o.starts) /\ (\A w \in Versions(c, o.starts) : w[2] <= v[2]) =>
       /\ MapAgrees(c, v, o.term, state)
       /\ CASE o.offers[c].status = None        -> state # "UNKNOWN"
            [] o.offers[c].status = "CANCELLED" -> state = "NOT_OFFERED"
            [] OTHER                            -> state = "OFFERED"

\* The students of a published revision are told at once what a file says of their
\* courses: unless another file of the catalogue, a mere draft perhaps, has a later
\* version of the course at the beginning of the term.
OffersReachStudents ==
    [][\A o \in archive.offers, r \in Keys :
          (\E campus \in Campuses \cup {None}, at \in 1..now : ImportOffers(o, campus, at)) /\ Published(r) =>
             \A c \in DOMAIN o.offers \cap {m.course : m \in revisions[r].memberships} : Told(r, c, o)']_<<catalogue, offerings>>

\* An offer is what its source says, for a version of a course it says it of, and so
\* are the sections that the source names, whatever is imported again, out of order or
\* in another year; its term is the one the source speaks of, under that code or one
\* an administrator gave it since; and the age it is shown with is that of its source.
OffersTellTheirSource ==
    \A place \in DOMAIN offered :
        LET offer == offered[place]
            o     == offer.source[1]
            said  == o.offers[place[1][1]]
        IN /\ place[1][1] \in DOMAIN o.offers /\ place[1][2] <= o.starts
           /\ place[2] \in DOMAIN terms /\ o.term \in terms[place[2]].codes
           /\ said.status \in {None, offer.status}
           /\ \A g \in DOMAIN said.sections : offer.sections[g] = said.sections[g]
           /\ ShownSource(place) = offer.source /\ offer.source \in DOMAIN captured
=============================================================================
