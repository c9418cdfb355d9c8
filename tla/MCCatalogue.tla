---------------------------- MODULE MCCatalogue -----------------------------
(* Small archives: a revision and its corrections, its successor, and another *)
(* plan that shares a course.  Each archive has two to four baselines, or one *)
(* or two small ones and what is offered of their course in a term.           *)
EXTENDS Offerings

\* The rules are parsed, and never asked.
INSTANCE BaselineRules WITH AuditRule <- {}, Nesting <- <<>>

Component(id, mandatory, elective) ==
    [id |-> id, required |-> mandatory + elective, mandatory |-> mandatory, elective |-> elective]
Group(id, component, required) == [id |-> id, component |-> component, required |-> required]
Course(code, credits) == [code |-> code, credits |-> credits]
Member(course, group, mandatory) == [course |-> course, group |-> group, mandatory |-> mandatory, status |-> "VERIFIED"]
Enrollment(owner, purpose, status, evidence, rule) ==
    [owner |-> owner, purpose |-> purpose, status |-> status, evidence |-> evidence, rule |-> rule]
Graduation(id, status, evidence, url, rule) ==
    [id |-> id, status |-> status, evidence |-> evidence, url |-> url, rule |-> rule]

Passing(c) == [kind |-> "COURSE_PASSED", course |-> c]
Total(n)   == [kind |-> "TOTAL_CREDITS", operator |-> ">=", value |-> n]
All(rules) == [kind |-> "ALL", children |-> rules]

\* The revision of date 1: two courses, the second after the first, and an elective.
First ==
    [plan |-> "P", revision |-> "R1", from |-> 1, total |-> 6,
     components  |-> {Component("K1", 4, 0), Component("K2", 0, 2)},
     groups      |-> {Group("G1", "K1", 4), Group("FREE_ELECTIVE", "K2", 2)},
     courses     |-> {Course(1, 2), Course(2, 2), Course(3, None)},
     memberships |-> {Member(1, "G1", TRUE), Member(2, "G1", TRUE), Member(3, "FREE_ELECTIVE", FALSE)},
     enrollment  |-> <<Enrollment(2, "PREREQUISITE", "VERIFIED", "page", Passing(1))>>,
     graduation  |-> <<Graduation("thesis", "DERIVED", None, TRUE, Total(6))>>,
     ambiguities |-> <<[course |-> 3, issue |-> "credits", status |-> "UNKNOWN"]>>]

\* Corrected: without the electives, the courses the other way round, a rule of which
\* only the institution knows, and one whose column is labelled otherwise.
Corrected ==
    [First EXCEPT
        !.total       = 4,
        !.components  = {Component("K1", 2, 2)},
        !.groups      = {Group("G1", "K1", 4)},
        !.courses     = {Course(1, 2), Course(2, 3)},
        !.memberships = {Member(1, "G1", FALSE), Member(2, "G1", TRUE)},
        !.enrollment  = <<Enrollment(1, "PREREQUISITE", "VERIFIED", "mapping", All(<<Passing(2), Total(2)>>)),
                          Enrollment(2, "DEPENDENCY_TYPE_UNKNOWN", "VERIFIED_AT_INSTITUTION_LEVEL", "page",
                                     [kind |-> "UNKNOWN"])>>,
        !.graduation  = <<Graduation("thesis", "VERIFIED", "page", FALSE, Total(4))>>]

\* What the file says of its courses has changed, and it says two things of its
\* condition of graduation, and of what is not known.
Retouched == [First EXCEPT !.courses = {Course(1, 3), Course(2, 2), Course(3, 1)},
                           !.memberships = {Member(1, "G1", TRUE), Member(2, "G1", FALSE),
                                            Member(3, "FREE_ELECTIVE", FALSE)},
                           !.enrollment = <<Enrollment(2, "PREREQUISITE", "VERIFIED", "page", Passing(1)),
                                            Enrollment(2, "COREQUISITE", "UNKNOWN", None, Passing(3))>>,
                           !.graduation = @ \o <<Graduation("thesis", "UNKNOWN", None, FALSE, Total(4))>>,
                           !.ambiguities = @ \o <<[course |-> 3, issue |-> "credits", status |-> "DISPUTED"]>>]

\* The successor, of a later date; one of the same date; and another plan's.
Later    == [Corrected EXCEPT !.revision = "R2", !.from = 2]
SameDate == [Retouched EXCEPT !.revision = "R3", !.enrollment = <<>>]
Sibling  == [Corrected EXCEPT !.plan = "Q", !.revision = "S1", !.enrollment = <<>>, !.graduation = <<>>]

\* Files that are refused: for a cycle, for credits that do not add up, for a rule that
\* passes validation and does not parse.
Circular == [First EXCEPT !.enrollment = <<Enrollment(2, "PREREQUISITE", "VERIFIED", "page", Passing(1)),
                                           Enrollment(1, "COREQUISITE", "DERIVED", None, All(<<Passing(2)>>))>>]
Overfull == [First EXCEPT !.groups = {Group("G1", "K1", 4), Group("FREE_ELECTIVE", "K2", 3)}]
Unparsed == [First EXCEPT !.graduation = <<Graduation("thesis", "UNKNOWN", None, FALSE,
                                                      [kind |-> "CREDITS_IN_GROUP", group |-> "G1"])>>]

\* A revision of one course; with another date, so that what its successor changes may
\* be told of the one and asked of the other; and the successor.
Plain ==
    [plan |-> "P", revision |-> "R1", from |-> 1, total |-> 2,
     components  |-> {Component("K1", 2, 0)},
     groups      |-> {Group("G1", "K1", 2)},
     courses     |-> {Course(1, 2)},
     memberships |-> {Member(1, "G1", TRUE)},
     enrollment  |-> <<>>, graduation |-> <<>>, ambiguities |-> <<>>]
Redated    == [Plain EXCEPT !.from = 3]
PlainLater == [Plain EXCEPT !.revision = "R2", !.from = 2]

\* A term, offered and then cancelled, with another group and other dates.
Meeting(day) == [day |-> day, starts |-> 8, ends |-> 10]
Section(capacity, enrolled, meetings) == [capacity |-> capacity, enrolled |-> enrolled, meetings |-> meetings]
Term ==
    [source |-> "SIA", term |-> "T1", starts |-> 2, ends |-> 3,
     offers |-> 1 :> [status |-> "PUBLISHED", sections |-> "A" :> Section(2, 1, {Meeting(1)})]]
Cancelled ==
    [Term EXCEPT !.starts = 1,
        !.offers = 1 :> [status |-> "CANCELLED",
                         sections |-> "A" :> Section(None, None, {Meeting(2)}) @@ "B" :> Section(2, None, {})]]
Silent     == [Term EXCEPT !.source = "Mirror", !.offers = 1 :> [status |-> None, sections |-> <<>>]]
Overcrowded == [Term EXCEPT !.offers = 1 :> [status |-> None, sections |-> "A" :> Section(2, 3, {})]]

\* What administrators make of the term: other dates, and another code and campus.
Edit(code, campus, starts, ends) == [code |-> code, campus |-> campus, starts |-> starts, ends |-> ends]

\* Two of the histories see the turn of a year.
Day    == <<2026>>
Days   == <<2026, 2026>>
Winter == <<2025, 2025, 2026>>

SmallArchives ==
    {[baselines |-> files, offers |-> {}, edits |-> {}, calendar |-> Day] :
        files \in {{First, Corrected}, {First, Retouched, Circular}, {First, Overfull, Unparsed, Later},
                   {First, SameDate}, {First, Sibling}, {Plain, Redated, PlainLater}}}
    \cup {[baselines |-> {Plain}, offers |-> {Term, Cancelled, Overcrowded}, edits |-> {}, calendar |-> Winter],
          [baselines |-> {Plain}, offers |-> {Cancelled, Silent}, edits |-> {}, calendar |-> Days],
          [baselines |-> {Plain}, offers |-> {Cancelled},
           edits |-> {Edit("T1", None, 2, 3), Edit("T2", "Bogota", 1, 3)}, calendar |-> Winter],
          [baselines |-> {Plain, PlainLater}, offers |-> {Term}, edits |-> {}, calendar |-> Days]}
=============================================================================
