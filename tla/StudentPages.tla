---------------------------- MODULE StudentPages -----------------------------
(***************************************************************************)
(* What students and the institution are shown of a record (the overview   *)
(* and the analytics), compared in every state with what the planner and   *)
(* the audit would answer.                                                 *)
(***************************************************************************)
EXTENDS StudentRecord, Analytics

ASSUME NoneAssumption == None \notin Nat /\ None \notin Records

IsRecord(s) == s \in Records /\ IsFiniteSet(s.attempts)

\* What the columns of an enrollment and its last audit allow.
IsEnrollment(e) ==
    /\ IsRevision(e.revision) /\ e.published \in BOOLEAN
    /\ IsRecord(e.student) /\ (e.audited = None \/ IsRecord(e.audited))
    /\ e.admission \in Nat /\ e.taken \subseteq Nat /\ IsFiniteSet(e.taken)

ASSUME ClassmatesAssumption ==
    \A s \in {t \in Studies : t.classmates # None} :
        /\ s.classmates \in Seq(ToSet(s.classmates))
        /\ \A e \in ToSet(s.classmates) : IsEnrollment(e)

-----------------------------------------------------------------------------
(* Properties.                                                             *)

\* The page and the planner judge the courses ahead alike.  A course the page calls
\* eligible may be planned in any term, beside whatever is planned already; one it
\* calls blocked is unsatisfied there as long as nothing is planned or in progress
\* that could open it.  For a student without recognitions, which neither reads, and
\* rules about other courses.
PlannerAgrees(c, rules, state, answer) ==
    (\A rule \in rules : AboutCoursesOnly(rule) /\ ~Names(rule, c)) =>
       /\ answer = "ELIGIBLE" /\ (\A rule \in rules : WithoutNot(rule)) => state # "UNSATISFIED"
       /\ answer = "BLOCKED" /\ plan = {} /\ InProgress(student) = {} => state = "UNSATISFIED"

AgreesWithPlanner ==
    Recognized(student) = {} =>
        \A c \in Courses, t \in DOMAIN study.calendar :
            LET item == [course |-> c, term |-> t, credits |-> revision.credits[c], meetings |-> {}]
            IN PlannerAgrees(c, {r.rule : r \in Requirements(c)},
                             PrerequisiteState(item, [d \in Courses |-> Requirements(d)],
                                               plan \cup {item}, History, revision.total),
                             Eligibility(revision, student, c))

\* The page names what a verdict hangs on: nothing that graduation needs is left when
\* it is not UNSATISFIED, something is when it is, and a page that calls itself
\* complete has a verdict.  A group that is finished misses no course.  The courses it
\* calls blocked are those that the audit lists as not unlocked.
VerdictAgrees(page, left, facts) ==
    /\ page.verdict = "UNSATISFIED" => left # {}
    /\ page.verdict # "UNSATISFIED" => \A g \in Groups \ student.waived.groups : <<"group", g>> \notin left
    /\ page.verdict = "SATISFIED" =>
          \A r \in revision.requirements : <<"requirement", r>> \in left =>
              r.owner # None \/ RequirementStatus(r, facts) = "NOT_APPLICABLE"
    /\ page.state = "READY" => page.verdict # "UNKNOWN"
    /\ \A g \in Groups \ student.waived.groups :
          page.groups[g].status = "SATISFIED" <=> <<"group", g>> \notin left
    /\ \A c \in DOMAIN page.options \ (Recognized(student) \cup InProgress(student)) :
          page.options[c].eligibility = "BLOCKED" <=> [course |-> c, status |-> "UNSATISFIED"] \in page.unlocks

AgreesWithVerdict ==
    VerdictAgrees(Overview(revision, student), RemainingRequirements(revision, student), Facts(revision, student))

\* The student among classmates whose records do not change.
Class(audited) ==
    Append(study.classmates,
           [revision |-> revision, published |-> TRUE, status |-> "ACTIVE", student |-> student,
            audited |-> audited, admission |-> 1, taken |-> {},
            scenarios |-> {[active |-> TRUE, items |-> {[course |-> i.course, term |-> i.term] : i \in plan}]}])

\* The students whose page gives one of the answers for the course.
Showing(class, c, answers) ==
    Cardinality({i \in DOMAIN class : /\ class[i].published /\ class[i].audited # None
                                      /\ Eligibility(class[i].revision, class[i].student, c) \in answers})

\* Nobody's audit is old, except of students who passed the course meanwhile.
Fresh(class, c) ==
    \A i \in DOMAIN class : class[i].audited \in {None, class[i].student} \/ c \in Selected(class[i].student)

\* Students counted as able to take a course have not passed it, however old their
\* audit; with fresh audits their page calls it eligible, or in progress, and none of
\* those is forgotten.
CountsWhoCould(class, c, counted, minimum) ==
    /\ counted <= Cardinality({i \in DOMAIN class : c \notin Selected(class[i].student)})
    /\ Fresh(class, c) /\ counted # 0 =>
          /\ Showing(class, c, {"ELIGIBLE"}) <= counted
          /\ counted <= Showing(class, c, {"ELIGIBLE", "IN_PROGRESS"})
    /\ Fresh(class, c) /\ counted = 0 => Showing(class, c, {"ELIGIBLE"}) < minimum

\* Who plans or could take a course is counted once.
CountsOnce(d) ==
    IF d.potential = None THEN d.planned = None /\ d.eligible = None
    ELSE /\ d.potential >= Max({Known(d.planned), Known(d.eligible)})
         /\ None \notin {d.planned, d.eligible} => d.potential <= d.planned + d.eligible

\* A time to the degree has at least the terms the student was there in and at most
\* those of the calendar.
CountsTerms(e, duration) ==
    duration # None => /\ duration >= Cardinality({e.admission} \cup {t \in e.taken : t >= e.admission})
                       /\ duration <= Max(e.taken) - e.admission + 1

\* Each student audited is in one bucket of progress.
ReportAgrees(class, term, minimum, report) ==
    report # None =>
       /\ \A c \in Courses :
             CountsWhoCould(class, c,
                            IF <<term, c>> \in DOMAIN report.demand THEN Known(report.demand[<<term, c>>].eligible)
                            ELSE 0,
                            minimum)
       /\ \A key \in DOMAIN report.demand : CountsOnce(report.demand[key])
       /\ LET hidden == {b \in Buckets : report.distribution[b] = None}
              shown  == MapThenSumSet(LAMBDA b : report.distribution[b], Buckets \ hidden)
          IN report.audited - shown \in 0..(Cardinality(hidden) * (minimum - 1))
       /\ \A i \in Enrolled(class) : class[i].status = "COMPLETED" =>
             CountsTerms(class[i], Duration(class, {j \in Enrolled(class) : class[j].status = "COMPLETED"}, i))

\* The numbers of analytics are those that the page of each student adds up to,
\* whatever is suppressed.
AgreesWithAnalytics ==
    study.classmates # None =>
        \A audited \in {NewStudent, student}, term \in {None} \cup DOMAIN study.calendar :
            \A class \in {Class(audited)}, minimum \in {MinimumCell(1, None)} :
                ReportAgrees(class, term, minimum,
                             InstitutionReport(class, Snapshots(class), term, minimum))

\* The credits of the groups add up to those of the plan, as in every file that is imported.
AddsUp(r) == r.total > 0 /\ r.total = MapThenSumSet(LAMBDA g : r.groups[g].required, Groups)

\* A student's own page names what the audit lists as left to do, and shows all credits
\* as applied only if no group needs more.
PageAgrees(page, left, facts) ==
    /\ page.lagging = {r \in revision.requirements :
                          <<"requirement", r>> \in left /\ RequirementStatus(r, facts) # "NOT_APPLICABLE"}
    /\ AddsUp(revision) =>
          /\ page.percent = 100 <=> page.remaining = 0
          /\ page.remaining = 0 <=> \A g \in Groups : facts.group[g] >= revision.groups[g].required
    /\ \A c \in Courses : c \in DOMAIN page.critical => Eligibility(revision, student, c) # "ELIGIBLE"

AgreesWithAudit ==
    study.classmates # None =>
        PageAgrees(StudentPage(Class(student)[Len(study.classmates) + 1]),
                   RemainingRequirements(revision, student), Facts(revision, student))

\* What students and the institution are shown is what the planner and the audit
\* would answer.
PagesTellTheTruth ==
    AgreesWithPlanner /\ AgreesWithVerdict /\ AgreesWithAnalytics /\ AgreesWithAudit
=============================================================================
