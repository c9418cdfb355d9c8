----------------------------- MODULE Analytics ------------------------------
(***************************************************************************)
(* What students and the institution are told in numbers                   *)
(* (modules/analytics).  Everything is computed from the last audit that   *)
(* was stored for an enrollment, never from a new one; what a student has  *)
(* passed, planned and when is read as it is now.                          *)
(*                                                                         *)
(* An enrollment is a record:                                              *)
(*    revision, published   its revision, and whether that is PUBLISHED    *)
(*    status                of the enrollment                              *)
(*    student, audited      the record, and as it was when last audited,   *)
(*                          or None                                        *)
(*    scenarios             a set of [active, items], items a set of       *)
(*                          [course, term]                                 *)
(*    admission, taken      its first term, and the terms of its attempts  *)
(* Terms are numbers in their order.  None is a count that is suppressed.  *)
(* Permissions, series over time, keyed digests and exports are left out.  *)
(***************************************************************************)
EXTENDS AcademicOverview

Settled  == {"SATISFIED", "NOT_APPLICABLE"}
Blocking == {"UNSATISFIED", "UNKNOWN"}

-----------------------------------------------------------------------------
(* One student.                                                            *)

\* What an audit stores, as far as it is read here.
Payload(revision, facts) ==
    [required |-> revision.total,
     applied  |-> MapThenSumSet(LAMBDA g : facts.group[g], Groups),
     answers  |-> {[about |-> r, status |-> RequirementStatus(r, facts)] : r \in revision.requirements}]

Percent(payload) ==
    IF payload.required <= 0 THEN 0 ELSE Min({100, (payload.applied * 100) \div payload.required})

Lagging(payload) == {a \in payload.answers : a.status \notin Settled}

StatusesOf(payload, c) == {a.status : a \in {b \in payload.answers : b.about.owner = c}}

\* A course something stands in the way of, also one that was passed meanwhile.
Critical(payload) == {c \in Courses : StatusesOf(payload, c) \cap Blocking # {}}

CriticalState(payload, c) == IF "UNKNOWN" \in StatusesOf(payload, c) THEN "UNKNOWN" ELSE "BLOCKED"

\* A course without requirements is not known to be open.
Eligible(payload, passed) ==
    {c \in Courses \ passed : StatusesOf(payload, c) # {} /\ StatusesOf(payload, c) \subseteq Settled}

Page(payload) ==
    [remaining |-> Max({0, payload.required - payload.applied}),
     percent   |-> Percent(payload),
     lagging   |-> {a.about : a \in Lagging(payload)},
     unknown   |-> {a.about : a \in {b \in Lagging(payload) : b.status = "UNKNOWN"}},
     critical  |-> [c \in Critical(payload) |-> CriticalState(payload, c)]]

StudentPage(enrollment) ==
    IF enrollment.audited = None \/ ~enrollment.published \/ enrollment.status = "NEEDS_REVIEW" THEN None
    ELSE Page(Payload(enrollment.revision, Facts(enrollment.revision, enrollment.audited)))

-----------------------------------------------------------------------------
(* The institution: enrollments are counted, and small counts suppressed.  *)

MinimumCell(configured, requested) == Max({2, configured, Known(requested)})

Cell(count, minimum) == IF count < minimum THEN None ELSE count

Enrolled(enrollments) == {i \in DOMAIN enrollments : enrollments[i].published}

\* The last audits there are, by enrollment.
Snapshots(enrollments) ==
    [i \in {j \in Enrolled(enrollments) : enrollments[j].audited # None} |->
        Payload(enrollments[i].revision, Facts(enrollments[i].revision, enrollments[i].audited))]

Buckets == {<<0, 24>>, <<25, 49>>, <<50, 74>>, <<75, 99>>, <<100, 100>>}

Distribution(snapshots, minimum) ==
    LET In(bucket) == {i \in DOMAIN snapshots : Percent(snapshots[i]) \in bucket[1]..bucket[2]}
    IN [b \in Buckets |-> Cell(Cardinality(In(b)), minimum)]

Bottlenecks(snapshots, minimum) ==
    LET Stuck(c) == {i \in DOMAIN snapshots : c \in Critical(snapshots[i])}
    IN [c \in {d \in Courses : Stuck(d) # {}} |->
           [states |-> {CriticalState(snapshots[i], c) : i \in Stuck(c)},
            count  |-> Cell(Cardinality(Stuck(c)), minimum)]]

LaggingRequirements(snapshots, minimum) ==
    LET All == UNION {Lagging(snapshots[i]) : i \in DOMAIN snapshots}
    IN [r \in {a.about : a \in All} |->
           [statuses |-> {a.status : a \in {b \in All : b.about = r}},
            count    |-> Cell(Cardinality({i \in DOMAIN snapshots :
                                              \E a \in Lagging(snapshots[i]) : a.about = r}), minimum)]]

ActiveItems(enrollment) == UNION {s.items : s \in {t \in enrollment.scenarios : t.active}}

\* Students who plan a course, and those who could take it, in the term that is asked
\* for.  Without one, plans count in their terms and possibilities in none.
Demand(enrollments, snapshots, term, minimum) ==
    LET Planned(k) == {i \in Enrolled(enrollments) :
                          term \in {None, k[1]} /\ [course |-> k[2], term |-> k[1]] \in ActiveItems(enrollments[i])}
        Possible(k) == {i \in DOMAIN snapshots :
                          k[1] = term /\ k[2] \in Eligible(snapshots[i], Selected(enrollments[i].student))}
        terms == {term} \cup UNION {{p.term : p \in ActiveItems(enrollments[i])} : i \in Enrolled(enrollments)}
    IN [k \in {l \in terms \X Courses : Planned(l) \cup Possible(l) # {}} |->
           [planned   |-> Cell(Cardinality(Planned(k)), minimum),
            eligible  |-> Cell(Cardinality(Possible(k)), minimum),
            potential |-> Cell(Cardinality(Planned(k) \cup Possible(k)), minimum)]]

\* A route is the whole of what an active scenario plans.
Routes(enrollments, minimum) ==
    LET RoutesOf(i) == {s.items : s \in {t \in enrollments[i].scenarios : t.active}} \ {{}}
        all == UNION {RoutesOf(i) : i \in Enrolled(enrollments)}
    IN [route \in all |-> Cell(Cardinality({i \in Enrolled(enrollments) : route \in RoutesOf(i)}), minimum)]

\* The terms from admission to the last attempt.  Only terms that some graduate was
\* admitted or had an attempt in are counted.
Duration(enrollments, completed, i) ==
    LET seen  == UNION {{enrollments[j].admission} \cup enrollments[j].taken : j \in completed}
        first == enrollments[i].admission
        last  == Max(enrollments[i].taken)
    IN IF enrollments[i].taken = {} \/ last < first THEN None
       ELSE Cardinality({t \in seen : first <= t /\ t <= last})

Bands == {<<1, 4>>, <<5, 8>>, <<9, 12>>, <<13, None>>}

TimeToDegree(enrollments, minimum) ==
    LET completed == {i \in Enrolled(enrollments) : enrollments[i].status = "COMPLETED"}
        Observed  == {i \in completed : Duration(enrollments, completed, i) # None}
        In(band)  == {i \in Observed : /\ band[1] <= Duration(enrollments, completed, i)
                                       /\ band[2] # None => Duration(enrollments, completed, i) <= band[2]}
    IN [observed |-> Cell(Cardinality(Observed), minimum),
        bands    |-> [band \in Bands |-> Cell(Cardinality(In(band)), minimum)]]

\* A population below the minimum is not broken down at all.
InstitutionReport(enrollments, snapshots, term, minimum) ==
    IF Cardinality(Enrolled(enrollments)) < minimum THEN None
    ELSE [audited      |-> Cardinality(DOMAIN snapshots),
          distribution |-> Distribution(snapshots, minimum),
          bottlenecks  |-> Bottlenecks(snapshots, minimum),
          lagging      |-> LaggingRequirements(snapshots, minimum),
          demand       |-> Demand(enrollments, snapshots, term, minimum),
          routes       |-> Routes(enrollments, minimum),
          time         |-> TimeToDegree(enrollments, minimum)]
=============================================================================
