------------------------- MODULE MCStudentProgress --------------------------
EXTENDS StudentProgress

CONSTANTS k1, k2

\* Two groups and an open elective, 3.
GroupsRequiring(r1, r2) ==
    <<[required |-> r1, component |-> "core", open |-> FALSE],
      [required |-> r2, component |-> "core", open |-> FALSE],
      [required |-> 2,  component |-> "free", open |-> TRUE]>>

Study(memberships, r1, r2, requirements) ==
    [revision |-> [groups |-> GroupsRequiring(r1, r2), total |-> r1 + r2 + 2,
                   memberships |-> memberships,
                   credits |-> <<2, None, 3>>,
                   requirements |-> requirements],
     attempts |-> {}, recognitions |-> {}, externals |-> {}, exceptions |-> {}, items |-> {}, solver |-> None, classmates |-> None,
     calendar |-> <<[first |-> 2, last |-> 11]>>]

Attempt(c, status, credits) == [course |-> c, status |-> status, credits |-> credits]
Item(c, t, meetings, locked) ==
    [course |-> c, term |-> t, credits |-> 2, meetings |-> meetings,
     section |-> IF meetings = {} THEN None ELSE c, locked |-> locked]
In(c, g, role) == [course |-> c, group |-> g, role |-> role]

\* Ways in which three courses belong to the two groups, and histories of
\* three attempts: the order of the ledger is the order of the numbers.
MembershipsOf(c) ==
    {{}} \cup {{In(c, 1, "ELECTIVE_OPTION")}, {In(c, 2, "ELECTIVE_OPTION")}, {In(c, 2, "MANDATORY")},
               {In(c, 1, "ELECTIVE_OPTION"), In(c, 2, "ELECTIVE_OPTION")},
               {In(c, 1, "ELECTIVE_OPTION"), In(c, 2, "MANDATORY")}}

LedgerStudies ==
    {[Study(m1 \cup m2 \cup m3, r[1], r[2], {}) EXCEPT
        !.attempts = {Attempt(c, "PASSED", 3) : c \in Courses} \cup
                     {Attempt(2, "PASSED", 1), Attempt(1, "ENROLLED", None)},
        !.recognitions = {[course |-> 2, credits |-> 0], [course |-> 2, credits |-> 2]}] :
        m1 \in MembershipsOf(1) \ {{}}, m2 \in MembershipsOf(2), m3 \in MembershipsOf(3) \ {{}, {In(3, 1, "ELECTIVE_OPTION")}},
        r \in {<<2, 4>>, <<3, 1>>}}

\* Graduation asks for a rule of up to three levels over known and unknown facts.
Passing(c)   == [kind |-> "COURSE_PASSED", course |-> c]
External(k)  == [kind |-> "EXTERNAL_REQUIREMENT", key |-> k]
NotRule(r)   == [kind |-> "NOT", child |-> r]
Both(r, s)   == [kind |-> "ALL", children |-> <<r, s>>]
Either(r, s) == [kind |-> "ANY", children |-> <<r, s>>]

Leaves ==
    {Passing(1), External(k1), External(k2), [kind |-> "UNKNOWN"],
     [kind |-> "CREDITS_IN_GROUP", group |-> 1, operator |-> "<", value |-> 2],
     [kind |-> "CREDITS_IN_COMPONENT", component |-> "core", operator |-> ">=", value |-> 3],
     [kind |-> "GROUP_COMPLETED", group |-> 2],
     [kind |-> "PERCENTAGE_OF_PLAN", numerator |-> 1, denominator |-> 2],
     [kind |-> "TOTAL_CREDITS", operator |-> ">", value |-> 3],
     [kind |-> "EQUIVALENT_COURSE_PASSED", key |-> 2, courses |-> {1, 2}]}
Literals == Leaves \cup {NotRule(External(k)) : k \in {k1, k2}}
GraduationRules ==
    Literals \cup {Both(r, NotRule(External(k2))) : r \in Literals}
    \cup {NotRule(Either(r, External(k1))) : r \in Literals}

RuleStudies ==
    {[Study({In(1, 1, "ELECTIVE_OPTION"), In(2, 2, "MANDATORY")}, 2, 1,
            {[owner |-> None, rule |-> rule, verified |-> TRUE],
             [owner |-> 2, rule |-> External(k2), verified |-> TRUE],
             [owner |-> 1, rule |-> Passing(2), verified |-> FALSE]}) EXCEPT
        !.attempts = {Attempt(1, "PASSED", 2), Attempt(2, "PASSED", None), Attempt(3, "PASSED", 3)},
        !.recognitions = {[course |-> 2, credits |-> 1]},
        !.externals = {k1, k2},
        !.exceptions = {[groups |-> {1}, courses |-> {2}]}] :
        rule \in GraduationRules}

\* Two courses with requirements, planned in two terms and possibly twice.  Nobody
\* knows the credits of course 2.
Alongside(c) == [kind |-> "COREQUISITE", course |-> c]
CourseRules(c, d) ==
    LET leaves == {Passing(c), Alongside(c), Passing(d), NotRule(Passing(d)),
                   [kind |-> "MANDATORY_COURSES_COMPLETED", courses |-> {c, d}], [kind |-> "UNKNOWN"]}
    IN leaves \cup {Both(r, Alongside(d)) : r \in leaves}
              \cup {Either(r, NotRule(Alongside(c))) : r \in leaves}

PlanStudies ==
    {[Study({In(1, 1, "ELECTIVE_OPTION")}, 2, 1,
            {[owner |-> 2, rule |-> r2, verified |-> TRUE],
             [owner |-> 3, rule |-> r3, verified |-> TRUE]}) EXCEPT
        !.attempts = {Attempt(1, "ENROLLED", None), Attempt(2, "PASSED", None)},
        !.calendar = <<[first |-> 0, last |-> 6], [first |-> 7, last |-> 13]>>,
        !.items = {Item(1, 1, {}, FALSE), Item(3, 1, {}, FALSE), Item(3, 2, {}, FALSE)} \cup
                  {[Item(2, t, {}, FALSE) EXCEPT !.credits = None] : t \in 1..2}] :
        r2 \in CourseRules(1, 3),
        r3 \in {Passing(2), Alongside(2), NotRule(Passing(1)), Both(Passing(1), Alongside(2)),
                Either(Passing(1), NotRule(Alongside(2)))}}

\* Two sections whose meetings may touch, share some weeks or cross midnight.
Meeting(section, day, hours, zone, first, last) ==
    [section |-> section, day |-> day, starts |-> hours[1], ends |-> hours[2], zone |-> zone,
     first |-> first, last |-> last]
In1(meeting) == Item(meeting.section, 1, {meeting}, FALSE)

ClashStudies ==
    {[Study({}, 2, 1, {}) EXCEPT !.items = {In1(l), In1(r)}] :
        l \in {Meeting(1, 3, hours, zone, None, last) :
                  hours \in {<<8, 10>>, <<0, 2>>, <<22, 23>>}, zone \in {0, None}, last \in {None, 5}},
        r \in {Meeting(s, day, hours, zone, first, None) :
                  s \in {1, 2}, day \in {2, 3, 4, 7}, hours \in {<<9, 11>>, <<10, 12>>, <<1, 3>>, <<21, 22>>},
                  zone \in {0, 5, -5}, first \in {None, 8}}}

\* Three courses, two terms, choices that are locked, one course perhaps in two terms,
\* and two sections that clash.
Monday(c) == Meeting(c, 1, <<8, 10>>, 0, None, None)
Solver(offered, min, max, target, allow) ==
    [elsewhere |-> {}, offered |-> [c \in Courses |-> [t \in 1..2 |-> offered[c]]],
     preferences |-> [min |-> min, max |-> max, target |-> target, preferred |-> None,
                      allowUnknown |-> allow, penalty |-> <<0, 1, 2>>, unavailable |-> {3}]]

SolverRules ==
    {Passing(1), Alongside(1), NotRule(Passing(1)), Both(Passing(1), Alongside(2)),
     Either(Passing(2), [kind |-> "UNKNOWN"]), [kind |-> "COURSE_IN_PROGRESS", course |-> 1],
     [kind |-> "TOTAL_CREDITS", operator |-> ">=", value |-> 4],
     [kind |-> "CREDITS_IN_GROUP", group |-> 1, operator |-> ">=", value |-> 2],
     [kind |-> "GROUP_COMPLETED", group |-> 2],
     [kind |-> "EQUIVALENT_COURSE_PASSED", key |-> 2, courses |-> {1, 2}]}

SolverStudies ==
    {[Study({In(1, 1, "ELECTIVE_OPTION"), In(1, 2, "ELECTIVE_OPTION"), In(2, 1, role), In(3, 2, "ELECTIVE_OPTION")},
            2, r2, {[owner |-> 3, rule |-> rule, verified |-> TRUE],
                    [owner |-> 2, rule |-> Alongside(1), verified |-> FALSE]}) EXCEPT
        !.revision.credits = <<2, 2, 2>>,
        !.revision.groups[3].required = 0,
        !.attempts = {Attempt(1, "ENROLLED", None), Attempt(2, "PASSED", 2)},
        !.calendar = <<[first |-> 0, last |-> 6], [first |-> 7, last |-> 13]>>,
        !.items = {Item(2, 1, {Monday(2)}, TRUE), Item(3, 1, {Monday(3)}, TRUE), Item(3, 2, {}, twice)},
        !.solver = solver] :
        role \in {"MANDATORY", "ELECTIVE_OPTION"}, r2 \in {2, 4}, rule \in SolverRules, twice \in BOOLEAN,
        solver \in {Solver(<<"OFFERED", "UNKNOWN", "OFFERED">>, 0, 4, None, TRUE),
                    Solver(<<"OFFERED", "OFFERED", "UNKNOWN">>, 2, 2, 4, TRUE),
                    Solver(<<"NOT_OFFERED", "OFFERED", "UNKNOWN">>, 0, 6, None, FALSE),
                    Solver(<<"OFFERED", "NOT_OFFERED", "OFFERED">>, 0, 4, None, FALSE)}}

\* A course outside the revision that another scenario plans, and offers that come and
\* go: only with both can the target, and the course that must be taken, be reached.
ElsewhereStudies ==
    {[Study({In(1, 1, "ELECTIVE_OPTION"), In(2, 1, "MANDATORY")}, 2, 0,
            {[owner |-> 3, rule |-> rule, verified |-> TRUE], [owner |-> 2, rule |-> Passing(1), verified |-> TRUE]}) EXCEPT
        !.revision.credits = <<2, 2, 2>>,
        !.revision.groups[3].required = 0,
        !.attempts = {Attempt(1, "PASSED", 2)},
        !.calendar = <<[first |-> 0, last |-> 6], [first |-> 7, last |-> 13]>>,
        !.items = {Item(2, 2, {}, TRUE), Item(3, 1, {}, FALSE)},
        !.solver = [Solver(<<"OFFERED", "OFFERED", "OFFERED">>, 0, 4, 4, FALSE) EXCEPT
                       !.elsewhere = elsewhere,
                       !.offered = <<<<"NOT_OFFERED", late>>, <<late, "OFFERED">>, <<"UNKNOWN", "OFFERED">>>>]] :
        rule \in {Passing(1), Alongside(2), Passing(2)}, elsewhere \in {{}, {3}}, late \in {"OFFERED", "NOT_OFFERED"}}

\* Plans with nothing left to say about them, and those around them.
TwoCredits == [kind |-> "TOTAL_CREDITS", operator |-> ">=", value |-> 2]

PlannerStudies ==
    {[Study({In(1, 1, "ELECTIVE_OPTION"), In(2, 1, "MANDATORY"), In(3, 2, "ELECTIVE_OPTION")}, 2, 2,
            {[owner |-> 1, rule |-> TwoCredits, verified |-> TRUE],
             [owner |-> 2, rule |-> TwoCredits, verified |-> TRUE],
             [owner |-> 3, rule |-> rule, verified |-> TRUE]}) EXCEPT
        !.revision.credits = <<2, 2, 2>>,
        !.revision.groups[3].required = 0,
        !.attempts = {Attempt(1, "ENROLLED", None)},
        !.calendar = <<[first |-> 0, last |-> 6], [first |-> 7, last |-> 13]>>,
        !.items = {Item(1, 1, {}, FALSE), Item(1, 2, {}, FALSE), Item(2, 1, {[Monday(2) EXCEPT !.day = day]}, FALSE),
                   Item(3, 1, {Monday(3)}, FALSE), Item(3, 2, {}, TRUE)},
        !.solver = Solver(<<"OFFERED", "OFFERED", "OFFERED">>, 2, 4, None, FALSE)] :
        rule \in {Passing(1), Alongside(2), NotRule(Passing(1)), Either(Passing(2), External(k1)),
                  [kind |-> "PERCENTAGE_OF_PLAN", numerator |-> 1, denominator |-> 4]},
        day \in {1, 2, 3}}

\* Curricula with every shape of dependency: chains, cycles, one's own owner, courses
\* inside of conditions, and several requirements of one course.
Equivalent(C)   == [kind |-> "EQUIVALENT_COURSE_PASSED", key |-> 2, courses |-> C]
Mandatory(C)    == [kind |-> "MANDATORY_COURSES_COMPLETED", courses |-> C]
MinimumGrade(c) == [kind |-> "MINIMUM_GRADE", course |-> c]

GraphRules(c, d) ==
    {Passing(c), Alongside(d), NotRule(Passing(d)), Both(Passing(c), Alongside(d)),
     Either(NotRule(Alongside(c)), External(k1)), Either(Passing(d), MinimumGrade(c)),
     Mandatory({c, d}), NotRule(Equivalent({c, d}))}

GraphStudies ==
    {[Study({In(1, 1, "ELECTIVE_OPTION"), In(3, 2, "ELECTIVE_OPTION")}, 2, 1,
            {[owner |-> 1, rule |-> r1, verified |-> TRUE], [owner |-> 2, rule |-> r2, verified |-> TRUE],
             [owner |-> 3, rule |-> r3, verified |-> TRUE], [owner |-> 3, rule |-> Passing(1), verified |-> TRUE]}) EXCEPT
        !.attempts = {Attempt(1, "PASSED", 2), Attempt(2, "ENROLLED", None)}] :
        r1 \in GraphRules(2, 3) \cup {External(k1)}, r2 \in GraphRules(1, 3) \cup {External(k2)},
        r3 \in GraphRules(1, 2) \cup {Passing(3)}}

\* Four classmates: one who follows another revision, one never audited, two graduates
\* of whom one paused for some terms.
Record(attempts) ==
    [attempts |-> attempts, recognition |-> [c \in Courses |-> None],
     external |-> [k \in {k1, k2} |-> "SATISFIED"], waived |-> [groups |-> {}, courses |-> {}]]
Classmate(s, record, status, audited, items, taken) ==
    [revision |-> s.revision, published |-> TRUE, status |-> status, student |-> record,
     audited |-> audited, scenarios |-> {[active |-> TRUE, items |-> items],
                                          [active |-> FALSE, items |-> {[course |-> 1, term |-> 1]}]},
     admission |-> 1, taken |-> taken]

Classmates(s, items) ==
    LET begun    == Record({Attempt(1, "PASSED", 2)})
        finished == Record({Attempt(c, "PASSED", 2) : c \in Courses})
    IN <<Classmate(s, begun, "ACTIVE", begun, items, {1}),
         [Classmate(s, begun, "ACTIVE", begun, items, {1}) EXCEPT !.published = FALSE],
         Classmate(s, finished, "COMPLETED", begun, {}, {1, 6}),
         Classmate(s, finished, "COMPLETED", None, items, {2, 3, 4})>>

AnalyticsStudies ==
    {[s EXCEPT !.classmates = Classmates(s, items)] :
        items \in {{}, {[course |-> 2, term |-> 1], [course |-> 3, term |-> 2]}},
        s \in {[Study({In(1, 1, "ELECTIVE_OPTION"), In(2, 2, "MANDATORY"), In(3, 2, "ELECTIVE_OPTION")}, 2, 4,
                       {[owner |-> 2, rule |-> Passing(1), verified |-> TRUE],
                        [owner |-> 2, rule |-> rule, verified |-> TRUE],
                        [owner |-> 3, rule |-> External(k1), verified |-> TRUE],
                        [owner |-> None, rule |-> NotRule(rule), verified |-> TRUE]}) EXCEPT
                   !.attempts = {Attempt(1, "ENROLLED", None), Attempt(2, "ENROLLED", None), Attempt(3, "PASSED", 2)},
                   !.externals = {k1}, !.exceptions = {[groups |-> {2}, courses |-> {2}]},
                   !.calendar = <<[first |-> 0, last |-> 6], [first |-> 7, last |-> 13]>>,
                   !.items = {Item(2, 1, {}, FALSE), Item(3, 2, {}, FALSE)}] :
               rule \in {External(k1), [kind |-> "TOTAL_CREDITS", operator |-> ">=", value |-> 4]}}}

EveryStudy ==
    AnalyticsStudies \cup GraphStudies \cup ClashStudies \cup LedgerStudies \cup RuleStudies
    \cup PlanStudies \cup SolverStudies \cup ElsewhereStudies \cup PlannerStudies

\* Their rules: no study asks for one with more than two levels inside.
Pairs == {p \in Courses \X Courses : p[1] # p[2]}

AskedRules ==
    GraduationRules \cup SolverRules \cup {NotRule(r) : r \in SolverRules} \cup {TwoCredits, Passing(3)}
    \cup {[kind |-> "PERCENTAGE_OF_PLAN", numerator |-> 1, denominator |-> 4], Either(Passing(2), External(k1))}
    \cup UNION {GraphRules(p[1], p[2]) \cup CourseRules(p[1], p[2]) \cup {NotRule(Passing(p[1]))} : p \in Pairs}

Inside(rules) == UNION {Children(r) : r \in rules}

OnceInside == Inside(AskedRules)
EveryRule  == AskedRules \cup OnceInside \cup Inside(OnceInside) \cup Inside(Inside(OnceInside))

\* The values of the constants, by the names of sets that are computed once.
AllStudies == EveryStudy
AllRules   == EveryRule

AllDepths ==
    LET Depth[r \in EveryRule] == IF Children(r) = {} THEN 0 ELSE 1 + Max({Depth[c] : c \in Children(r)})
    IN Depth
=============================================================================
