--------------------------- MODULE MCStudentHistory ---------------------------
(* StudentHistory on a small instance.  The first file has a row read without    *)
(* doubt and one of a course that has no internal match; the others have what    *)
(* cannot be imported, or not as it is stated.                                   *)
EXTENDS StudentHistory

CONSTANTS c1, c2, mixed, torn, full, broken, wrong, twice

Line(course, status) == [course_code |-> course, term_code |-> 1, status |-> status]
Stating(course, status, credits) == Line(course, status) @@ [credits |-> credits]
File(format, pages) == [format |-> format, pages |-> pages]

SmallFiles ==
    (mixed  :> File("CSV", <<<<Stating("A", "PASSED", 3), Line("X", "FAILED") @@ [equivalence_code |-> "E"]>>>>)) @@
    (torn   :> File("PDF", <<None, <<None, Stating("A", "PASSED", None)>>>>)) @@
    (full   :> File("PDF", <<<<Line("A", "PASSED")>>, <<Line("B", "PASSED"), Line("A", "FAILED")>>>>)) @@
    (broken :> File("JSON", <<<<Line("A", "PASSED"), None>>>>)) @@
    (wrong  :> File("CSV", <<<<Stating("A", "ENROLLED", 3)>>>>)) @@
    (twice  :> File("JSON", <<<<Line("A", "FAILED"), Line("A", "FAILED")>>>>))

SmallCodes   == <<"A", "B">>
SmallCredits == <<3, 2>>

Ask(course, term, number, status) ==
    [course |-> course, term |-> term, number |-> number, status |-> status]
SomeRequests == {Ask(1, 1, 1, "PASSED"), Ask(1, 2, 1, "FAILED")}
SomeDecisions == {<<"ACCEPT", 2>>, <<"EXTERNAL", 2>>, <<"SKIP", None>>}
LastTermOfFirst == {<<1, 1>>}

InstanceSymmetry == Permutations(Clients)
=============================================================================
