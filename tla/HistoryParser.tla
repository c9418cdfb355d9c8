---------------------------- MODULE HistoryParser ----------------------------
(***************************************************************************)
(* What is read from a file of academic history (domain/history/parsers):  *)
(* nothing is guessed, and what cannot be read is reported.                *)
(*                                                                         *)
(* A file is a record                                                      *)
(*    format    "JSON", "CSV", "PDF", or None for any other                *)
(*    pages     a sequence; a JSON or CSV file has one page                *)
(* A page is None when it cannot be extracted, or a sequence of lines.  A  *)
(* line is None if it is not a record (not an object, not a row of a       *)
(* table), or a function from names of columns to values.  Codes and       *)
(* statuses are values, grades are hundredths; Bad is a value of the wrong *)
(* form.  Encodings, file headers and the truncation of long values are    *)
(* left out.                                                               *)
(***************************************************************************)
EXTENDS Integers, Sequences, SequencesExt, FiniteSets, FiniteSetsExt

CONSTANTS None, Bad, MaxRecords

ASSUME MaxRecordsAssumption == MaxRecords \in Nat \ {0}

\* AttemptStatus, of which some earn the credits of the course.
Approved    == {"PASSED", "VALIDATED", "HOMOLOGATED", "TRANSFERRED"}
NotApproved == {"FAILED", "CANCELLED", "WITHDRAWN", "ANNULLED"}
AttemptStatus == Approved \cup NotApproved \cup {"PLANNED", "ENROLLED"}

\* The columns a value is taken from: the first that is there, be it empty.
Aliases ==
    [course   |-> <<"course_code", "code">>,         term   |-> <<"term_code", "term">>,
     status   |-> <<"status">>,                      grade  |-> <<"grade">>,
     credits  |-> <<"credits_earned", "credits">>,   number |-> <<"attempt_number", "attempt">>,
     external |-> <<"external_code", "equivalence_code">>]
Fields == DOMAIN Aliases

\* Of several columns for one value, the rest is discarded like any other column.
Minimized(line) ==
    [field \in Fields |->
        LET present == {i \in DOMAIN Aliases[field] : Aliases[field][i] \in DOMAIN line}
        IN IF present = {} THEN None ELSE line[Aliases[field][Min(present)]]]

\* A value of the wrong form or out of range; nothing is made of it.
OutOfRange(field, value) ==
    \/ value = Bad
    \/ /\ value # None
       /\ CASE field = "status"  -> value \notin AttemptStatus
            [] field = "grade"   -> value \notin 0..500
            [] field = "credits" -> value \notin 0..255
            [] field = "number"  -> value \notin 1..99
            [] OTHER             -> FALSE

Refused(raw) == {field \in Fields \ {"external"} : OutOfRange(field, raw[field])}
Required == {"course", "term", "status"}

Kept(raw) == [field \in Fields |-> IF field \in Refused(raw) THEN None ELSE raw[field]]

\* _normalize_row, the end: an attempt that is not approved earned nothing.
Errors(raw) ==
    {<<field, "invalid">> : field \in Refused(raw)}
       \cup {<<field, "required">> : field \in {f \in Required : raw[f] = None}}
       \cup (IF Kept(raw).status \in NotApproved /\ Kept(raw).credits \notin {None, 0}
             THEN {<<"credits", "inconsistent">>} ELSE {})

Row(line, review) ==
    LET raw  == Minimized(line)
        kept == [Kept(raw) EXCEPT !.number = IF @ = None THEN 1 ELSE @]
    IN [name \in Fields \cup {"errors", "review"} |->
           IF name \in Fields THEN kept[name] ELSE IF name = "errors" THEN Errors(raw) ELSE review]

\* A PDF has the columns of its table, by position, and no number of the attempt.
Tabular(line) ==
    [name \in {"course_code", "term_code", "status", "grade", "credits_earned"} \cap DOMAIN line |-> line[name]]

\* Equal rows are warned of; nothing else is done about them.
DuplicateInFile(rows) == {i \in DOMAIN rows : \E j \in DOMAIN rows \ {i} :
                                 \A field \in Fields : rows[j][field] = rows[i][field]}

\* A report is None when the file is refused as a whole, otherwise the rows and whether
\* there is something that could not be read; with that it is never confirmed.
Report(rows, incomplete) ==
    [rows |-> rows, incomplete |-> incomplete \/ rows = <<>>, duplicates |-> DuplicateInFile(rows)]

\* The records there are, in the order in which they are read.
RecordPlaces(pages) ==
    UNION {{<<p, l>> : l \in {k \in DOMAIN pages[p] : pages[p][k] # None}} :
               p \in {q \in DOMAIN pages : pages[q] # None}}

Lines(pages) ==
    LET places == RecordPlaces(pages)
        UpTo(a) == {b \in places : b[1] < a[1] \/ (b[1] = a[1] /\ b[2] <= a[2])}
        At(n)   == CHOOSE a \in places : Cardinality(UpTo(a)) = n
    IN [n \in 1..Cardinality(places) |-> pages[At(n)[1]][At(n)[2]]]

JsonReport(pages) ==
    LET lines == Lines(pages)
    IN IF Len(pages[1]) > MaxRecords THEN None
       ELSE Report([i \in DOMAIN lines |-> Row(lines[i], FALSE)], Len(lines) < Len(pages[1]))

\* A CSV line is always a record, and more of them than may be are refused.
CsvReport(pages) ==
    LET lines == Lines(pages)
    IN IF \/ Len(lines) > MaxRecords
          \/ \E i \in DOMAIN lines : ~(Required \subseteq {f \in Fields : Aliases[f][1] \in DOMAIN lines[i]})
       THEN None
       ELSE Report([i \in DOMAIN lines |-> Row(lines[i], FALSE)], FALSE)

\* Mutant: the rows that are left out go unnoticed.
PdfReportUpToTheLimit(pages) ==
    LET lines == Lines(pages)
        count == Min({Len(lines), MaxRecords})
    IN Report([i \in 1..count |-> Row(Tabular(lines[i]), TRUE)], None \in ToSet(pages))

\* Reading stops at the limit, which is reported also if nothing follows; a page that
\* cannot be extracted is reported, a line that is no row of a table is passed over.
PdfReport(pages) ==
    LET lines == Lines(pages)
        count == Min({Len(lines), MaxRecords})
    IN Report([i \in 1..count |-> Row(Tabular(lines[i]), TRUE)],
              None \in ToSet(pages) \/ Len(lines) >= MaxRecords)

ReportOf(file) ==
    CASE file.format = "JSON" -> JsonReport(file.pages)
      [] file.format = "CSV"  -> CsvReport(file.pages)
      [] file.format = "PDF"  -> PdfReport(file.pages)
      [] OTHER                -> None

-----------------------------------------------------------------------------
(* What a file is, whatever is in it.                                      *)

IsList(s) == Len(s) \in Nat /\ DOMAIN s = 1..Len(s)

IsFile(file) ==
    /\ IsList(file.pages)
    /\ \A p \in DOMAIN file.pages : file.pages[p] = None \/ IsList(file.pages[p])
    /\ file.format \in {"JSON", "CSV"} => Len(file.pages) = 1 /\ file.pages[1] # None
    /\ file.format = "CSV" => \A l \in DOMAIN file.pages[1] : file.pages[1][l] # None
=============================================================================
