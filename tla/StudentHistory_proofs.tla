------------------------ MODULE StudentHistory_proofs ------------------------
(***************************************************************************)
(* Proofs about StudentHistory, for every number of clients, courses,      *)
(* terms, files, attempts and decisions.                                   *)
(***************************************************************************)
EXTENDS StudentHistory, FiniteSetTheorems, WellFoundedInduction, TLAPS

-----------------------------------------------------------------------------
(* Numbers.                                                                *)

LEMMA LeastExists ==
  ASSUME NEW S \in SUBSET Nat, S # {}
  PROVE  \E n \in S : \A m \in S : n <= m
<1> DEFINE before == OpToRel(<, Nat)
<1>1. PICK n \in S : \A m \in S : ~(<<m, n>> \in before)
  BY NatLessThanWellFounded, WFMin
<1>2. before = {pair \in Nat \X Nat : pair[1] < pair[2]}
  BY DEF OpToRel
<1>3. ASSUME NEW m \in S PROVE n <= m
  <2>1. ~(m < n)
    BY <1>1, <1>2
  <2>2. QED
    BY <2>1
<1>4. QED
  BY <1>3

\* A finite set of numbers has a greatest one: of the sets that have none, look at
\* one with the fewest elements.
LEMMA GreatestExists ==
  ASSUME NEW S \in SUBSET Nat, IsFiniteSet(S), S # {}
  PROVE  \E n \in S : \A m \in S : m <= n
<1> DEFINE Topped(T) == \E n \in T : \A m \in T : m <= n
           bad == {n \in Nat : \E T \in SUBSET Nat :
                      IsFiniteSet(T) /\ T # {} /\ Cardinality(T) = n /\ ~Topped(T)}
<1>1. SUFFICES ASSUME bad # {} PROVE FALSE
  BY FS_CardinalityType
<1>2. PICK least \in bad : \A m \in bad : least <= m
  BY <1>1, LeastExists
<1>3. PICK T \in SUBSET Nat : IsFiniteSet(T) /\ T # {} /\ Cardinality(T) = least /\ ~Topped(T)
  BY <1>2
<1>4. PICK x \in T : TRUE
  BY <1>3
<1> DEFINE rest == T \ {x}
<1>5. IsFiniteSet(rest) /\ Cardinality(rest) = least - 1
  BY <1>3, <1>4, FS_RemoveElement
<1>6. rest # {}
  <2>1. ASSUME rest = {} PROVE FALSE
    <3>1. T = {x}
      BY <1>4, <2>1
    <3>2. QED
      BY <1>3, <1>4, <3>1
  <2>2. QED
    BY <2>1
<1>7. least - 1 \in Nat /\ least - 1 \notin bad
  <2>1. least \in Nat /\ least - 1 \in Nat
    BY <1>5, FS_CardinalityType
  <2>2. QED
    BY <1>2, <2>1
<1>8. PICK n \in rest : \A m \in rest : m <= n
  BY <1>5, <1>6, <1>7
<1>9. CASE n <= x
  <2>1. \A m \in T : m <= x
    BY <1>3, <1>4, <1>8, <1>9
  <2>2. QED
    BY <1>3, <1>4, <2>1
<1>10. CASE x <= n
  <2>1. \A m \in T : m <= n
    BY <1>3, <1>4, <1>8, <1>10
  <2>2. QED
    BY <1>3, <1>8, <2>1
<1>11. QED
  BY <1>3, <1>4, <1>8, <1>9, <1>10

LEMMA IdsAreFinite == IsFiniteSet(Ids) /\ Ids \subseteq Nat
<1>1. MaxAttempts \in Nat
  BY BoundsAssumption
<1>2. QED
  BY <1>1, FS_Interval DEF Ids

\* The number a row is given is not in use (_next_attempt_number).
LEMMA NextNumberIsUnused ==
  ASSUME NEW rows, NEW course, NEW asked \in Nat,
         \A j \in Ids : rows[j] # None => rows[j].number \in Nat
  PROVE  /\ NextNumber(rows, course, asked) \in Nat
         /\ \A j \in Ids : rows[j] # None /\ rows[j].course = course
                              => rows[j].number # NextNumber(rows, course, asked)
<1> DEFINE holders == {j \in Ids \ {0} : rows[j] # None /\ rows[j].course = course}
           used == Used(rows, course, 0)
<1>1. holders = {j \in Ids : rows[j] # None /\ rows[j].course = course}
  BY DEF Ids
<1>2. used = {rows[j].number : j \in holders}
  BY DEF Used
<1>3. IsFiniteSet(used) /\ used \subseteq Nat
  <2>1. IsFiniteSet(holders)
    BY <1>1, IdsAreFinite, FS_Subset
  <2>2. [j \in holders |-> rows[j].number] \in Surjection(holders, used)
    BY <1>2 DEF Surjection
  <2>3. used \subseteq Nat
    BY <1>1, <1>2
  <2>4. QED
    BY <2>1, <2>2, <2>3, FS_Surjection
<1>4. CASE asked \notin used
  BY <1>1, <1>2, <1>4 DEF NextNumber
<1>5. CASE asked \in used
  <2>1. PICK top \in used : \A m \in used : m <= top
    BY <1>3, <1>5, GreatestExists
  <2>2. Greatest(used) \in used /\ \A m \in used : m <= Greatest(used)
    BY <2>1 DEF Greatest
  <2>3. NextNumber(rows, course, asked) = Greatest(used) + 1
    BY <1>5 DEF NextNumber
  <2>4. Greatest(used) + 1 \notin used /\ Greatest(used) + 1 \in Nat
    BY <1>3, <2>2
  <2>5. QED
    BY <1>1, <1>2, <2>3, <2>4
<1>6. QED
  BY <1>4, <1>5

-----------------------------------------------------------------------------
(* What a file says and what is read from it.                              *)

LEMMA FieldNames == Fields = {"course", "term", "status", "grade", "credits", "number", "external"}
BY DEF Fields, Aliases

LEMMA ColumnIsTaken ==
  ASSUME NEW line
  PROVE  /\ Minimized(line)["status"] = IF "status" \in DOMAIN line THEN line["status"] ELSE None
         /\ Minimized(line)["credits"] = IF "credits_earned" \in DOMAIN line THEN line["credits_earned"]
                                         ELSE IF "credits" \in DOMAIN line THEN line["credits"] ELSE None
<1>1. Min({1}) = 1 /\ Min({2}) = 2 /\ Min({1, 2}) = 1
  BY DEF Min
<1>2. /\ Aliases["status"] = <<"status">> /\ Aliases["credits"] = <<"credits_earned", "credits">>
      /\ "status" \in Fields /\ "credits" \in Fields
  BY FieldNames DEF Aliases
<1> DEFINE present(field) == {i \in DOMAIN Aliases[field] : Aliases[field][i] \in DOMAIN line}
<1>3. \A field \in Fields : Minimized(line)[field] =
            IF present(field) = {} THEN None ELSE line[Aliases[field][Min(present(field))]]
  BY DEF Minimized
<1>4. Minimized(line)["status"] = IF "status" \in DOMAIN line THEN line["status"] ELSE None
  <2>1. present("status") = IF "status" \in DOMAIN line THEN {1} ELSE {}
    BY <1>2
  <2>2. Minimized(line)["status"] =
            IF present("status") = {} THEN None ELSE line[Aliases["status"][Min(present("status"))]]
    BY <1>2, <1>3
  <2> HIDE DEF present
  <2>3. Aliases["status"][1] = "status"
    BY <1>2
  <2>4. QED
    BY <1>1, <2>1, <2>2, <2>3
<1>5. Minimized(line)["credits"] = IF "credits_earned" \in DOMAIN line THEN line["credits_earned"]
                                   ELSE IF "credits" \in DOMAIN line THEN line["credits"] ELSE None
  <2>1. present("credits") = {i \in {1, 2} : IF i = 1 THEN "credits_earned" \in DOMAIN line ELSE "credits" \in DOMAIN line}
    BY <1>2
  <2>2. Minimized(line)["credits"] =
            IF present("credits") = {} THEN None ELSE line[Aliases["credits"][Min(present("credits"))]]
    BY <1>2, <1>3
  <2> HIDE DEF present
  <2>3. Aliases["credits"][1] = "credits_earned" /\ Aliases["credits"][2] = "credits"
    BY <1>2
  <2>4. CASE "credits_earned" \in DOMAIN line
    <3>1. present("credits") = IF "credits" \in DOMAIN line THEN {1, 2} ELSE {1}
      BY <2>1, <2>4
    <3>2. Min(present("credits")) = 1 /\ present("credits") # {}
      BY <1>1, <3>1
    <3>3. QED
      BY <2>2, <2>3, <2>4, <3>2
  <2>5. CASE "credits_earned" \notin DOMAIN line
    <3>1. present("credits") = IF "credits" \in DOMAIN line THEN {2} ELSE {}
      BY <2>1, <2>5
    <3>2. QED
      BY <1>1, <2>2, <2>3, <2>5, <3>1
  <2>6. QED
    BY <2>4, <2>5
<1>6. QED
  BY <1>4, <1>5

\* The number of an attempt is within its range, the first if the file says nothing.
LEMMA NumberIsInRange ==
  ASSUME NEW line, NEW review
  PROVE  Row(line, review).number \in 1..99
<1> DEFINE raw == Minimized(line)
           kept == [Kept(raw) EXCEPT !.number = IF @ = None THEN 1 ELSE @]
<1>1. Row(line, review)["number"] = IF Kept(raw)["number"] = None THEN 1 ELSE Kept(raw)["number"]
  BY FieldNames DEF Row, Kept
<1>2. "number" \in Fields /\ "number" # "external" /\ "number" \notin {"status", "grade", "credits"}
  BY FieldNames
<1>3. Kept(raw)["number"] = IF OutOfRange("number", raw["number"]) THEN None ELSE raw["number"]
  BY <1>2 DEF Kept, Refused
<1>4. ~OutOfRange("number", raw["number"]) => raw["number"] \in 1..99 \cup {None}
  BY DEF OutOfRange
<1>5. QED
  BY <1>1, <1>3, <1>4

\* A row without errors has the status and the credits that its line has.
LEMMA SoundRow ==
  ASSUME NEW line, NEW review, Row(line, review).errors = {}
  PROVE  /\ "status" \in DOMAIN line /\ Row(line, review).status = line["status"]
         /\ Row(line, review).credits = IF "credits_earned" \in DOMAIN line THEN line["credits_earned"]
                                        ELSE IF "credits" \in DOMAIN line THEN line["credits"] ELSE None
<1> DEFINE raw == Minimized(line)
<1>1. Errors(raw) = {}
  BY FieldNames DEF Row
<1>2. Refused(raw) = {}
  BY <1>1 DEF Errors
<1>3. raw["status"] # None
  BY <1>1 DEF Errors, Required
<1>4. \A field \in {"status", "credits"} : Row(line, review)[field] = raw[field]
  BY <1>2, FieldNames DEF Row, Kept
<1>5. QED
  BY <1>3, <1>4, ColumnIsTaken

-----------------------------------------------------------------------------
(* The records of a file, in the order in which they are read.             *)

IsPages(pages) ==
    IsList(pages) /\ \A p \in DOMAIN pages : pages[p] = None \/ IsList(pages[p])

UpTo(places, a) == {b \in places : b[1] < a[1] \/ (b[1] = a[1] /\ b[2] <= a[2])}
Place(places, n) == CHOOSE a \in places : Cardinality(UpTo(places, a)) = n

LEMMA PlacesAreFinite ==
  ASSUME NEW pages, IsPages(pages)
  PROVE  /\ IsFiniteSet(RecordPlaces(pages)) /\ RecordPlaces(pages) \subseteq Nat \X Nat
         /\ Cardinality(RecordPlaces(pages)) \in Nat
<1> DEFINE read == {q \in DOMAIN pages : pages[q] # None}
           on(p) == {<<p, l>> : l \in {k \in DOMAIN pages[p] : pages[p][k] # None}}
           each == [p \in read |-> on(p)]
<1>1. IsFiniteSet(read) /\ read \subseteq Nat
  <2>1. IsFiniteSet(DOMAIN pages) /\ DOMAIN pages \subseteq Nat
    BY FS_Interval DEF IsPages, IsList
  <2>2. QED
    BY <2>1, FS_Subset
<1>2. ASSUME NEW p \in read PROVE IsFiniteSet(on(p)) /\ on(p) \subseteq Nat \X Nat
  <2> DEFINE lines == {k \in DOMAIN pages[p] : pages[p][k] # None}
  <2>1. Len(pages[p]) \in Nat /\ DOMAIN pages[p] = 1..Len(pages[p]) /\ p \in Nat
    BY <1>1 DEF IsPages, IsList
  <2>2. IsFiniteSet(lines) /\ lines \subseteq Nat
    <3>1. IsFiniteSet(1..Len(pages[p])) /\ lines \subseteq 1..Len(pages[p])
      BY <2>1, FS_Interval
    <3>2. QED
      BY <2>1, <3>1, FS_Subset
  <2>3. [l \in lines |-> <<p, l>>] \in Surjection(lines, on(p))
    BY DEF Surjection
  <2>4. QED
    BY <2>1, <2>2, <2>3, FS_Surjection
<1>3. each \in Surjection(read, {on(p) : p \in read})
  BY DEF Surjection
<1>4. IsFiniteSet({on(p) : p \in read})
  BY <1>1, <1>3, FS_Surjection
<1>5. \A set \in {on(p) : p \in read} : IsFiniteSet(set) /\ set \subseteq Nat \X Nat
  BY <1>2
<1>6. RecordPlaces(pages) = UNION {on(p) : p \in read}
  BY DEF RecordPlaces
<1> HIDE DEF on, read, each
<1>7. IsFiniteSet(RecordPlaces(pages))
  BY <1>4, <1>5, <1>6, FS_UNION
<1>8. QED
  BY <1>5, <1>6, <1>7, FS_CardinalityType

\* Every number up to how many there are is that of exactly one of the places.
LEMMA PlacesAreNumbered ==
  ASSUME NEW places \in SUBSET (Nat \X Nat), IsFiniteSet(places), NEW n \in 1..Cardinality(places)
  PROVE  Place(places, n) \in places /\ Cardinality(UpTo(places, Place(places, n))) = n
<1> DEFINE rank == [a \in places |-> Cardinality(UpTo(places, a))]
           count == Cardinality(places)
<1>1. \A a \in places : UpTo(places, a) \subseteq places /\ a \in UpTo(places, a) /\ IsFiniteSet(UpTo(places, a))
  <2>1. ASSUME NEW a \in places PROVE UpTo(places, a) \subseteq places /\ a \in UpTo(places, a)
    <3>1. a[1] \in Nat /\ a[2] \in Nat
      OBVIOUS
    <3>2. QED
      BY <3>1 DEF UpTo
  <2>2. QED
    BY <2>1, FS_Subset
<1>2. count \in Nat /\ \A a \in places : rank[a] \in 1..count
  <2>1. count \in Nat
    BY FS_CardinalityType
  <2>2. ASSUME NEW a \in places PROVE rank[a] \in 1..count
    <3>1. Cardinality(UpTo(places, a)) \in Nat /\ Cardinality(UpTo(places, a)) <= count
      BY <1>1, FS_Subset, FS_CardinalityType
    <3>2. Cardinality(UpTo(places, a)) # 0
      BY <1>1, FS_EmptySet
    <3>3. QED
      BY <2>1, <3>1, <3>2
  <2>3. QED
    BY <2>1, <2>2
<1>3. ASSUME NEW a \in places, NEW b \in places, a # b, rank[a] = rank[b] PROVE FALSE
  <2>1. a[1] \in Nat /\ a[2] \in Nat /\ b[1] \in Nat /\ b[2] \in Nat /\ (a[1] # b[1] \/ a[2] # b[2])
    BY <1>3
  <2>2. ASSUME NEW x \in places, NEW y \in places, x \in UpTo(places, y), UpTo(places, x) = UpTo(places, y)
        PROVE  x = y
    <3>1. y \in UpTo(places, x)
      BY <1>1, <2>2
    <3>2. x[1] \in Nat /\ x[2] \in Nat /\ y[1] \in Nat /\ y[2] \in Nat /\ x = <<x[1], x[2]>> /\ y = <<y[1], y[2]>>
      OBVIOUS
    <3>3. x[1] = y[1] /\ x[2] = y[2]
      BY <2>2, <3>1, <3>2 DEF UpTo
    <3>4. QED
      BY <3>2, <3>3
  <2>3. ASSUME NEW x \in places, NEW y \in places, x \in UpTo(places, y)
        PROVE  UpTo(places, x) \subseteq UpTo(places, y)
    <3>1. ASSUME NEW z \in UpTo(places, x) PROVE z \in UpTo(places, y)
      <4>1. x[1] \in Nat /\ x[2] \in Nat /\ y[1] \in Nat /\ y[2] \in Nat /\ z[1] \in Nat /\ z[2] \in Nat /\ z \in places
        BY <3>1 DEF UpTo
      <4>2. QED
        BY <2>3, <3>1, <4>1 DEF UpTo
    <3>2. QED
      BY <3>1
  <2>4. a \in UpTo(places, b) \/ b \in UpTo(places, a)
    BY <2>1 DEF UpTo
  <2>5. ASSUME NEW x \in places, NEW y \in places, x \in UpTo(places, y), rank[x] = rank[y], x # y PROVE FALSE
    <3>1. UpTo(places, x) = UpTo(places, y)
      BY <1>1, <2>3, <2>5, FS_Subset
    <3>2. QED
      BY <2>2, <2>5, <3>1
  <2>6. QED
    BY <1>3, <2>4, <2>5
<1>4. rank \in Injection(places, 1..count)
  <2>1. rank \in [places -> 1..count]
    BY <1>2
  <2>2. QED
    BY <1>3, <2>1 DEF Injection, IsInjective
<1>5. IsFiniteSet(1..count) /\ Cardinality(1..count) = count
  BY <1>2, FS_Interval
<1>6. rank \in Surjection(places, 1..count)
  BY <1>4, <1>5, FS_Injection
<1>7. PICK a \in places : rank[a] = n
  BY <1>6 DEF Surjection
<1>8. QED
  BY <1>7 DEF Place

LEMMA LinesAreRecords ==
  ASSUME NEW pages, IsPages(pages)
  PROVE  LET places == RecordPlaces(pages)
         IN  /\ Lines(pages) = [n \in 1..Cardinality(places) |-> pages[Place(places, n)[1]][Place(places, n)[2]]]
             /\ DOMAIN Lines(pages) = 1..Cardinality(places) /\ Len(Lines(pages)) = Cardinality(places)
             /\ \A n \in DOMAIN Lines(pages) : Lines(pages)[n] # None
<1> DEFINE places == RecordPlaces(pages)
<1>1. Lines(pages) = [n \in 1..Cardinality(places) |-> pages[Place(places, n)[1]][Place(places, n)[2]]]
  BY DEF Lines, Place, UpTo
<1>2. Cardinality(places) \in Nat /\ IsFiniteSet(places) /\ places \in SUBSET (Nat \X Nat)
  BY PlacesAreFinite
<1>3. \A a \in places : pages[a[1]][a[2]] # None
  BY DEF RecordPlaces
<1>4. \A n \in 1..Cardinality(places) : Place(places, n) \in places
  BY <1>2, PlacesAreNumbered
<1> HIDE DEF places
<1>5. DOMAIN Lines(pages) = 1..Cardinality(places) /\ Len(Lines(pages)) = Cardinality(places)
  BY <1>1, <1>2
<1>6. \A n \in 1..Cardinality(places) : Lines(pages)[n] # None
  BY <1>1, <1>3, <1>4
<1>7. QED
  BY <1>1, <1>5, <1>6 DEF places

LEMMA UpToIsFinite ==
  ASSUME NEW n \in Nat
  PROVE  IsFiniteSet(1..n) /\ Cardinality(1..n) = n
BY FS_Interval

\* A file of one page has the lines of that page, if none of them is lost.
LEMMA OnePage ==
  ASSUME NEW pages, IsPages(pages), Len(pages) = 1, pages[1] # None
  PROVE  /\ (\A l \in DOMAIN pages[1] : pages[1][l] # None) <=> Len(pages[1]) <= Len(Lines(pages))
         /\ Len(pages[1]) <= Len(Lines(pages)) =>
               /\ Len(Lines(pages)) = Len(pages[1])
               /\ \A l \in DOMAIN pages[1] : Lines(pages)[l] = pages[1][l]
<1> DEFINE places == RecordPlaces(pages)
           kept == {k \in DOMAIN pages[1] : pages[1][k] # None}
           top == Len(pages[1])
           count == Len(Lines(pages))
<1>1. /\ top \in Nat /\ DOMAIN pages[1] = 1..top /\ DOMAIN pages = 1..1 /\ kept \subseteq 1..top
      /\ IsFiniteSet(1..top) /\ Cardinality(1..top) = top
  <2>1. DOMAIN pages = 1..1 /\ 1 \in DOMAIN pages
    BY DEF IsPages, IsList
  <2>2. top \in Nat /\ DOMAIN pages[1] = 1..top
    BY <2>1 DEF IsPages, IsList
  <2>3. IsFiniteSet(1..top) /\ Cardinality(1..top) = top
    BY <2>2, UpToIsFinite
  <2>4. QED
    BY <2>1, <2>2, <2>3
<1>2. places = {<<1, k>> : k \in kept}
  <2>1. {q \in DOMAIN pages : pages[q] # None} = {1}
    BY <1>1
  <2>2. QED
    BY <2>1 DEF RecordPlaces
<1>3. /\ count = Cardinality(places) /\ count \in Nat
      /\ Lines(pages) = [n \in 1..count |-> pages[Place(places, n)[1]][Place(places, n)[2]]]
  BY LinesAreRecords, PlacesAreFinite
<1> HIDE DEF places, count
<1>4. ASSUME NEW S \in SUBSET (1..top)
      PROVE  IsFiniteSet(S) /\ Cardinality({<<1, k>> : k \in S}) = Cardinality(S)
  <2>1. IsFiniteSet(S)
    BY <1>1, FS_Subset
  <2>2. [k \in S |-> <<1, k>>] \in Bijection(S, {<<1, k>> : k \in S})
    BY DEF Bijection, Injection, IsInjective, Surjection
  <2>3. QED
    BY <2>1, <2>2, FS_Bijection DEF ExistsBijection
<1>5. count = Cardinality(kept) /\ IsFiniteSet(kept)
  BY <1>1, <1>2, <1>3, <1>4
<1>6. count <= top /\ (count = top => kept = 1..top)
  BY <1>1, <1>5, FS_Subset
<1>7. (\A l \in DOMAIN pages[1] : pages[1][l] # None) <=> kept = 1..top
  BY <1>1
<1>8. (kept = 1..top) <=> top <= count
  <2>1. top \in Nat /\ count \in Nat /\ (kept = 1..top => count = top)
    BY <1>1, <1>3, <1>5
  <2> HIDE DEF kept, top
  <2>2. QED
    BY <1>6, <2>1
<1>9. ASSUME kept = 1..top, NEW l \in 1..top
      PROVE  Lines(pages)[l] = pages[1][l]
  <2>1. count = top
    BY <1>1, <1>5, <1>9
  <2> DEFINE a == Place(places, l)
  <2>2. a \in places /\ Cardinality(UpTo(places, a)) = l
    BY <1>3, <2>1, PlacesAreFinite, PlacesAreNumbered DEF places
  <2> HIDE DEF a
  <2>3. PICK k \in 1..top : a = <<1, k>>
    BY <1>2, <1>9, <2>2
  <2>4. UpTo(places, a) = {<<1, m>> : m \in 1..k}
    <3>1. k \in Nat /\ \A m \in 1..top : m <= k <=> m \in 1..k
      BY <1>1
    <3>2. UpTo(places, a) = {<<1, m>> : m \in {j \in 1..top : j <= k}}
      BY <1>2, <1>9, <2>3 DEF UpTo
    <3>3. {j \in 1..top : j <= k} = 1..k
      BY <1>1, <3>1
    <3>4. QED
      BY <3>2, <3>3
  <2>5. Cardinality(UpTo(places, a)) = k
    <3>1. k \in Nat /\ 1..k \subseteq 1..top
      BY <1>1
    <3>2. Cardinality(1..k) = k
      BY <3>1, FS_Interval
    <3>3. QED
      BY <1>4, <2>4, <3>1, <3>2
  <2>6. Lines(pages)[l] = pages[a[1]][a[2]]
    BY <1>3, <2>1 DEF a
  <2>7. QED
    BY <2>2, <2>3, <2>5, <2>6
<1>10. top <= count => count = top /\ \A l \in 1..top : Lines(pages)[l] = pages[1][l]
  <2>1. top \in Nat /\ count \in Nat
    BY <1>1, <1>3
  <2>2. kept = 1..top => \A l \in 1..top : Lines(pages)[l] = pages[1][l]
    BY <1>9
  <2> HIDE DEF kept, top
  <2>3. QED
    BY <1>6, <1>8, <2>1, <2>2
<1>11. QED
  BY <1>1, <1>7, <1>8, <1>10 DEF count

-----------------------------------------------------------------------------
(* The rows of a file are those of its lines.                              *)

PagesOf(f) == Contents[f].pages
LineOf(f, i) == IF Contents[f].format = "PDF" THEN Tabular(Lines(PagesOf(f))[i]) ELSE Lines(PagesOf(f))[i]

LEMMA FilesHavePages ==
  ASSUME NEW f \in Files
  PROVE  /\ IsPages(PagesOf(f))
         /\ Contents[f].format \in {"JSON", "CSV"} => Len(PagesOf(f)) = 1 /\ PagesOf(f)[1] # None
         /\ Contents[f].format = "CSV" => \A l \in DOMAIN PagesOf(f)[1] : PagesOf(f)[1][l] # None
         /\ Len(Lines(PagesOf(f))) \in Nat /\ DOMAIN Lines(PagesOf(f)) = 1..Len(Lines(PagesOf(f)))
<1>1. IsFile(Contents[f])
  BY ContentsAssumption
<1>2. IsPages(PagesOf(f))
  BY <1>1 DEF IsPages, IsFile, PagesOf
<1>3. QED
  BY <1>1, <1>2, LinesAreRecords, PlacesAreFinite DEF IsFile, PagesOf

LEMMA ReportHas ==
  ASSUME NEW rows, NEW incomplete \in BOOLEAN
  PROVE  /\ Report(rows, incomplete).rows = rows
         /\ ~Report(rows, incomplete).incomplete => ~incomplete
BY DEF Report

LEMMA LeastOfTwo ==
  ASSUME NEW m \in Nat, NEW n \in Nat
  PROVE  Min({m, n}) \in Nat /\ (~(m >= n) => Min({m, n}) = m)
<1>1. PICK x \in {m, n} : \A y \in {m, n} : x <= y
  <2>1. CASE m <= n
    BY <2>1
  <2>2. CASE n <= m
    BY <2>2
  <2>3. QED
    BY <2>1, <2>2
<1>2. Min({m, n}) \in {m, n} /\ \A y \in {m, n} : Min({m, n}) <= y
  BY <1>1 DEF Min
<1>3. QED
  BY <1>2

LEMMA RowsOfFile ==
  ASSUME NEW f \in Files, Reports[f] # None
  PROVE  \E count \in Nat, review \in BOOLEAN :
            /\ Rows[f] = [i \in 1..count |-> Row(LineOf(f, i), review)]
            /\ ~Reports[f].incomplete =>
                  /\ count = Len(Lines(PagesOf(f)))
                  /\ Contents[f].format \in {"JSON", "CSV"} => Len(PagesOf(f)[1]) <= count
                  /\ Contents[f].format = "PDF" => None \notin ToSet(PagesOf(f))
                  /\ Contents[f].format \in {"JSON", "CSV", "PDF"}
<1> DEFINE pages == PagesOf(f)
           lines == Lines(pages)
           top == Len(lines)
           file == Contents[f]
<1>1. top \in Nat /\ DOMAIN lines = 1..top
  BY FilesHavePages
<1>2. Rows[f] = Reports[f].rows /\ Reports[f] = ReportOf(file) /\ ReportOf(file) # None
  BY DEF Rows, Reports
<1>3. file.format \in {"JSON", "CSV", "PDF"}
  BY <1>2 DEF ReportOf
<1>4. CASE file.format = "JSON"
  <2>1. Reports[f] = JsonReport(pages) /\ JsonReport(pages) # None
    BY <1>2, <1>4 DEF ReportOf, PagesOf
  <2>2. Reports[f] = Report([i \in DOMAIN lines |-> Row(lines[i], FALSE)], Len(lines) < Len(pages[1]))
    BY <2>1 DEF JsonReport
  <2>3. Len(pages[1]) \in Nat
    <3>1. IsPages(pages) /\ Len(pages) = 1 /\ pages[1] # None
      BY <1>4, FilesHavePages
    <3>2. 1 \in DOMAIN pages
      BY <3>1 DEF IsPages, IsList
    <3>3. QED
      BY <3>1, <3>2 DEF IsPages, IsList
  <2> DEFINE short == Len(lines) < Len(pages[1])
  <2>4. short \in BOOLEAN /\ (~short => Len(pages[1]) <= top)
    BY <1>1, <2>3
  <2> DEFINE all == [i \in DOMAIN lines |-> Row(lines[i], FALSE)]
  <2>5. Rows[f] = all /\ (~Reports[f].incomplete => ~short)
    <3> HIDE DEF short, all
    <3>1. Reports[f] = Report(all, short)
      BY <2>2 DEF short, all
    <3>2. QED
      BY <1>2, <2>4, <3>1, ReportHas
  <2> HIDE DEF short
  <2>6. Rows[f] = [i \in 1..top |-> Row(LineOf(f, i), FALSE)]
    BY <1>1, <1>4, <2>5 DEF LineOf
  <2>7. QED
    BY <1>1, <1>4, <2>4, <2>5, <2>6
<1>5. CASE file.format = "CSV"
  <2>1. Reports[f] = CsvReport(pages) /\ CsvReport(pages) # None
    BY <1>2, <1>5 DEF ReportOf, PagesOf
  <2>2. Reports[f] = Report([i \in DOMAIN lines |-> Row(lines[i], FALSE)], FALSE)
    BY <2>1 DEF CsvReport
  <2>3. Rows[f] = [i \in 1..top |-> Row(lines[i], FALSE)]
    BY <1>1, <1>2, <2>2, ReportHas
  <2>4. Rows[f] = [i \in 1..top |-> Row(LineOf(f, i), FALSE)]
    BY <1>5, <2>3 DEF LineOf
  <2>5. Len(pages[1]) <= top
    BY <1>5, FilesHavePages, OnePage
  <2>6. QED
    BY <1>1, <1>5, <2>4, <2>5
<1>6. CASE file.format = "PDF"
  <2> DEFINE count == Min({top, MaxRecords})
  <2>1. Reports[f] = PdfReport(pages)
    BY <1>2, <1>6 DEF ReportOf, PagesOf
  <2>2. Reports[f] = Report([i \in 1..count |-> Row(Tabular(lines[i]), TRUE)],
                            None \in ToSet(pages) \/ Len(lines) >= MaxRecords)
    BY <2>1 DEF PdfReport
  <2>3. /\ Rows[f] = [i \in 1..count |-> Row(Tabular(lines[i]), TRUE)]
        /\ ~Reports[f].incomplete => None \notin ToSet(pages) /\ ~(top >= MaxRecords)
    BY <1>2, <2>2, ReportHas
  <2>4. count \in Nat /\ (~(top >= MaxRecords) => count = top)
    BY <1>1, MaxRecordsAssumption, LeastOfTwo
  <2> HIDE DEF count
  <2>5. Rows[f] = [i \in 1..count |-> Row(LineOf(f, i), TRUE)]
    BY <1>6, <2>3 DEF LineOf
  <2>6. QED
    BY <1>6, <2>3, <2>4, <2>5
<1>7. QED
  BY <1>3, <1>4, <1>5, <1>6

LEMMA RowsAreListed ==
  ASSUME NEW f \in Files
  PROVE  /\ Len(Rows[f]) \in Nat /\ DOMAIN Rows[f] = 1..Len(Rows[f])
         /\ \A i \in DOMAIN Rows[f] : Rows[f][i].number \in 1..99
<1>1. CASE Reports[f] = None
  <2>1. Rows[f] = <<>>
    BY <1>1 DEF Rows
  <2>2. QED
    BY <2>1
<1>2. CASE Reports[f] # None
  <2>1. PICK count \in Nat, review \in BOOLEAN : Rows[f] = [i \in 1..count |-> Row(LineOf(f, i), review)]
    BY <1>2, RowsOfFile
  <2>2. Len(Rows[f]) = count /\ DOMAIN Rows[f] = 1..count
    BY <2>1
  <2>3. ASSUME NEW i \in 1..count PROVE Rows[f][i].number \in 1..99
    <3>1. Rows[f][i] = Row(LineOf(f, i), review)
      BY <2>1
    <3>2. QED
      BY <3>1, NumberIsInRange
  <2>4. QED
    BY <2>2, <2>3
<1>3. QED
  BY <1>1, <1>2

\* Of a file that is read completely no record is left out, and a row without errors
\* states what its record does.
LEMMA ReadAsStated ==
  ASSUME NEW f \in Files, Reports[f] # None, ~Reports[f].incomplete
  PROVE  /\ \A p \in DOMAIN Contents[f].pages : Contents[f].pages[p] # None
         /\ \A i \in DOMAIN Records(f) : Records(f)[i] # None
         /\ Len(Rows[f]) = Len(Records(f))
         /\ \A i \in DOMAIN Rows[f] : Rows[f][i].errors = {} =>
               LET line == Records(f)[i]
                   credits == IF "credits_earned" \in DOMAIN line THEN "credits_earned" ELSE "credits"
               IN  /\ Rows[f][i].status = line["status"]
                   /\ credits \in DOMAIN line /\ (Contents[f].format = "PDF" => credits # "credits") =>
                          Rows[f][i].credits = line[credits]
<1> DEFINE pages == PagesOf(f)
           lines == Lines(pages)
<1>1. PICK count \in Nat, review \in BOOLEAN :
         /\ Rows[f] = [i \in 1..count |-> Row(LineOf(f, i), review)]
         /\ count = Len(lines)
         /\ Contents[f].format \in {"JSON", "CSV"} => Len(pages[1]) <= count
         /\ Contents[f].format = "PDF" => None \notin ToSet(pages)
         /\ Contents[f].format \in {"JSON", "CSV", "PDF"}
  BY RowsOfFile
<1>2. Len(Rows[f]) = Len(lines) /\ DOMAIN Rows[f] = 1..count /\ IsPages(pages)
  BY <1>1, FilesHavePages
<1>3. /\ \A p \in DOMAIN pages : pages[p] # None
      /\ \A i \in DOMAIN Records(f) : Records(f)[i] # None
      /\ Len(Records(f)) = Len(lines)
      /\ \A i \in 1..count : Records(f)[i] = lines[i]
  <2>1. CASE Contents[f].format = "PDF"
    <3>1. Records(f) = lines
      BY <2>1 DEF Records, PagesOf
    <3>2. \A p \in DOMAIN pages : pages[p] # None
      BY <1>1, <2>1 DEF ToSet
    <3>3. \A i \in DOMAIN lines : lines[i] # None
      BY <1>2, LinesAreRecords
    <3>4. QED
      BY <3>1, <3>2, <3>3
  <2>2. CASE Contents[f].format \in {"JSON", "CSV"}
    <3>1. Records(f) = pages[1]
      BY <2>2 DEF Records, PagesOf
    <3>2. Len(pages) = 1 /\ pages[1] # None /\ IsList(pages) /\ IsList(pages[1])
      <4>1. Len(pages) = 1 /\ pages[1] # None /\ IsList(pages)
        BY <1>2, <2>2, FilesHavePages DEF IsPages
      <4>2. 1 \in DOMAIN pages
        BY <4>1 DEF IsList
      <4>3. QED
        BY <1>2, <4>1, <4>2 DEF IsPages
    <3>3. /\ \A l \in DOMAIN pages[1] : pages[1][l] # None
          /\ Len(lines) = Len(pages[1])
          /\ \A l \in DOMAIN pages[1] : lines[l] = pages[1][l]
      BY <1>1, <1>2, <2>2, <3>2, OnePage
    <3>4. DOMAIN pages[1] = 1..count /\ DOMAIN pages = {1}
      BY <1>1, <3>2, <3>3 DEF IsList
    <3>5. QED
      BY <3>1, <3>2, <3>3, <3>4
  <2>3. QED
    BY <1>1, <2>1, <2>2
<1>4. ASSUME NEW i \in 1..count, Rows[f][i].errors = {}
      PROVE  LET line == Records(f)[i]
                 credits == IF "credits_earned" \in DOMAIN line THEN "credits_earned" ELSE "credits"
             IN  /\ Rows[f][i].status = line["status"]
                 /\ credits \in DOMAIN line /\ (Contents[f].format = "PDF" => credits # "credits") =>
                        Rows[f][i].credits = line[credits]
  <2> DEFINE line == Records(f)[i]
             read == LineOf(f, i)
  <2>1. Rows[f][i] = Row(read, review)
    BY <1>1
  <2>2. /\ "status" \in DOMAIN read /\ Rows[f][i].status = read["status"]
        /\ Rows[f][i].credits = IF "credits_earned" \in DOMAIN read THEN read["credits_earned"]
                                ELSE IF "credits" \in DOMAIN read THEN read["credits"] ELSE None
    BY <1>4, <2>1, SoundRow
  <2>3. CASE Contents[f].format = "PDF"
    <3>1. read = Tabular(line)
      BY <1>3, <2>3 DEF LineOf
    <3>2. DOMAIN read = {"course_code", "term_code", "status", "grade", "credits_earned"} \cap DOMAIN line
      BY <3>1 DEF Tabular
    <3>3. \A name \in DOMAIN read : read[name] = line[name]
      BY <3>1, <3>2 DEF Tabular
    <3> HIDE DEF line, read
    <3>4. QED
      BY <2>2, <2>3, <3>2, <3>3 DEF line
  <2>4. CASE Contents[f].format # "PDF"
    <3>1. read = line
      BY <1>3, <2>4 DEF LineOf
    <3> HIDE DEF read
    <3>2. QED
      BY <2>2, <2>4, <3>1
  <2>5. QED
    BY <2>3, <2>4
<1>5. QED
  BY <1>2, <1>3, <1>4 DEF PagesOf

-----------------------------------------------------------------------------
(* The attempts a confirmation inserts.                                    *)

\* A batch accepts a row only with a course, in a term there is.
BatchesKnown ==
    \A f \in Files : batches[f] # None =>
        \A i \in Accepted(f) : batches[f].rows[i].course \in Courses /\ Rows[f][i].term \in Terms

IsRun(f, upTo, n) ==
    upTo = [m \in 0..n |-> IF m = 0 THEN <<>> ELSE WithRow(f, m, upTo[m - 1])]

\* The function that is defined by recursion exists.
LEMMA RunExists ==
  ASSUME NEW f, NEW top \in Nat
  PROVE  \E upTo : IsRun(f, upTo, top)
<1> DEFINE bad == {n \in Nat : ~\E upTo : IsRun(f, upTo, n)}
<1>1. SUFFICES ASSUME bad # {} PROVE FALSE
  OBVIOUS
<1>2. PICK least \in bad : \A m \in bad : least <= m
  BY <1>1, LeastExists
<1>3. CASE least = 0
  <2> DEFINE none == [m \in 0..0 |-> <<>>]
  <2>1. \A m \in 0..0 : m = 0
    OBVIOUS
  <2>2. IsRun(f, none, 0)
    BY <2>1 DEF IsRun
  <2>3. QED
    BY <1>2, <1>3, <2>2
<1>4. CASE least # 0
  <2>1. least \in Nat /\ least - 1 \in Nat /\ least - 1 \notin bad
    BY <1>2, <1>4
  <2>2. PICK upTo : IsRun(f, upTo, least - 1)
    BY <2>1
  <2> DEFINE longer == [m \in 0..least |-> IF m = least THEN WithRow(f, least, upTo[least - 1]) ELSE upTo[m]]
  <2>3. \A m \in 0..(least - 1) : longer[m] = upTo[m]
    BY <2>1
  <2>4. ASSUME NEW m \in 0..least
        PROVE  longer[m] = IF m = 0 THEN <<>> ELSE WithRow(f, m, longer[m - 1])
    <3>1. CASE m = least
      <4>1. longer[m] = WithRow(f, m, upTo[m - 1]) /\ longer[m - 1] = upTo[m - 1] /\ m # 0
        BY <2>1, <2>3, <3>1, <1>4
      <4>2. QED
        BY <4>1
    <3>2. CASE m # least
      <4>1. m \in 0..(least - 1) /\ longer[m] = upTo[m]
        BY <2>1, <3>2
      <4>2. upTo[m] = IF m = 0 THEN <<>> ELSE WithRow(f, m, upTo[m - 1])
        BY <2>2, <4>1 DEF IsRun
      <4>3. m # 0 => longer[m - 1] = upTo[m - 1]
        BY <2>1, <2>3, <4>1
      <4>4. QED
        BY <4>1, <4>2, <4>3
    <3>3. QED
      BY <3>1, <3>2
  <2>5. IsRun(f, longer, least)
    BY <2>4 DEF IsRun
  <2>6. QED
    BY <1>2, <2>5
<1>5. QED
  BY <1>3, <1>4

LEMMA ImportedIsRun ==
  ASSUME NEW f \in Files
  PROVE  \E upTo : IsRun(f, upTo, Len(Rows[f])) /\ Imported(f) = upTo[Len(Rows[f])]
<1> DEFINE chosen == CHOOSE upTo : IsRun(f, upTo, Len(Rows[f]))
<1>1. Len(Rows[f]) \in Nat
  BY RowsAreListed
<1>2. IsRun(f, chosen, Len(Rows[f]))
  BY <1>1, RunExists
<1>3. Imported(f) = chosen[Len(Rows[f])]
  BY DEF Imported, IsRun
<1>4. QED
  BY <1>2, <1>3

\* What a transaction has inserted of the first n rows of a file: new attempts that
\* differ in their numbers, one for each row that is accepted.
Inserted(f, n, writes) ==
    /\ DOMAIN writes \subseteq Ids \ Taken
    /\ writes \in [DOMAIN writes -> AttemptRow]
    /\ \A i \in DOMAIN writes :
          LET k == writes[i].row
          IN  /\ writes[i].file = f /\ k \in Accepted(f) /\ k <= n
              /\ writes[i].course = batches[f].rows[k].course /\ writes[i].term = Rows[f][k].term
    /\ \A k \in Accepted(f) : k <= n => \E i \in DOMAIN writes : writes[i].row = k
    /\ \A i, j \in DOMAIN writes : writes[i].row = writes[j].row => i = j
    /\ \A i \in DOMAIN writes : \A j \in Ids \ {i} :
          LET other == Overlay(writes)[j]
          IN  other # None /\ other.course = writes[i].course => other.number # writes[i].number
    /\ Cardinality(DOMAIN writes) <= Cardinality({k \in Accepted(f) : k <= n})

LEMMA AttemptIsRow ==
  ASSUME NEW course \in Courses, NEW term \in Terms, NEW number \in Nat, NEW status \in Statuses
  PROVE  Attempt(course, term, number, status) \in AttemptRow
<1>1. Earned(course, status) \in Nat \cup {None}
  BY InputAssumption DEF Earned
<1>2. QED
  BY <1>1 DEF Attempt, AttemptRow

LEMMA AcceptedIsFinite ==
  ASSUME NEW f \in Files, NEW n \in Nat
  PROVE  /\ Accepted(f) \subseteq 1..Len(Rows[f]) /\ IsFiniteSet(Accepted(f))
         /\ IsFiniteSet({k \in Accepted(f) : k <= n})
<1>1. Accepted(f) \subseteq 1..Len(Rows[f]) /\ Len(Rows[f]) \in Nat
  BY RowsAreListed DEF Accepted
<1>2. IsFiniteSet(1..Len(Rows[f]))
  BY <1>1, FS_Interval
<1>3. {k \in Accepted(f) : k <= n} \subseteq 1..Len(Rows[f])
  BY <1>1
<1>4. QED
  BY <1>1, <1>2, <1>3, FS_Subset

\* There is room for one more attempt as long as a row is left.
LEMMA FreshIsFree ==
  ASSUME NEW writes, DOMAIN writes \subseteq Ids \ Taken, DOMAIN writes # Ids \ Taken
  PROVE  Fresh(writes) \in Ids \ (Taken \cup DOMAIN writes)
<1> DEFINE free == Ids \ (Taken \cup DOMAIN writes)
<1>1. free # {} /\ free \subseteq Nat
  BY IdsAreFinite
<1>2. \E i \in free : \A j \in free : i <= j
  BY <1>1, LeastExists
<1>3. QED
  BY <1>2 DEF Fresh

LEMMA RowIsInserted ==
  ASSUME TypeOK, BatchesKnown, NEW f \in Files, batches[f] # None,
         Room(Cardinality(Accepted(f))),
         NEW n \in 1..Len(Rows[f]), NEW before, Inserted(f, n - 1, before)
  PROVE  Inserted(f, n, WithRow(f, n, before))
<1>1. n \in Nat /\ n - 1 \in Nat
  BY RowsAreListed
<1>2. Accepted(f) \subseteq Nat /\ IsFiniteSet({k \in Accepted(f) : k <= n - 1}) /\ IsFiniteSet(Accepted(f))
  <2>1. Accepted(f) \subseteq 1..Len(Rows[f]) /\ IsFiniteSet(Accepted(f))
    BY <1>1, AcceptedIsFinite
  <2>2. IsFiniteSet({k \in Accepted(f) : k <= n - 1})
    BY <1>1, AcceptedIsFinite, Zenon
  <2>3. QED
    BY <2>1, <2>2, RowsAreListed
<1>3. CASE n \notin Accepted(f)
  <2>1. WithRow(f, n, before) = before
    BY <1>3 DEF WithRow
  <2>2. \A k \in Accepted(f) : k <= n <=> k <= n - 1
    BY <1>1, <1>2, <1>3
  <2>3. {k \in Accepted(f) : k <= n} = {k \in Accepted(f) : k <= n - 1}
    BY <2>2
  <2>4. QED
    BY ZenonT(60), <2>1, <2>2, <2>3 DEF Inserted
<1>4. CASE n \in Accepted(f)
  <2> DEFINE i0 == Fresh(before)
             row == batches[f].rows[n]
             number == NextNumber(Overlay(before), row.course, Rows[f][n].number)
             new == [Attempt(row.course, Rows[f][n].term, number, Rows[f][n].status)
                     EXCEPT !.file = f, !.row = n]
             writes == WithRow(f, n, before)
             D == DOMAIN before
  <2>1. i0 \in Ids \ (Taken \cup D)
    <3>1. {k \in Accepted(f) : k <= n - 1} # Accepted(f)
      BY <1>1, <1>4
    <3>2. Cardinality({k \in Accepted(f) : k <= n - 1}) < Cardinality(Accepted(f))
      <4> HIDE DEF i0, row, number, new, writes, D
      <4>1. {k \in Accepted(f) : k <= n - 1} \subseteq Accepted(f)
        OBVIOUS
      <4>2. QED
        BY <1>2, <3>1, <4>1, FS_Subset, FS_CardinalityType
    <3>3. /\ D \subseteq Ids \ Taken
          /\ Cardinality(D) <= Cardinality({k \in Accepted(f) : k <= n - 1})
      BY Zenon DEF Inserted
    <3>4. D # Ids \ Taken
      <4>1. Cardinality(D) \in Nat /\ Cardinality(Ids \ Taken) \in Nat
        BY <3>3, IdsAreFinite, FS_Subset, FS_CardinalityType
      <4>2. Cardinality(D) < Cardinality(Ids \ Taken)
        BY <1>2, <3>2, <3>3, <4>1, FS_CardinalityType DEF Room
      <4>3. QED
        BY <4>1, <4>2
    <3>5. QED
      BY <3>3, <3>4, FreshIsFree
  <2>2. writes = [i \in D \cup {i0} |-> IF i = i0 THEN new ELSE before[i]]
    BY <1>4 DEF WithRow, Adding
  <2>3. /\ row.course \in Courses /\ Rows[f][n].term \in Terms
        /\ Rows[f][n].number \in Nat /\ Rows[f][n].status \in Statuses
    <3>1. n \in DOMAIN Rows[f]
      BY RowsAreListed
    <3>2. row.course \in Courses /\ Rows[f][n].term \in Terms
      BY <1>4 DEF BatchesKnown
    <3>3. Rows[f][n].number \in Nat
      <4>1. Rows[f][n].number \in 1..99
        BY <3>1, RowsAreListed
      <4>2. \A m \in 1..99 : m \in Nat
        OBVIOUS
      <4>3. QED
        BY <4>1, <4>2
    <3>4. Rows[f][n].status \in Statuses
      BY <3>1 DEF Statuses
    <3>5. QED
      BY <3>2, <3>3, <3>4
  <2>4. attempts[i0] = None /\ \A j \in Ids : attempts[j] # None => attempts[j] \in AttemptRow
    BY <2>1 DEF TypeOK, Taken, Created
  <2>5. /\ number \in Nat
        /\ \A j \in Ids : Overlay(before)[j] # None /\ Overlay(before)[j].course = row.course
                             => Overlay(before)[j].number # number
    <3>1. \A j \in Ids : Overlay(before)[j] # None => Overlay(before)[j] \in AttemptRow
      BY <2>4 DEF Overlay, Inserted
    <3>2. \A j \in Ids : Overlay(before)[j] # None => Overlay(before)[j].number \in Nat
      BY <3>1 DEF AttemptRow
    <3>3. QED
      BY <2>3, <3>2, NextNumberIsUnused
  <2>6. /\ new \in AttemptRow /\ new.file = f /\ new.row = n /\ new.course = row.course
        /\ new.term = Rows[f][n].term /\ new.number = number
    <3>1. Attempt(row.course, Rows[f][n].term, number, Rows[f][n].status) \in AttemptRow
      BY <2>3, <2>5, AttemptIsRow
    <3>2. QED
      BY <1>1, <3>1 DEF Attempt, AttemptRow
  <2> HIDE DEF i0, row, number, new, writes
  <2>7. i0 \notin D /\ DOMAIN writes = D \cup {i0} /\ writes[i0] = new /\ \A i \in D : writes[i] = before[i]
    BY <2>1, <2>2
  <2>8. /\ D \subseteq Ids \ Taken /\ \A i \in D : before[i] \in AttemptRow
        /\ \A i \in D : before[i].row \in Nat /\ before[i].row <= n - 1
    <3>1. D \subseteq Ids \ Taken /\ \A i \in D : before[i] \in AttemptRow
      BY DEF Inserted
    <3>2. \A i \in D : before[i].row <= n - 1
      BY DEF Inserted
    <3>3. QED
      BY <3>1, <3>2 DEF AttemptRow
  <2>9. DOMAIN writes \subseteq Ids \ Taken /\ writes \in [DOMAIN writes -> AttemptRow]
    BY <2>1, <2>2, <2>6, <2>8
  <2>10. ASSUME NEW i \in DOMAIN writes
         PROVE  LET k == writes[i].row
                IN  /\ writes[i].file = f /\ k \in Accepted(f) /\ k <= n
                    /\ writes[i].course = batches[f].rows[k].course /\ writes[i].term = Rows[f][k].term
    <3>1. CASE i = i0
      BY <1>1, <1>4, <2>6, <2>7, <3>1 DEF row
    <3>2. CASE i \in D
      <4>1. LET k == before[i].row
            IN  /\ before[i].file = f /\ k \in Accepted(f)
                /\ before[i].course = batches[f].rows[k].course /\ before[i].term = Rows[f][k].term
        BY <3>2 DEF Inserted
      <4>2. before[i].row <= n
        BY <1>1, <2>8, <3>2
      <4>3. QED
        BY <2>7, <3>2, <4>1, <4>2
    <3>3. QED
      BY <2>7, <3>1, <3>2
  <2>11. ASSUME NEW k \in Accepted(f), k <= n PROVE \E i \in DOMAIN writes : writes[i].row = k
    <3>1. CASE k = n
      BY <2>6, <2>7, <3>1
    <3>2. CASE k # n
      <4>1. k <= n - 1
        BY <1>1, <1>2, <2>11, <3>2
      <4>2. PICK i \in D : before[i].row = k
        BY <4>1 DEF Inserted
      <4>3. QED
        BY <2>7, <4>2
    <3>3. QED
      BY <3>1, <3>2
  <2>12. ASSUME NEW i \in DOMAIN writes, NEW j \in DOMAIN writes, writes[i].row = writes[j].row
         PROVE  i = j
    <3>1. \A l \in D : writes[l].row # writes[i0].row
      BY <1>1, <2>6, <2>7, <2>8
    <3>2. CASE i \in D /\ j \in D
      BY <2>7, <2>12, <3>2 DEF Inserted
    <3>3. QED
      BY <2>7, <2>12, <3>1, <3>2
  <2>13. ASSUME NEW i \in DOMAIN writes, NEW j \in Ids \ {i},
                Overlay(writes)[j] # None, Overlay(writes)[j].course = writes[i].course
         PROVE  Overlay(writes)[j].number # writes[i].number
    <3>1. \A l \in Ids : Overlay(writes)[l] = IF l = i0 THEN new ELSE Overlay(before)[l]
      BY <2>7 DEF Overlay
    <3>2. \A l \in D : l \in Ids /\ Overlay(before)[l] = before[l] /\ before[l] # None
      BY <2>8, RowAssumption DEF Overlay
    <3>3. CASE i = i0
      BY <2>5, <2>6, <2>7, <2>13, <3>1, <3>3
    <3>4. CASE i \in D /\ j = i0
      <4>1. before[i].course = row.course => before[i].number # number
        BY <2>5, <3>2, <3>4
      <4>2. Overlay(writes)[j] = new /\ writes[i] = before[i]
        BY <2>7, <3>1, <3>4
      <4>3. QED
        BY <2>6, <2>13, <4>1, <4>2
    <3>5. CASE i \in D /\ j # i0
      <4>1. Overlay(before)[j] # None /\ Overlay(before)[j].course = before[i].course
                => Overlay(before)[j].number # before[i].number
        BY <3>5 DEF Inserted
      <4>2. QED
        BY <2>7, <2>13, <3>1, <3>5, <4>1
    <3>6. QED
      BY <2>7, <3>3, <3>4, <3>5
  <2>14. Cardinality(DOMAIN writes) <= Cardinality({k \in Accepted(f) : k <= n})
    <3>1. {k \in Accepted(f) : k <= n} = {k \in Accepted(f) : k <= n - 1} \cup {n}
      BY <1>1, <1>2, <1>4
    <3>2. n \notin {k \in Accepted(f) : k <= n - 1}
      BY <1>1
    <3>3. Cardinality({k \in Accepted(f) : k <= n}) = Cardinality({k \in Accepted(f) : k <= n - 1}) + 1
      BY <1>2, <3>1, <3>2, FS_AddElement
    <3>4. IsFiniteSet(D)
      BY <2>8, IdsAreFinite, FS_Subset
    <3>5. Cardinality(DOMAIN writes) = Cardinality(D) + 1
      BY <2>7, <3>4, FS_AddElement
    <3>6. Cardinality(D) <= Cardinality({k \in Accepted(f) : k <= n - 1})
      BY Zenon DEF Inserted
    <3>7. QED
      BY <1>2, <3>3, <3>4, <3>5, <3>6, FS_CardinalityType
  <2>15. QED
    BY <2>9, <2>10, <2>11, <2>12, <2>13, <2>14 DEF Inserted, writes
<1>5. QED
  BY <1>3, <1>4

LEMMA NothingInserted ==
  ASSUME NEW f \in Files
  PROVE  Inserted(f, 0, <<>>)
<1>1. DOMAIN <<>> = {} /\ <<>> \in [{} -> AttemptRow]
  OBVIOUS
<1>2. \A k \in Accepted(f) : ~(k <= 0)
  <2>1. Accepted(f) \subseteq 1..Len(Rows[f]) /\ Len(Rows[f]) \in Nat
    BY RowsAreListed DEF Accepted
  <2>2. QED
    BY <2>1
<1>3. {k \in Accepted(f) : k <= 0} = {}
  BY <1>2
<1>4. QED
  BY <1>1, <1>2, <1>3, FS_EmptySet DEF Inserted

LEMMA ImportIsInserted ==
  ASSUME TypeOK, BatchesKnown, NEW f \in Files, batches[f] # None,
         Room(Cardinality(Accepted(f)))
  PROVE  Inserted(f, Len(Rows[f]), Imported(f))
<1> DEFINE top == Len(Rows[f])
<1>1. top \in Nat
  BY RowsAreListed
<1>2. PICK upTo : IsRun(f, upTo, top) /\ Imported(f) = upTo[top]
  BY ImportedIsRun
<1> DEFINE bad == {n \in 0..top : ~Inserted(f, n, upTo[n])}
<1>3. SUFFICES ASSUME bad # {} PROVE FALSE
  BY <1>1, <1>2
<1>4. PICK least \in bad : \A m \in bad : least <= m
  <2>1. bad \subseteq Nat
    BY <1>1
  <2>2. QED
    BY <1>3, <2>1, LeastExists
<1>5. upTo[least] = IF least = 0 THEN <<>> ELSE WithRow(f, least, upTo[least - 1])
  BY <1>1, <1>2 DEF IsRun
<1>6. CASE least = 0
  BY <1>4, <1>5, <1>6, NothingInserted
<1>7. CASE least # 0
  <2>1. least \in 1..top /\ least - 1 \in 0..top /\ least - 1 \notin bad
    BY <1>1, <1>4, <1>7
  <2>2. Inserted(f, least - 1, upTo[least - 1])
    BY <2>1
  <2>3. Inserted(f, least, upTo[least])
    BY <1>5, <1>7, <2>1, <2>2, RowIsInserted
  <2>4. QED
    BY <1>4, <2>3
<1>8. QED
  BY <1>6, <1>7

-----------------------------------------------------------------------------
(* The inductive invariant.                                                *)

\* A row is locked by one transaction.
Exclusive == \A c, d \in Clients : c # d => tx[c].held \cap tx[d].held = {}

\* What a client has read.  A preview with the version of the batch has its rows: a
\* decision in between, or between the batch and its candidates, moves the version on.
Views ==
    \A c \in Clients :
        LET f == view[c].of IN
        /\ pc[c] = "attempt" => f \in Created
        /\ pc[c] \in {"batch", "preview"} =>
              f \in Files /\ batches[f] # None /\ view[c].version <= batches[f].version
        /\ pc[c] = "preview" =>
              /\ DOMAIN view[c].rows = DOMAIN Rows[f]
              /\ view[c].version = batches[f].version => view[c].rows = batches[f].rows

\* A command and the locks it has or still asks for.
Command(c) ==
    LET t == tx[c]
        row == attempts[t.id]
    IN
    /\ t.kind \in {"create", "update", "annul"} => t.target \in AttemptRow
    /\ t.kind = "create" => t.target.file = None
    /\ t.kind \in {"create", "update"} =>
          PairLocks(t.target.course, t.target.term) \subseteq t.held \cup t.todo
    /\ t.kind \in {"update", "annul"} =>
          /\ t.id \in Created /\ <<"attempt", t.id>> \in t.held
          /\ t.target.number = row.number /\ t.target.file = row.file /\ t.target.row = row.row
    /\ t.kind = "annul" => t.target.course = row.course
    /\ t.kind = "confirm" =>
          /\ t.id \in Files /\ <<"batch", t.id>> \in t.held
          /\ batches[t.id] # None /\ batches[t.id].status = "PREVIEW"
          /\ view[c].rows = batches[t.id].rows
          /\ ConfirmLocks(t.id) \subseteq t.held \cup t.todo
Commands ==
    \A c \in Clients :
        /\ Command(c)
        /\ pc[c] \in {"locking", "written"} <=> tx[c].kind # "none"
        /\ pc[c] = "written" => tx[c].todo = {}

\* What a transaction has written: the row it changes, or new rows with the lock of
\* their course, in a term the course is valid in.
OwnRow(t) ==
    t.kind \in {"update", "annul"} =>
        \A i \in DOMAIN t.writes : i = t.id /\ t.writes[i] = t.target
NewRows(t) ==
    t.kind \in {"create", "confirm"} => \A i \in DOMAIN t.writes : attempts[i] = None
UnderLock(t) ==
    t.kind \in {"create", "update", "confirm"} =>
        \A i \in DOMAIN t.writes : /\ <<"course", t.writes[i].course>> \in t.held
                                   /\ <<t.writes[i].course, t.writes[i].term>> \in valid
OwnNumbers(t) ==
    t.kind \in {"create", "update", "confirm"} =>
        \A i \in DOMAIN t.writes : \A j \in Ids \ {i} :
            LET other == Overlay(t.writes)[j]
            IN  other # None /\ other.course = t.writes[i].course
                   => other.number # t.writes[i].number
ByHand(t) == t.kind = "create" => \A i \in DOMAIN t.writes : t.writes[i].file = None
ItsRows(t) ==
    t.kind = "confirm" =>
        /\ \A i \in DOMAIN t.writes : t.writes[i].file = t.id /\ t.writes[i].row \in Accepted(t.id)
        /\ \A k \in Accepted(t.id) : \E i \in DOMAIN t.writes : t.writes[i].row = k
        /\ \A i, j \in DOMAIN t.writes : t.writes[i].row = t.writes[j].row => i = j
Recognizes(t) == t.recognized = IF t.kind = "confirm" THEN Recognized(t.id) ELSE {}
SeesItAll(t) == t.alone => t.seen = Facts(Overlay(t.writes), recognitions \cup t.recognized)
Writing(t) ==
    /\ OwnRow(t) /\ NewRows(t) /\ UnderLock(t) /\ OwnNumbers(t)
    /\ ByHand(t) /\ ItsRows(t) /\ Recognizes(t) /\ SeesItAll(t)
Writings ==
    /\ \A c \in Clients : pc[c] # "written" => tx[c].writes = <<>>
    /\ \A c \in InFlight : Writing(tx[c])
    /\ \A c, d \in InFlight : c # d => DOMAIN tx[c].writes \cap DOMAIN tx[d].writes = {}

\* What is stored.
IsApplied(f) == batches[f] # None /\ batches[f].status = "APPLIED"
NumbersDiffer ==
    \A i, j \in Created : i # j /\ attempts[i].course = attempts[j].course
                              => attempts[i].number # attempts[j].number
FromApplied ==
    \A i \in Created : LET f == attempts[i].file IN
                          f # None => IsApplied(f) /\ attempts[i].row \in Accepted(f)
OncePerRow ==
    \A i, j \in Created :
        attempts[i].file \in Files \cap {attempts[j].file} /\ attempts[i].row = attempts[j].row
           => i = j
NoneLeftOut ==
    \A f \in Files : IsApplied(f) => \A k \in Accepted(f) :
        \E i \in Created : attempts[i].file = f /\ attempts[i].row = k
AllRecognized == recognitions = UNION {Recognized(f) : f \in {g \in Files : IsApplied(g)}}
Stored ==
    NumbersDiffer /\ FromApplied /\ OncePerRow /\ NoneLeftOut /\ AllRecognized /\ SerialAuditIsCurrent

IInv == TypeOK /\ BatchesKnown /\ Exclusive /\ Views /\ Commands /\ Writings /\ Stored

-----------------------------------------------------------------------------
(* Types.                                                                  *)

LEMMA EmptyRecords == NoTx \in Transaction /\ NoView \in View
<1>1. <<>> \in Uncommitted
  <2>1. <<>> \in [{} -> AttemptRow] /\ {} \in SUBSET Ids
    OBVIOUS
  <2>2. QED
    BY <2>1 DEF Uncommitted
<1>2. NoFacts \in AuditInput
  BY DEF NoFacts, AuditInput
<1>3. NoTx \in Transaction
  BY <1>1, <1>2 DEF NoTx, Transaction, Kinds
<1>4. NoView \in View
  BY DEF NoView, View
<1>5. QED
  BY <1>3, <1>4

LEMMA FactsTyped ==
  ASSUME NEW rows \in [Ids -> AttemptRow \cup {None}], NEW recognized \in SUBSET Recognition
  PROVE  Facts(rows, recognized) \in AuditInput
<1>1. ASSUME NEW i \in {j \in Ids : rows[j] # None}
      PROVE  <<i, rows[i].course, rows[i].status>> \in Ids \X Courses \X Statuses
  BY DEF AttemptRow
<1>2. QED
  BY <1>1 DEF Facts, AuditInput

LEMMA OverlayTyped ==
  ASSUME TypeOK, NEW writes \in Uncommitted
  PROVE  Overlay(writes) \in [Ids -> AttemptRow \cup {None}]
BY DEF TypeOK, Overlay, Uncommitted

LEMMA TypedInit == Init => TypeOK
<1> SUFFICES ASSUME Init PROVE TypeOK
  OBVIOUS
<1>1. NoFacts \in AuditInput
  BY DEF NoFacts, AuditInput
<1>2. tx \in [Clients -> Transaction] /\ view \in [Clients -> View]
  BY EmptyRecords DEF Init
<1>3. pc \in [Clients -> Places]
  BY DEF Init, Places
<1>4. QED
  BY <1>1, <1>2, <1>3 DEF Init, TypeOK

\* What a client reads, and the decisions it takes.
LEMMA TypedReads ==
  ASSUME TypeOK, Views, NEW c \in Clients,
         \/ \E i \in Ids : ReadAttempt(c, i)
         \/ \E f \in Files : ReadBatch(c, f)
         \/ ReadCandidates(c) \/ Leave(c)
  PROVE  TypeOK'
<1> USE DEF TypeOK
<1>1. pc' \in [Clients -> Places]
  BY DEF ReadAttempt, ReadBatch, ReadCandidates, Leave, Go, Places
<1>2. UNCHANGED <<stored, valid, tx>>
  BY DEF ReadAttempt, ReadBatch, ReadCandidates, Leave
<1>3. view' \in [Clients -> View]
  <2>1. ASSUME NEW i \in Ids, ReadAttempt(c, i) PROVE view' \in [Clients -> View]
    <3>1. attempts[i] \in AttemptRow
      BY <2>1 DEF ReadAttempt, Created
    <3>2. [NoView EXCEPT !.of = i, !.version = attempts[i].version] \in View
      BY <3>1, EmptyRecords DEF NoView, View, AttemptRow
    <3>3. QED
      BY <2>1, <3>2 DEF ReadAttempt
  <2>2. ASSUME NEW f \in Files, ReadBatch(c, f) PROVE view' \in [Clients -> View]
    <3>1. batches[f] \in Batch(f)
      BY <2>2 DEF ReadBatch
    <3>2. [NoView EXCEPT !.of = f, !.version = batches[f].version] \in View
      BY <3>1, EmptyRecords DEF NoView, View, Batch
    <3>3. QED
      BY <2>2, <3>2 DEF ReadBatch
  <2>3. CASE ReadCandidates(c)
    <3> DEFINE f == view[c].of
    <3>1. f \in Files /\ batches[f] \in Batch(f) /\ view[c] \in View
      BY <2>3 DEF ReadCandidates, Go, Views
    <3>2. [view[c] EXCEPT !.rows = batches[f].rows] \in View
      <4>1. batches[f].rows \in {<<>>} \cup UNION {[DOMAIN Rows[g] -> CandidateRow] : g \in Files}
        BY <3>1 DEF Batch
      <4> HIDE DEF f
      <4>2. QED
        BY <3>1, <4>1 DEF View
    <3>3. view' = [view EXCEPT ![c] = [view[c] EXCEPT !.rows = batches[f].rows]]
      BY <2>3 DEF ReadCandidates
    <3>4. QED
      BY <3>2, <3>3
  <2>4. CASE Leave(c)
    BY <2>4, EmptyRecords DEF Leave
  <2>5. QED
    BY <2>1, <2>2, <2>3, <2>4
<1>4. QED
  BY <1>1, <1>2, <1>3 DEF stored

LEMMA MaximumOf ==
  ASSUME NEW S \in SUBSET Courses, S # {}
  PROVE  Max(S) \in S
<1>1. S \subseteq Nat /\ IsFiniteSet(S)
  BY CatalogueAssumption, FS_Subset
<1>2. \E n \in S : \A m \in S : m <= n
  BY <1>1, GreatestExists
<1>3. \E n \in S : \A m \in S : n >= m
  BY <1>1, <1>2
<1>4. QED
  BY <1>3 DEF Max

\* The rows of a new batch: one is accepted at once only with the course suggested.
LEMMA CandidateIsKnown ==
  ASSUME TypeOK, NEW row
  PROVE  /\ Candidate(row) \in CandidateRow
         /\ Candidate(row).decision = "ACCEPT" => Candidate(row).course \in Courses /\ row.term \in Terms
<1>1. Versions(row) \subseteq Courses
  BY DEF Versions
<1>2. Versions(row) # {} => Suggested(row) \in Versions(row)
  BY <1>1, MaximumOf DEF Suggested
<1>3. Suggested(row) \in Courses \cup {None}
  BY <1>1, <1>2 DEF Suggested
<1>4. StatusOf(row) \in {"ERROR", "CONFLICT", "VALID"}
  BY DEF StatusOf
<1>5. StatusOf(row) = "VALID" => row.term \in Terms /\ Versions(row) # {}
  BY DEF StatusOf
<1>6. QED
  BY <1>1, <1>2, <1>3, <1>4, <1>5 DEF Candidate, CandidateRow

LEMMA TypedUpload ==
  ASSUME TypeOK, BatchesKnown, NEW c \in Clients, NEW f \in Files, Upload(c, f)
  PROVE  TypeOK' /\ BatchesKnown'
<1> USE DEF TypeOK
<1>1. UNCHANGED <<attempts, recognitions, audit, overlap, valid, tx>>
  BY DEF Upload
<1>2. pc' \in [Clients -> Places]
  BY DEF Upload, Go, Places
<1>3. /\ DOMAIN batches' = Files
      /\ \A g \in Files \ {f} : batches'[g] = batches[g]
      /\ batches'[f] = IF batches[f] = None THEN NewBatch(f) ELSE batches[f]
  BY DEF Upload
<1>4. NewBatch(f) \in Batch(f)
  BY CandidateIsKnown DEF NewBatch, Batch
<1>5. ASSUME NEW i \in DOMAIN Rows[f], NewBatch(f).rows[i].decision = "ACCEPT"
      PROVE  NewBatch(f).rows[i].course \in Courses /\ Rows[f][i].term \in Terms
  BY <1>5, CandidateIsKnown DEF NewBatch
<1>6. batches'[f] \in Batch(f)
  BY <1>3, <1>4
<1>7. view' \in [Clients -> View]
  <2>1. [NoView EXCEPT !.of = f, !.version = batches'[f].version] \in View
    BY <1>6, EmptyRecords DEF NoView, View, Batch
  <2>2. QED
    BY <2>1 DEF Upload
<1>8. BatchesKnown'
  <2>1. ASSUME NEW g \in Files, batches'[g] # None, NEW i \in Accepted(g)'
        PROVE  batches'[g].rows[i].course \in Courses /\ Rows[g][i].term \in Terms
    <3>1. CASE g = f /\ batches[f] = None
      BY <1>3, <1>5, <2>1, <3>1 DEF Accepted
    <3>2. CASE ~(g = f /\ batches[f] = None)
      <4>1. batches'[g] = batches[g]
        BY <1>3, <3>2
      <4>2. i \in Accepted(g) /\ batches[g] # None
        BY <2>1, <4>1 DEF Accepted
      <4>3. QED
        BY <4>1, <4>2 DEF BatchesKnown
    <3>3. QED
      BY <3>1, <3>2
  <2>2. QED
    BY <2>1 DEF BatchesKnown
<1>9. QED
  BY <1>1, <1>2, <1>3, <1>6, <1>7, <1>8

LEMMA DecidedRowTyped ==
  ASSUME NEW row \in CandidateRow, NEW decision \in {"ACCEPT", "EXTERNAL", "SKIP"},
         NEW course \in Courses \cup {None}
  PROVE  /\ DecidedRow(row, decision, course) \in CandidateRow
         /\ DecidedRow(row, decision, course).decision = decision
         /\ DecidedRow(row, decision, course).course = course
<1>1. row.version + 1 \in Nat
  BY DEF CandidateRow
<1>2. QED
  BY <1>1 DEF DecidedRow, CandidateRow

WithDecision(batch, i, new) ==
    [batch EXCEPT !.version = batch.version + 1, !.rows = [batch.rows EXCEPT ![i] = new]]

LEMMA BatchFields ==
  ASSUME NEW S, NEW R, NEW batch \in [status : S, version : Nat, rows : R], NEW version \in Nat, NEW rows \in R
  PROVE  LET after == [batch EXCEPT !.version = version, !.rows = rows] IN
         /\ after \in [status : S, version : Nat, rows : R]
         /\ after.version = version /\ after.status = batch.status /\ after.rows = rows
<1>1. [batch EXCEPT !.version = version, !.rows = rows] \in [status : S, version : Nat, rows : R]
  OBVIOUS
<1>2. LET after == [batch EXCEPT !.version = version, !.rows = rows] IN
         after.version = version /\ after.status = batch.status /\ after.rows = rows
  OBVIOUS
<1>3. QED
  BY <1>1, <1>2

LEMMA WithDecisionTyped ==
  ASSUME NEW f \in Files, NEW batch \in Batch(f), NEW i \in DOMAIN Rows[f], NEW new \in CandidateRow
  PROVE  LET after == WithDecision(batch, i, new) IN
         /\ after \in Batch(f) /\ after.version = batch.version + 1 /\ after.status = batch.status
         /\ \A k \in DOMAIN Rows[f] : after.rows[k] = IF k = i THEN new ELSE batch.rows[k]
<1> DEFINE rows == [batch.rows EXCEPT ![i] = new]
<1>1. batch.rows \in [DOMAIN Rows[f] -> CandidateRow] /\ batch.version \in Nat
  BY DEF Batch
<1>2. rows \in [DOMAIN Rows[f] -> CandidateRow]
      /\ \A k \in DOMAIN Rows[f] : rows[k] = IF k = i THEN new ELSE batch.rows[k]
  BY <1>1
<1> HIDE DEF rows
<1> DEFINE after == [batch EXCEPT !.version = batch.version + 1, !.rows = rows]
<1>3. batch.version + 1 \in Nat
  BY <1>1
<1>4. after \in Batch(f) /\ after.version = batch.version + 1 /\ after.status = batch.status /\ after.rows = rows
  BY <1>2, <1>3, BatchFields DEF Batch
<1>5. WithDecision(batch, i, new) = after
  BY DEF WithDecision, rows
<1>6. QED
  BY <1>2, <1>4, <1>5

\* A decision puts one row of one batch in preview in the place of another.
LEMMA DecisionChangesOneRow ==
  ASSUME TypeOK, Views, NEW c \in Clients, NEW i \in DOMAIN view[c].rows, NEW p \in Decisions,
         Resolve(c, i, p[1], p[2])
  PROVE  \E f \in Files, new \in CandidateRow :
             /\ batches[f] \in Batch(f) /\ batches[f].status # "APPLIED" /\ i \in DOMAIN Rows[f]
             /\ batches[f].rows[i].status # "ERROR"
             /\ ~Held(<<"batch", f>>)
             /\ batches' = [batches EXCEPT ![f] = WithDecision(batches[f], i, new)]
             /\ new.decision = "ACCEPT" => new.course \in Courses /\ Rows[f][i].term \in Terms
<1> PICK decision \in {"ACCEPT", "EXTERNAL", "SKIP"} : decision = p[1]
  BY InputAssumption
<1> DEFINE f == view[c].of
           course == Selected(f, i, decision, p[2])
           row == batches[f].rows[i]
           new == DecidedRow(row, decision, course)
<1>1. f \in Files /\ batches[f] \in Batch(f) /\ i \in DOMAIN Rows[f]
  BY DEF Resolve, Go, Views, TypeOK
<1>2. row \in CandidateRow
  BY <1>1 DEF Batch
<1>3. p[2] \in Courses \cup {None}
  BY InputAssumption
<1>4. course \in Courses \cup {None}
  BY <1>2, <1>3 DEF Selected, CandidateRow
<1>5. new \in CandidateRow /\ new.decision = decision /\ new.course = course
  <2> HIDE DEF f, course, row
  <2>1. QED
    BY Z3, <1>2, <1>4, DecidedRowTyped
<1>6. decision = "ACCEPT" => course \in Courses /\ Rows[f][i].term \in Terms
  BY DEF Resolve, MayResolve, TypeOK
<1>7. ~Held(<<"batch", f>>) /\ batches[f].status # "APPLIED" /\ batches[f].rows[i].status # "ERROR"
  BY DEF Resolve, MayResolve
<1>8. batches' = [batches EXCEPT ![f] = WithDecision(batches[f], i, new)]
  BY DEF Resolve, Resolved, WithDecision
<1> HIDE DEF f, course, row, new
<1>9. QED
  BY <1>1, <1>5, <1>6, <1>7, <1>8

LEMMA TypedResolve ==
  ASSUME TypeOK, BatchesKnown, Views, NEW c \in Clients, NEW i \in DOMAIN view[c].rows,
         NEW p \in Decisions, Resolve(c, i, p[1], p[2])
  PROVE  TypeOK' /\ BatchesKnown'
<1> PICK f \in Files, new \in CandidateRow :
             /\ batches[f] \in Batch(f) /\ batches[f].status # "APPLIED" /\ i \in DOMAIN Rows[f]
             /\ ~Held(<<"batch", f>>)
             /\ batches' = [batches EXCEPT ![f] = WithDecision(batches[f], i, new)]
             /\ new.decision = "ACCEPT" => new.course \in Courses /\ Rows[f][i].term \in Terms
  BY DecisionChangesOneRow
<1> DEFINE batch == WithDecision(batches[f], i, new)
<1>1. batch \in Batch(f) /\ \A k \in DOMAIN Rows[f] : batch.rows[k] = IF k = i THEN new ELSE batches[f].rows[k]
  BY WithDecisionTyped
<1> HIDE DEF batch
<1>3. DOMAIN batches' = Files /\ batches'[f] = batch /\ \A g \in Files \ {f} : batches'[g] = batches[g]
  BY DEF TypeOK, batch
<1>4. UNCHANGED <<attempts, recognitions, audit, overlap, valid, tx>>
  BY DEF Resolve
<1>5. pc' \in [Clients -> Places] /\ view' \in [Clients -> View]
  BY EmptyRecords DEF Resolve, Go, Places, TypeOK
<1>6. TypeOK'
  BY <1>1, <1>3, <1>4, <1>5 DEF TypeOK
<1>7. ASSUME NEW g \in Files, batches'[g] # None, NEW k \in Accepted(g)'
      PROVE  batches'[g].rows[k].course \in Courses /\ Rows[g][k].term \in Terms
  <2>1. k \in DOMAIN Rows[g] /\ batches'[g].rows[k].decision = "ACCEPT"
    BY <1>7 DEF Accepted
  <2>2. CASE g = f /\ k = i
    <3>1. batches'[g].rows[k] = new
      BY <1>1, <1>3, <2>2
    <3>2. QED
      BY <1>1, <2>1, <2>2, <3>1
  <2>3. CASE ~(g = f /\ k = i)
    <3>1. batches'[g].rows[k] = batches[g].rows[k] /\ batches[g] # None
      <4>1. CASE g = f
        BY <1>1, <1>3, <2>1, <2>3, <4>1, RowAssumption
      <4>2. CASE g # f
        BY <1>3, <1>7, <4>2
      <4>3. QED
        BY <4>1, <4>2
    <3>2. k \in Accepted(g)
      BY <2>1, <3>1 DEF Accepted
    <3>3. QED
      BY <3>1, <3>2 DEF BatchesKnown
  <2>4. QED
    BY <2>2, <2>3
<1>8. QED
  BY <1>6, <1>7 DEF BatchesKnown

\* The transaction a command begins with.
Begun(kind, id, target, held, todo) ==
    [NoTx EXCEPT !.kind = kind, !.id = id, !.target = target, !.held = held, !.todo = todo]

LEMMA BeginTyped ==
  ASSUME NEW kind \in Kinds, NEW id \in Ids \cup Files \cup {None},
         NEW target \in AttemptRow \cup {None},
         NEW held \in SUBSET Resources, NEW todo \in SUBSET Resources
  PROVE  LET t == Begun(kind, id, target, held, todo) IN
         /\ t \in Transaction
         /\ t.kind = kind /\ t.id = id /\ t.target = target /\ t.held = held /\ t.todo = todo
         /\ t.writes = <<>>
<1>1. Begun(kind, id, target, held, todo) \in Transaction
  BY EmptyRecords DEF Begun, Transaction
<1>2. LET t == Begun(kind, id, target, held, todo) IN
      t.kind = kind /\ t.id = id /\ t.target = target /\ t.held = held /\ t.todo = todo /\ t.writes = <<>>
  BY DEF Begun, NoTx
<1>3. QED
  BY <1>1, <1>2

LEMMA PairLocksTyped ==
  ASSUME NEW course \in Courses, NEW term \in Terms
  PROVE  PairLocks(course, term) \in SUBSET Resources
BY DEF PairLocks, Resources

LEMMA ConfirmLocksTyped ==
  ASSUME BatchesKnown, NEW f \in Files, batches[f] # None
  PROVE  ConfirmLocks(f) \in SUBSET Resources
<1>1. ASSUME NEW i \in Accepted(f)
      PROVE  PairLocks(batches[f].rows[i].course, Rows[f][i].term) \in SUBSET Resources
  BY PairLocksTyped DEF BatchesKnown
<1>2. QED
  BY <1>1 DEF ConfirmLocks

\* The row a correction leaves in the place of another.
Corrected(row, course, term, status) ==
    [row EXCEPT !.course = course, !.term = term, !.status = status,
                !.credits = Earned(course, status), !.version = @ + 1]

LEMMA CorrectedRow ==
  ASSUME NEW row \in AttemptRow, NEW course \in Courses, NEW term \in Terms, NEW status \in Statuses
  PROVE  LET new == Corrected(row, course, term, status)
         IN  /\ new \in AttemptRow /\ new.course = course /\ new.term = term
             /\ new.number = row.number /\ new.file = row.file /\ new.row = row.row
<1>1. Earned(course, status) \in Nat \cup {None}
  BY InputAssumption DEF Earned
<1>2. row.version + 1 \in Nat
  BY DEF AttemptRow
<1> DEFINE credits == Earned(course, status)
           version == row.version + 1
<1> HIDE DEF credits, version
<1>3. LET new == [row EXCEPT !.course = course, !.term = term, !.status = status,
                             !.credits = credits, !.version = version]
      IN  /\ new \in AttemptRow /\ new.course = course /\ new.term = term
          /\ new.number = row.number /\ new.file = row.file /\ new.row = row.row
  BY <1>1, <1>2 DEF AttemptRow, credits, version
<1>4. QED
  BY <1>3 DEF Corrected, credits, version

LEMMA AnnulledRow ==
  ASSUME NEW row \in AttemptRow
  PROVE  LET new == [row EXCEPT !.status = "ANNULLED", !.version = @ + 1]
         IN  /\ new \in AttemptRow /\ new.course = row.course
             /\ new.number = row.number /\ new.file = row.file /\ new.row = row.row
<1> DEFINE version == row.version + 1
           new == [row EXCEPT !.status = "ANNULLED", !.version = version]
<1>1. "ANNULLED" \in Statuses
  BY DEF Statuses, AttemptStatus, NotApproved
<1>2. version \in Nat
  BY DEF AttemptRow
<1> HIDE DEF version
<1>3. new \in AttemptRow /\ new.course = row.course /\ new.number = row.number
      /\ new.file = row.file /\ new.row = row.row
  BY <1>1, <1>2 DEF AttemptRow
<1>4. QED
  BY <1>3 DEF version

\* A command begins with rows there are, and with the locks of all it will write.
Starts(c, kind, id, target, held, todo) ==
    /\ kind \in Kinds \ {"none"} /\ id \in Ids \cup Files \cup {None}
    /\ target \in AttemptRow \cup {None}
    /\ held \in SUBSET Resources /\ todo \in SUBSET Resources
    /\ tx' = [tx EXCEPT ![c] = Begun(kind, id, target, held, todo)]
    /\ pc' = [pc EXCEPT ![c] = "locking"] /\ UNCHANGED <<stored, valid, view>>
    /\ pc[c] \notin {"locking", "written"}
    /\ \A r \in held : ~Held(r)
    /\ kind \in {"create", "update", "annul"} => target \in AttemptRow
    /\ kind = "create" => target.file = None
    /\ kind \in {"create", "update"} => todo = PairLocks(target.course, target.term)
    /\ kind \in {"update", "annul"} =>
          /\ id \in Created /\ held = {<<"attempt", id>>}
          /\ target.number = attempts[id].number /\ target.file = attempts[id].file
          /\ target.row = attempts[id].row
    /\ kind = "annul" => target.course = attempts[id].course
    /\ kind = "confirm" =>
          /\ id \in Files /\ held = {<<"batch", id>>}
          /\ batches[id] # None /\ batches[id].status = "PREVIEW"
          /\ view[c].rows = batches[id].rows
          /\ todo = ConfirmLocks(id)

LEMMA CommandBegins ==
  ASSUME TypeOK, BatchesKnown, Views, NEW c \in Clients,
         \/ \E q \in Requests :
               \/ CreateManual(c, q.course, q.term, q.number, q.status)
               \/ Update(c, q.course, q.term, q.status)
         \/ Annul(c) \/ Confirm(c)
  PROVE  \E kind, id, target, held, todo : Starts(c, kind, id, target, held, todo)
<1> DEFINE of == view[c].of
<1>1. ASSUME NEW q \in Requests, CreateManual(c, q.course, q.term, q.number, q.status)
      PROVE  /\ Attempt(q.course, q.term, q.number, q.status) \in AttemptRow
             /\ Attempt(q.course, q.term, q.number, q.status).file = None
             /\ Attempt(q.course, q.term, q.number, q.status).course = q.course
             /\ Attempt(q.course, q.term, q.number, q.status).term = q.term
             /\ PairLocks(q.course, q.term) \in SUBSET Resources
  <2>1. q.course \in Courses /\ q.term \in Terms /\ q.number \in Nat /\ q.status \in Statuses
    BY InputAssumption, BoundsAssumption DEF Asked, Numbers, Statuses, AttemptStatus, Approved, NotApproved
  <2>2. QED
    BY <2>1, AttemptIsRow, PairLocksTyped DEF Attempt
<1>2. ASSUME NEW q \in Requests PROVE q.course \in Courses /\ q.term \in Terms /\ q.status \in Statuses
  BY InputAssumption DEF Asked, Statuses, AttemptStatus, Approved, NotApproved
<1>3. pc[c] = "attempt" => of \in Created /\ attempts[of] \in AttemptRow /\ {<<"attempt", of>>} \in SUBSET Resources
  BY DEF Views, Created, TypeOK, Resources
<1>4. pc[c] = "preview" => of \in Files /\ batches[of] # None /\ {<<"batch", of>>} \in SUBSET Resources
  BY DEF Views, Resources
<1>5. {} \in SUBSET Resources /\ Kinds = {"none", "create", "update", "annul", "confirm"}
  BY DEF Kinds
<1>6. ASSUME NEW q \in Requests, CreateManual(c, q.course, q.term, q.number, q.status)
      PROVE  /\ tx' = [tx EXCEPT ![c] = Begun("create", None, Attempt(q.course, q.term, q.number, q.status),
                                              {}, PairLocks(q.course, q.term))]
             /\ pc' = [pc EXCEPT ![c] = "locking"] /\ UNCHANGED <<stored, valid, view>> /\ pc[c] = "idle"
  BY <1>6 DEF CreateManual, Begin, Go, Begun
<1>7. CASE \E q \in Requests : CreateManual(c, q.course, q.term, q.number, q.status)
  <2> PICK q \in Requests : CreateManual(c, q.course, q.term, q.number, q.status)
    BY <1>7
  <2> DEFINE target == Attempt(q.course, q.term, q.number, q.status)
  <2>1. /\ target \in AttemptRow /\ target.file = None /\ target.course = q.course /\ target.term = q.term
        /\ PairLocks(q.course, q.term) \in SUBSET Resources
    BY <1>1
  <2>2. /\ tx' = [tx EXCEPT ![c] = Begun("create", None, target, {}, PairLocks(q.course, q.term))]
        /\ pc' = [pc EXCEPT ![c] = "locking"] /\ UNCHANGED <<stored, valid, view>> /\ pc[c] = "idle"
    BY <1>6
  <2> HIDE DEF target
  <2>3. Starts(c, "create", None, target, {}, PairLocks(q.course, q.term))
    BY <1>5, <2>1, <2>2 DEF Starts
  <2>4. QED
    BY <2>3
<1>8. CASE \E q \in Requests : Update(c, q.course, q.term, q.status)
  <2> PICK q \in Requests : Update(c, q.course, q.term, q.status)
    BY <1>8
  <2> DEFINE target == Corrected(attempts[of], q.course, q.term, q.status)
             held == {<<"attempt", of>>}
  <2>1. pc[c] = "attempt" /\ ~Held(<<"attempt", of>>)
    BY DEF Update, Edits
  <2>2. /\ target \in AttemptRow /\ target.course = q.course /\ target.term = q.term
        /\ target.number = attempts[of].number /\ target.file = attempts[of].file
        /\ target.row = attempts[of].row
    BY <1>2, <1>3, <2>1, CorrectedRow
  <2>3. /\ tx' = [tx EXCEPT ![c] = Begun("update", of, target, held, PairLocks(q.course, q.term))]
        /\ pc' = [pc EXCEPT ![c] = "locking"] /\ UNCHANGED <<stored, valid, view>>
    BY DEF Update, Begin, Go, Begun, Corrected
  <2>4. PairLocks(q.course, q.term) \in SUBSET Resources
    BY <1>2, PairLocksTyped
  <2> HIDE DEF target
  <2>5. of \in Created /\ of \in Ids /\ held \in SUBSET Resources
    BY <1>3, <2>1 DEF Created
  <2>6. Starts(c, "update", of, target, held, PairLocks(q.course, q.term))
    BY <1>5, <2>1, <2>2, <2>3, <2>4, <2>5 DEF Starts
  <2>7. QED
    BY <2>6
<1>9. CASE Annul(c)
  <2> DEFINE target == [attempts[of] EXCEPT !.status = "ANNULLED", !.version = @ + 1]
             held == {<<"attempt", of>>}
  <2>1. pc[c] = "attempt" /\ ~Held(<<"attempt", of>>)
    BY <1>9 DEF Annul, Edits
  <2>2. /\ target \in AttemptRow /\ target.course = attempts[of].course
        /\ target.number = attempts[of].number /\ target.file = attempts[of].file
        /\ target.row = attempts[of].row
    BY <1>3, <2>1, AnnulledRow
  <2>3. /\ tx' = [tx EXCEPT ![c] = Begun("annul", of, target, held, {})]
        /\ pc' = [pc EXCEPT ![c] = "locking"] /\ UNCHANGED <<stored, valid, view>>
    BY <1>9 DEF Annul, Begin, Go, Begun
  <2> HIDE DEF target
  <2>4. of \in Created /\ of \in Ids /\ held \in SUBSET Resources
    BY <1>3, <2>1 DEF Created
  <2>5. Starts(c, "annul", of, target, held, {})
    BY <1>5, <2>1, <2>2, <2>3, <2>4 DEF Starts
  <2>6. QED
    BY <2>5
<1>10. CASE Confirm(c)
  <2> DEFINE held == {<<"batch", of>>}
  <2>1. /\ pc[c] = "preview" /\ ~Held(<<"batch", of>>) /\ batches[of].status = "PREVIEW"
        /\ batches[of].version = view[c].version
    BY <1>10 DEF Confirm, MayConfirm
  <2>2. view[c].rows = batches[of].rows
    BY <2>1 DEF Views
  <2>3. /\ tx' = [tx EXCEPT ![c] = Begun("confirm", of, None, held, ConfirmLocks(of))]
        /\ pc' = [pc EXCEPT ![c] = "locking"] /\ UNCHANGED <<stored, valid, view>>
    BY <1>10 DEF Confirm, Begin, Go, Begun
  <2>4. ConfirmLocks(of) \in SUBSET Resources
    BY <1>4, <2>1, ConfirmLocksTyped
  <2>5. Starts(c, "confirm", of, None, held, ConfirmLocks(of))
    BY <1>4, <1>5, <2>1, <2>2, <2>3, <2>4 DEF Starts
  <2>6. QED
    BY <2>5
<1>11. QED
  BY <1>7, <1>8, <1>9, <1>10

-----------------------------------------------------------------------------
(* Steps that touch no attempt, no recognition and no transaction.         *)

\* Such a step of c may change a batch as long as it is neither applied nor confirmed.
LEMMA QuietStep ==
  ASSUME IInv, NEW c \in Clients,
         UNCHANGED <<attempts, recognitions, audit, overlap, valid, tx>>,
         NEW place \in Places \ {"locking", "written"}, pc[c] \notin {"locking", "written"},
         pc' = [pc EXCEPT ![c] = place],
         \A d \in Clients \ {c} : view'[d] = view[d],
         \A f \in Files : IsApplied(f)' <=> IsApplied(f),
         \A f \in Files : IsApplied(f) => batches'[f] = batches[f],
         \A d \in Clients : tx[d].kind = "confirm" => batches'[tx[d].id] = batches[tx[d].id]
  PROVE  Exclusive' /\ Commands' /\ Writings' /\ Stored'
<1> USE DEF IInv
<1>1. Exclusive'
  BY DEF Exclusive
<1>2. \A d \in Clients : pc'[d] = IF d = c THEN place ELSE pc[d]
  BY DEF TypeOK
<1>3. ASSUME NEW f, batches'[f] = batches[f]
      PROVE  Accepted(f)' = Accepted(f) /\ Recognized(f)' = Recognized(f) /\ ConfirmLocks(f)' = ConfirmLocks(f)
  BY <1>3 DEF Accepted, Recognized, ConfirmLocks
<1>4. Created' = Created
  BY DEF Created
<1>5. ASSUME NEW d \in Clients PROVE Command(d)'
  <2>1. Command(d)
    BY DEF Commands
  <2>2. tx[d].kind = "confirm" => view'[d] = view[d]
    <3>1. CASE d = c
      BY <3>1 DEF Commands, NoTx
    <3>2. CASE d # c
      BY <3>2
    <3>3. QED
      BY <3>1, <3>2
  <2>3. tx[d].kind = "confirm" => ConfirmLocks(tx[d].id)' = ConfirmLocks(tx[d].id)
    BY <1>3
  <2>4. QED
    BY <1>4, <2>1, <2>2, <2>3 DEF Command
<1>6. Commands'
  BY <1>2, <1>5 DEF Commands
<1>7. InFlight' = InFlight
  BY <1>2 DEF InFlight
<1>8. ASSUME NEW d \in InFlight PROVE Writing(tx[d])'
  <2>1. Writing(tx[d]) /\ d \in Clients
    BY DEF Writings, InFlight
  <2>2. tx[d].kind = "confirm" => Accepted(tx[d].id)' = Accepted(tx[d].id) /\ Recognized(tx[d].id)' = Recognized(tx[d].id)
    BY <1>3, <2>1
  <2>3. Overlay(tx[d].writes)' = Overlay(tx[d].writes)
    BY DEF Overlay
  <2>4. OwnRow(tx[d])' /\ NewRows(tx[d])' /\ UnderLock(tx[d])' /\ ByHand(tx[d])'
    BY <2>1 DEF Writing, OwnRow, NewRows, UnderLock, ByHand
  <2>5. OwnNumbers(tx[d])' /\ SeesItAll(tx[d])'
    BY <2>1, <2>3 DEF Writing, OwnNumbers, SeesItAll, Facts
  <2>6. ItsRows(tx[d])' /\ Recognizes(tx[d])'
    BY <2>1, <2>2 DEF Writing, ItsRows, Recognizes
  <2>7. QED
    BY <2>4, <2>5, <2>6 DEF Writing
<1>9. Writings'
  BY <1>2, <1>7, <1>8 DEF Writings
<1>10. Stored'
  <2>1. \A f \in Files : IsApplied(f) => Accepted(f)' = Accepted(f) /\ Recognized(f)' = Recognized(f)
    BY <1>3
  <2>2. {g \in Files : IsApplied(g)}' = {g \in Files : IsApplied(g)}
    OBVIOUS
  <2>3. \A i \in Created : attempts[i].file # None => attempts[i].file \in Files
    BY DEF TypeOK, Created, AttemptRow
  <2>4. NumbersDiffer' /\ OncePerRow'
    BY <1>4 DEF Stored, NumbersDiffer, OncePerRow
  <2>5. FromApplied'
    BY <1>4, <2>1, <2>3 DEF Stored, FromApplied
  <2>6. NoneLeftOut'
    BY <1>4, <2>1 DEF Stored, NoneLeftOut
  <2>7. AllRecognized'
    <3>1. {Recognized(f)' : f \in {g \in Files : IsApplied(g)}} = {Recognized(f) : f \in {g \in Files : IsApplied(g)}}
      BY <2>1
    <3>2. QED
      BY <2>2, <3>1 DEF Stored, AllRecognized
  <2>8. SerialAuditIsCurrent'
    BY DEF Stored, SerialAuditIsCurrent
  <2>9. QED
    BY <2>4, <2>5, <2>6, <2>7, <2>8 DEF Stored
<1>11. QED
  BY <1>1, <1>6, <1>9, <1>10

LEMMA ReadKeeps ==
  ASSUME IInv, NEW c \in Clients,
         \/ \E i \in Ids : ReadAttempt(c, i)
         \/ \E f \in Files : ReadBatch(c, f)
         \/ ReadCandidates(c) \/ Leave(c)
  PROVE  IInv'
<1> USE DEF IInv
<1>1. TypeOK'
  BY TypedReads
<1>2. UNCHANGED <<stored, valid, tx>>
  BY DEF ReadAttempt, ReadBatch, ReadCandidates, Leave
<1>3. UNCHANGED <<attempts, batches, recognitions, audit, overlap, valid, tx>>
  BY <1>2 DEF stored
<1>4. BatchesKnown'
  BY <1>3 DEF BatchesKnown, Accepted
<1>5. \E place \in Places \ {"locking", "written"} : pc[c] # "locking" /\ pc[c] # "written" /\ pc' = [pc EXCEPT ![c] = place]
  BY DEF ReadAttempt, ReadBatch, ReadCandidates, Leave, Go, Places
<1>6. \A d \in Clients \ {c} : view'[d] = view[d]
  BY DEF ReadAttempt, ReadBatch, ReadCandidates, Leave, TypeOK
<1>7. \A f \in Files : IsApplied(f)' <=> IsApplied(f)
  BY <1>3 DEF IsApplied
<1>8. Exclusive' /\ Commands' /\ Writings' /\ Stored'
  BY <1>3, <1>5, <1>6, <1>7, QuietStep
<1>9. Views'
  <2>1. Created' = Created
    BY <1>3 DEF Created
  <2>2. \A d \in Clients \ {c} : view'[d] = view[d] /\ pc'[d] = pc[d]
    BY <1>5, <1>6 DEF TypeOK
  <2>3. ASSUME NEW i \in Ids, ReadAttempt(c, i)
        PROVE  pc'[c] = "attempt" /\ view'[c].of = i /\ i \in Created
    BY <2>3 DEF ReadAttempt, Go, TypeOK, NoView
  <2>4. ASSUME NEW f \in Files, ReadBatch(c, f)
        PROVE  pc'[c] = "batch" /\ view'[c].of = f /\ batches[f] # None /\ view'[c].version = batches[f].version
    BY <2>4 DEF ReadBatch, Go, TypeOK, NoView
  <2>5. ASSUME ReadCandidates(c)
        PROVE  LET f == view[c].of IN
               /\ pc[c] = "batch" /\ pc'[c] = "preview"
               /\ view'[c].of = f /\ view'[c].version = view[c].version
               /\ view'[c].rows = batches[f].rows
    <3>1. view[c] \in View
      BY DEF TypeOK
    <3>2. view'[c] = [view[c] EXCEPT !.rows = batches[view[c].of].rows]
      BY <2>5 DEF ReadCandidates, TypeOK
    <3>3. QED
      BY <2>5, <3>1, <3>2 DEF ReadCandidates, Go, TypeOK, View
  <2>6. ASSUME Leave(c) PROVE pc'[c] = "idle"
    BY <2>6 DEF Leave, TypeOK
  <2>7. ASSUME NEW d \in Clients
        PROVE  LET f == view'[d].of IN
               /\ pc'[d] = "attempt" => f \in Created'
               /\ pc'[d] \in {"batch", "preview"} =>
                     f \in Files /\ batches'[f] # None /\ view'[d].version <= batches'[f].version
               /\ pc'[d] = "preview" =>
                     /\ DOMAIN view'[d].rows = DOMAIN Rows[f]
                     /\ view'[d].version = batches'[f].version => view'[d].rows = batches'[f].rows
    <3>1. CASE d # c
      BY <1>3, <2>1, <2>2, <3>1 DEF Views
    <3>2. CASE d = c /\ \E i \in Ids : ReadAttempt(c, i)
      BY <2>1, <2>3, <3>2
    <3>3. CASE d = c /\ \E f \in Files : ReadBatch(c, f)
      <4>1. PICK f \in Files : ReadBatch(c, f)
        BY <3>3
      <4>2. batches[f] \in Batch(f)
        BY <4>1 DEF ReadBatch, TypeOK
      <4>3. batches[f].version \in Nat
        BY <4>2 DEF Batch
      <4>4. QED
        BY <1>3, <2>4, <3>3, <4>1, <4>3
    <3>4. CASE d = c /\ ReadCandidates(c)
      <4> DEFINE f == view[c].of
      <4>1. f \in Files /\ batches[f] # None /\ view[c].version <= batches[f].version
        BY <2>5, <3>4 DEF Views
      <4>2. batches[f] \in Batch(f)
        BY <4>1 DEF TypeOK
      <4>3. DOMAIN batches[f].rows = DOMAIN Rows[f]
        BY <4>2 DEF Batch
      <4>4. QED
        BY <1>3, <2>5, <3>4, <4>1, <4>3
    <3>5. CASE d = c /\ Leave(c)
      BY <2>6, <3>5
    <3>6. QED
      BY <3>1, <3>2, <3>3, <3>4, <3>5
  <2>8. QED
    BY <2>7 DEF Views
<1>10. QED
  BY <1>1, <1>4, <1>8, <1>9

LEMMA UploadKeeps ==
  ASSUME IInv, NEW c \in Clients, NEW f \in Files, Upload(c, f)
  PROVE  IInv'
<1> USE DEF IInv
<1>1. TypeOK' /\ BatchesKnown'
  BY TypedUpload
<1>2. UNCHANGED <<attempts, recognitions, audit, overlap, valid, tx>>
  BY DEF Upload
<1>3. /\ \A g \in Files \ {f} : batches'[g] = batches[g]
      /\ batches'[f] = IF batches[f] = None THEN NewBatch(f) ELSE batches[f]
  BY DEF Upload, TypeOK
<1>4. batches'[f] \in Batch(f) /\ batches'[f] # None
  <2>1. NewBatch(f) \in Batch(f)
    BY CandidateIsKnown DEF NewBatch, Batch
  <2>2. batches'[f] \in Batch(f)
    BY <1>3, <2>1 DEF TypeOK
  <2>3. QED
    BY <2>2, RowAssumption
<1>5. pc' = [pc EXCEPT ![c] = "batch"] /\ pc[c] = "idle" /\ "batch" \in Places \ {"locking", "written"}
  BY DEF Upload, Go, Places
<1>6. \A g \in Files : IsApplied(g)' <=> IsApplied(g)
  <2>1. NewBatch(f).status = "PREVIEW"
    BY DEF NewBatch
  <2>2. QED
    BY <1>3, <2>1 DEF IsApplied
<1>7. \A g \in Files : batches[g] # None => batches'[g] = batches[g]
  BY <1>3
<1>8. \A d \in Clients : tx[d].kind = "confirm" => batches'[tx[d].id] = batches[tx[d].id]
  BY <1>7 DEF Commands, Command
<1>9. \A d \in Clients \ {c} : view'[d] = view[d] /\ pc'[d] = pc[d]
  BY <1>5 DEF Upload, TypeOK
<1>10. Exclusive' /\ Commands' /\ Writings' /\ Stored'
  <2>1. \A g \in Files : IsApplied(g) => batches'[g] = batches[g]
    BY <1>7 DEF IsApplied
  <2>2. QED
    BY <1>2, <1>5, <1>6, <1>8, <1>9, <2>1, QuietStep
<1>11. Views'
  <2>1. pc'[c] = "batch" /\ view'[c].of = f /\ view'[c].version = batches'[f].version
    BY <1>5 DEF Upload, TypeOK, NoView
  <2>2. batches'[f].version \in Nat
    BY <1>4 DEF Batch
  <2>3. Created' = Created
    BY <1>2 DEF Created
  <2>4. ASSUME NEW d \in Clients \ {c}, pc[d] \in {"batch", "preview"}
        PROVE  view[d].of \in Files /\ batches[view[d].of] # None
    BY <2>4 DEF Views
  <2>5. QED
    BY <1>4, <1>7, <1>9, <2>1, <2>2, <2>3, <2>4 DEF Views
<1>12. QED
  BY <1>1, <1>10, <1>11

LEMMA ResolveKeeps ==
  ASSUME IInv, NEW c \in Clients, NEW i \in DOMAIN view[c].rows, NEW p \in Decisions,
         Resolve(c, i, p[1], p[2])
  PROVE  IInv'
<1> USE DEF IInv
<1>1. TypeOK' /\ BatchesKnown'
  BY TypedResolve
<1>2. PICK f \in Files, new \in CandidateRow :
             /\ batches[f] \in Batch(f) /\ batches[f].status # "APPLIED" /\ i \in DOMAIN Rows[f]
             /\ ~Held(<<"batch", f>>)
             /\ batches' = [batches EXCEPT ![f] = WithDecision(batches[f], i, new)]
             /\ new.decision = "ACCEPT" => new.course \in Courses /\ Rows[f][i].term \in Terms
  BY DecisionChangesOneRow
<1> DEFINE batch == WithDecision(batches[f], i, new)
<1>3. /\ batch \in Batch(f) /\ batch.version = batches[f].version + 1 /\ batch.status = batches[f].status
  BY <1>2, WithDecisionTyped
<1>4. batches'[f] = batch /\ \A g \in Files \ {f} : batches'[g] = batches[g]
  BY <1>2 DEF TypeOK
<1> HIDE DEF batch
<1>5. UNCHANGED <<attempts, recognitions, audit, overlap, valid, tx>>
  BY DEF Resolve
<1>6. pc' = [pc EXCEPT ![c] = "idle"] /\ pc[c] = "preview" /\ "idle" \in Places \ {"locking", "written"}
  BY DEF Resolve, Go, Places
<1>7. ~IsApplied(f) /\ ~IsApplied(f)'
  BY <1>2, <1>3, <1>4 DEF IsApplied
<1>8. /\ \A g \in Files : IsApplied(g)' <=> IsApplied(g)
      /\ \A g \in Files : IsApplied(g) => batches'[g] = batches[g]
  BY <1>4, <1>7 DEF IsApplied
<1>9. \A d \in Clients : tx[d].kind = "confirm" => batches'[tx[d].id] = batches[tx[d].id]
  BY <1>2, <1>4 DEF Commands, Command, Held
<1>10. \A d \in Clients \ {c} : view'[d] = view[d] /\ pc'[d] = pc[d]
  BY <1>6 DEF Resolve, TypeOK
<1>11. Exclusive' /\ Commands' /\ Writings' /\ Stored'
  BY <1>5, <1>6, <1>8, <1>9, <1>10, QuietStep
<1>12. Views'
  <2>1. pc'[c] = "idle"
    BY <1>6 DEF TypeOK
  <2>2. Created' = Created
    BY <1>5 DEF Created
  <2>3. batches'[f] # None /\ batches[f].version \in Nat /\ batches'[f].version = batches[f].version + 1
    BY <1>2, <1>3, <1>4, RowAssumption DEF Batch
  <2>4. ASSUME NEW d \in Clients \ {c}
        PROVE  LET g == view'[d].of IN
               /\ pc'[d] = "attempt" => g \in Created'
               /\ pc'[d] \in {"batch", "preview"} =>
                     g \in Files /\ batches'[g] # None /\ view'[d].version <= batches'[g].version
               /\ pc'[d] = "preview" =>
                     /\ DOMAIN view'[d].rows = DOMAIN Rows[g]
                     /\ view'[d].version = batches'[g].version => view'[d].rows = batches'[g].rows
    <3>1. view[d].version \in Nat
      BY DEF TypeOK, View
    <3>2. CASE view[d].of = f
      BY <1>10, <2>2, <2>3, <3>1, <3>2 DEF Views
    <3>3. CASE view[d].of # f
      BY <1>4, <1>10, <2>2, <3>3 DEF Views
    <3>4. QED
      BY <3>2, <3>3
  <2>5. QED
    BY <2>1, <2>4 DEF Views
<1>13. QED
  BY <1>1, <1>11, <1>12

-----------------------------------------------------------------------------
(* Commands and their locks.                                               *)

\* A step that only changes the transaction of one client, before it has written.
LEMMA LockingStep ==
  ASSUME IInv, NEW c \in Clients, pc[c] # "written",
         UNCHANGED <<stored, valid, view>>,
         NEW t \in Transaction, tx' = [tx EXCEPT ![c] = t],
         pc' = [pc EXCEPT ![c] = "locking"],
         t.writes = <<>>, t.kind # "none", Command(c)',
         \A d \in Clients \ {c} : t.held \cap tx[d].held = {}
  PROVE  IInv'
<1> USE DEF IInv
<1>1. UNCHANGED <<attempts, batches, recognitions, audit, overlap, valid, view>>
  BY DEF stored
<1>2. \A d \in Clients : /\ tx'[d] = IF d = c THEN t ELSE tx[d]
                         /\ pc'[d] = IF d = c THEN "locking" ELSE pc[d]
  BY DEF TypeOK
<1>3. TypeOK'
  BY <1>1 DEF TypeOK, Places
<1>4. BatchesKnown' /\ Stored'
  BY SMTT(60), <1>1 DEF BatchesKnown, Accepted, Stored, NumbersDiffer, FromApplied, OncePerRow, NoneLeftOut,
     AllRecognized, SerialAuditIsCurrent, Created, IsApplied, Recognized
<1>5. Exclusive'
  BY <1>2 DEF Exclusive
<1>6. Views'
  BY <1>1, <1>2 DEF Views, Created
<1>7. Commands'
  <2>1. ASSUME NEW d \in Clients \ {c} PROVE Command(d)'
    <3>1. tx'[d] = tx[d] /\ Created' = Created
      BY <1>1, <1>2 DEF Created
    <3>2. \A f : ConfirmLocks(f)' = ConfirmLocks(f)
      BY <1>1 DEF ConfirmLocks, Accepted
    <3>3. Command(d)
      BY DEF Commands
    <3>4. QED
      BY <1>1, <3>1, <3>2, <3>3 DEF Command
  <2>2. QED
    BY <1>2, <2>1 DEF Commands
<1>8. Writings'
  <2>1. InFlight' = InFlight /\ \A d \in InFlight : tx'[d] = tx[d]
    BY <1>2 DEF InFlight
  <2>2. ASSUME NEW d \in InFlight PROVE Writing(tx[d])'
    <3>1. Writing(tx[d]) /\ tx'[d] = tx[d]
      BY <2>1 DEF Writings
    <3>2. \A f : Accepted(f)' = Accepted(f) /\ Recognized(f)' = Recognized(f)
      BY <1>1 DEF Accepted, Recognized
    <3>3. Overlay(tx[d].writes)' = Overlay(tx[d].writes)
      BY <1>1, <3>1 DEF Overlay
    <3>4. OwnRow(tx[d])' /\ NewRows(tx[d])' /\ UnderLock(tx[d])' /\ ByHand(tx[d])'
      BY <1>1, <3>1 DEF Writing, OwnRow, NewRows, UnderLock, ByHand
    <3>5. OwnNumbers(tx[d])' /\ SeesItAll(tx[d])'
      BY ZenonT(60), <1>1, <3>1, <3>3 DEF Writing, OwnNumbers, SeesItAll, Facts
    <3>6. ItsRows(tx[d])' /\ Recognizes(tx[d])'
      BY <3>1, <3>2 DEF Writing, ItsRows, Recognizes
    <3>7. QED
      BY <3>4, <3>5, <3>6 DEF Writing
  <2>3. QED
    BY <1>2, <2>1, <2>2 DEF Writings
<1>9. QED
  BY <1>3, <1>4, <1>5, <1>6, <1>7, <1>8

LEMMA BeginKeeps ==
  ASSUME IInv, NEW c \in Clients,
         \/ \E q \in Requests :
               \/ CreateManual(c, q.course, q.term, q.number, q.status)
               \/ Update(c, q.course, q.term, q.status)
         \/ Annul(c) \/ Confirm(c)
  PROVE  IInv'
<1> USE DEF IInv
<1>1. PICK kind, id, target, held, todo : Starts(c, kind, id, target, held, todo)
  BY CommandBegins
<1> DEFINE t == Begun(kind, id, target, held, todo)
<1>2. /\ t \in Transaction /\ t.kind = kind /\ t.id = id /\ t.target = target
      /\ t.held = held /\ t.todo = todo /\ t.writes = <<>>
  <2>1. /\ kind \in Kinds /\ id \in Ids \cup Files \cup {None} /\ target \in AttemptRow \cup {None}
        /\ held \in SUBSET Resources /\ todo \in SUBSET Resources
    BY <1>1 DEF Starts
  <2>2. QED
    BY <2>1, BeginTyped
<1> HIDE DEF t
<1>3. tx' = [tx EXCEPT ![c] = t] /\ pc' = [pc EXCEPT ![c] = "locking"] /\ UNCHANGED <<stored, valid, view>>
  BY <1>1 DEF Starts, t
<1>4. UNCHANGED <<attempts, batches, view>>
  BY <1>3 DEF stored
<1>5. tx'[c] = t
  BY <1>3 DEF TypeOK
<1>6. Command(c)'
  <2>1. Created' = Created
    BY <1>4 DEF Created
  <2>2. kind = "confirm" => ConfirmLocks(id)' = ConfirmLocks(id)
    BY <1>4 DEF ConfirmLocks, Accepted
  <2>3. QED
    BY <1>1, <1>2, <1>4, <1>5, <2>1, <2>2 DEF Starts, Command
<1>7. \A d \in Clients : t.held \cap tx[d].held = {}
  BY <1>1, <1>2 DEF Starts, Held
<1>8. pc[c] # "written" /\ kind # "none"
  BY <1>1 DEF Starts
<1>9. QED
  BY <1>2, <1>3, <1>6, <1>7, <1>8, LockingStep

LEMMA LockKeeps ==
  ASSUME IInv, NEW c \in Clients, LockNext(c)
  PROVE  IInv'
<1> USE DEF IInv
<1>1. PICK r \in Foremost(tx[c].todo) :
          tx' = [tx EXCEPT ![c].held = @ \cup {r}, ![c].todo = @ \ {r}]
  BY DEF LockNext
<1>2. tx[c] \in Transaction /\ tx[c].todo \in SUBSET Resources /\ tx[c].held \in SUBSET Resources
  BY DEF TypeOK, Transaction
<1> DEFINE held == tx[c].held \cup {r}
           todo == tx[c].todo \ {r}
           t == [tx[c] EXCEPT !.held = held, !.todo = todo]
<1>3. r \in tx[c].todo
  BY DEF Foremost
<1>4. held \in SUBSET Resources /\ todo \in SUBSET Resources
  BY <1>2, <1>3
<1>5. tx' = [tx EXCEPT ![c] = t]
  BY <1>1
<1>6. held \cup todo = tx[c].held \cup tx[c].todo /\ tx[c].held \subseteq held
  BY <1>3
<1> HIDE DEF held, todo
<1>7. /\ t \in Transaction /\ t.kind = tx[c].kind /\ t.id = tx[c].id /\ t.target = tx[c].target
      /\ t.held = held /\ t.todo = todo /\ t.writes = tx[c].writes
  BY <1>2, <1>4 DEF Transaction
<1> HIDE DEF t
<1>8. pc[c] = "locking" /\ pc' = [pc EXCEPT ![c] = "locking"] /\ UNCHANGED <<stored, valid, view>>
  BY DEF LockNext, TypeOK
<1>9. Command(c) /\ tx[c].kind # "none" /\ tx[c].writes = <<>>
  BY <1>8 DEF Commands, Writings
<1>10. UNCHANGED <<attempts, batches, view>> /\ tx'[c] = t
  BY <1>5, <1>8 DEF stored, TypeOK
<1>11. Command(c)'
  <2>1. Created' = Created
    BY <1>10 DEF Created
  <2>2. ConfirmLocks(tx[c].id)' = ConfirmLocks(tx'[c].id)
    BY <1>7, <1>10 DEF ConfirmLocks, Accepted
  <2>3. QED
    BY <1>6, <1>7, <1>9, <1>10, <2>1, <2>2 DEF Command
<1>12. \A d \in Clients \ {c} : t.held \cap tx[d].held = {}
  <2>1. ASSUME NEW d \in Clients \ {c} PROVE r \notin tx[d].held
    BY <1>8 DEF LockNext, Granted, WaitsFor, Wanted
  <2>2. QED
    BY <1>7, <2>1 DEF Exclusive, held
<1>13. QED
  BY <1>5, <1>7, <1>8, <1>9, <1>10, <1>11, <1>12, LockingStep

-----------------------------------------------------------------------------
(* A command writes.                                                       *)

LEMMA OneWritten ==
  ASSUME NEW i \in Ids, NEW row \in AttemptRow, NEW w, w = Adding(<<>>, i, row)
  PROVE  w \in Uncommitted /\ DOMAIN w = {i} /\ w[i] = row
<1>1. w = [j \in {i} |-> row]
  BY DEF Adding
<1>2. [j \in {i} |-> row] \in [{i} -> AttemptRow] /\ {i} \in SUBSET Ids
  OBVIOUS
<1>3. QED
  BY <1>1, <1>2 DEF Uncommitted

LEMMA RecognizedTyped ==
  ASSUME TypeOK, NEW f \in Files, batches[f] # None
  PROVE  Recognized(f) \in SUBSET Recognition
<1>1. batches[f] \in Batch(f)
  BY DEF TypeOK
<1>2. ASSUME NEW i \in DOMAIN Rows[f]
      PROVE  <<f, i, batches[f].rows[i].course>> \in Recognition
  <2>1. batches[f].rows[i].course \in Courses \cup {None}
    BY <1>1 DEF Batch, CandidateRow
  <2>2. <<f, i, batches[f].rows[i].course>> \in {f} \X (DOMAIN Rows[f]) \X (Courses \cup {None})
    BY <2>1
  <2>3. QED
    BY <2>2 DEF Recognition
<1>3. QED
  BY <1>2 DEF Recognized

\* A transaction with what it has written.
WithWrites(t, w, recognized, seen, older) ==
    [t EXCEPT !.writes = w, !.recognized = recognized, !.seen = seen, !.older = older]

LEMMA WithWritesTyped ==
  ASSUME NEW t \in Transaction, NEW w \in Uncommitted, NEW recognized \in SUBSET Recognition,
         NEW seen \in AuditInput, NEW older \in SUBSET Clients
  PROVE  LET new == WithWrites(t, w, recognized, seen, older) IN
         /\ new \in Transaction
         /\ new.kind = t.kind /\ new.id = t.id /\ new.target = t.target /\ new.held = t.held
         /\ new.todo = t.todo /\ new.writes = w /\ new.recognized = recognized
         /\ new.seen = seen /\ new.alone = t.alone
<1>1. WithWrites(t, w, recognized, seen, older) \in Transaction
  BY DEF WithWrites, Transaction
<1>2. LET new == WithWrites(t, w, recognized, seen, older) IN
         /\ new.kind = t.kind /\ new.id = t.id /\ new.target = t.target /\ new.held = t.held
         /\ new.todo = t.todo /\ new.writes = w /\ new.recognized = recognized
         /\ new.seen = seen /\ new.alone = t.alone
  BY DEF WithWrites, Transaction
<1>3. QED
  BY <1>1, <1>2

\* What a command writes, by its kind: a new row, the row it changes, or those of a file.
LEMMA CreateWrites ==
  ASSUME IInv, NEW c \in Clients, Write(c), tx[c].kind = "create"
  PROVE  \E i \in Ids \ Taken :
             /\ Writes(c) \in Uncommitted /\ DOMAIN Writes(c) = {i} /\ Writes(c)[i] = tx[c].target
<1>1. Writes(c) = Adding(<<>>, Fresh(<<>>), tx[c].target)
  BY DEF Writes
<1>2. DOMAIN <<>> = {} /\ Ids \ Taken # {}
  <2>1. Cardinality(Ids \ Taken) >= 1
    BY DEF Write, Room
  <2>2. QED
    BY <2>1, FS_EmptySet
<1>3. Fresh(<<>>) \in Ids \ Taken
  BY <1>2, FreshIsFree
<1>4. tx[c].target \in AttemptRow
  BY DEF IInv, Commands, Command
<1> DEFINE i == Fresh(<<>>)
<1> HIDE DEF i
<1>5. Writes(c) \in Uncommitted /\ DOMAIN Writes(c) = {i} /\ Writes(c)[i] = tx[c].target
  BY ZenonT(60), <1>1, <1>3, <1>4, OneWritten DEF i
<1>6. QED
  BY <1>3, <1>5 DEF i

LEMMA ChangeWrites ==
  ASSUME IInv, NEW c \in Clients, Write(c), tx[c].kind \in {"update", "annul"}
  PROVE  /\ Writes(c) \in Uncommitted
         /\ tx[c].id \in Created
         /\ \A i \in DOMAIN Writes(c) : i = tx[c].id /\ Writes(c)[i] = tx[c].target
<1>1. tx[c].id \in Created /\ tx[c].id \in Ids /\ tx[c].target \in AttemptRow
  BY DEF IInv, Commands, Command, Created
<1>2. CASE Writes(c) = Adding(<<>>, tx[c].id, tx[c].target)
  <2> DEFINE i == tx[c].id
             row == tx[c].target
  <2> HIDE DEF i, row
  <2>1. i \in Ids /\ row \in AttemptRow /\ Writes(c) = Adding(<<>>, i, row)
    BY <1>1, <1>2 DEF i, row
  <2>2. Writes(c) \in Uncommitted /\ DOMAIN Writes(c) = {i} /\ Writes(c)[i] = row
    BY <2>1, OneWritten
  <2>3. QED
    BY <1>1, <2>2 DEF i, row
<1>3. CASE Writes(c) = <<>>
  <2>1. NoTx.writes = <<>> /\ NoTx \in Transaction
    BY EmptyRecords DEF NoTx
  <2>2. <<>> \in Uncommitted
    BY <2>1 DEF Transaction
  <2>3. QED
    BY <1>1, <1>3, <2>2
<1>4. QED
  BY <1>2, <1>3 DEF Writes

LEMMA ConfirmWrites ==
  ASSUME IInv, NEW c \in Clients, Write(c), tx[c].kind = "confirm"
  PROVE  /\ tx[c].id \in Files /\ batches[tx[c].id] # None
         /\ Writes(c) \in Uncommitted /\ DOMAIN Writes(c) \subseteq Ids \ Taken
         /\ Inserted(tx[c].id, Len(Rows[tx[c].id]), Writes(c))
<1> DEFINE f == tx[c].id
<1>1. f \in Files /\ batches[f] # None
  BY DEF IInv, Commands, Command
<1>2. Room(Cardinality(Accepted(f)))
  BY DEF Write
<1>3. Writes(c) = Imported(f)
  BY DEF Writes
<1>4. Inserted(f, Len(Rows[f]), Writes(c))
  BY <1>1, <1>2, <1>3, ImportIsInserted DEF IInv
<1>5. DOMAIN Writes(c) \subseteq Ids \ Taken /\ Writes(c) \in [DOMAIN Writes(c) -> AttemptRow]
  BY <1>4 DEF Inserted
<1>6. QED
  BY <1>1, <1>4, <1>5 DEF Uncommitted

\* Those rows keep to what the transaction locked, reviewed and looked at again.
LEMMA WritesAreSound ==
  ASSUME IInv, NEW c \in Clients, Write(c), NEW t,
         t.kind = tx[c].kind, t.id = tx[c].id, t.target = tx[c].target, t.held = tx[c].held,
         t.writes = Writes(c)
  PROVE  OwnRow(t) /\ NewRows(t) /\ UnderLock(t) /\ OwnNumbers(t) /\ ByHand(t) /\ ItsRows(t)
<1> USE DEF IInv
<1>1. Command(c) /\ tx[c].todo = {} /\ StillAllowed(c)
  BY DEF Commands, Write
<1>2. \A j \in Ids \ Taken : attempts[j] = None
  BY DEF Taken, Created
<1>3. CASE t.kind = "create"
  <2>1. PICK i \in Ids \ Taken : DOMAIN t.writes = {i} /\ t.writes[i] = t.target
    BY <1>3, CreateWrites
  <2>2. t.target.file = None /\ PairLocks(t.target.course, t.target.term) \subseteq t.held
    BY <1>1, <1>3 DEF Command
  <2>3. /\ <<t.target.course, t.target.term>> \in valid
        /\ t.target.number \notin Used(attempts, t.target.course, 0)
    BY <1>1, <1>3 DEF StillAllowed
  <2>4. UnderLock(t)
    BY <2>1, <2>2, <2>3 DEF UnderLock, PairLocks
  <2>5. OwnNumbers(t)
    BY <2>1, <2>3 DEF OwnNumbers, Overlay, Used, Ids
  <2>6. QED
    BY <1>2, <1>3, <2>1, <2>2, <2>4, <2>5 DEF OwnRow, NewRows, ByHand, ItsRows
<1>4. CASE t.kind \in {"update", "annul"}
  <2>1. \A i \in DOMAIN t.writes : i = t.id /\ t.writes[i] = t.target
    BY <1>4, ChangeWrites
  <2>2. CASE t.kind = "update"
    <3>1. PairLocks(t.target.course, t.target.term) \subseteq t.held
      BY <1>1, <2>2 DEF Command
    <3>2. /\ <<t.target.course, t.target.term>> \in valid
          /\ t.target.number \notin Used(attempts, t.target.course, t.id)
      BY <1>1, <2>2 DEF StillAllowed
    <3>3. UnderLock(t)
      BY <2>1, <3>1, <3>2 DEF UnderLock, PairLocks
    <3>4. OwnNumbers(t)
      BY <2>1, <3>2 DEF OwnNumbers, Overlay, Used
    <3>5. QED
      BY <2>1, <2>2, <3>3, <3>4 DEF OwnRow, NewRows, ByHand, ItsRows
  <2>3. CASE t.kind = "annul"
    BY <2>1, <2>3 DEF OwnRow, NewRows, UnderLock, OwnNumbers, ByHand, ItsRows
  <2>4. QED
    BY <1>4, <2>2, <2>3
<1>5. CASE t.kind = "confirm"
  <2> DEFINE f == t.id
             top == Len(Rows[f])
  <2>1. f \in Files /\ DOMAIN t.writes \subseteq Ids \ Taken /\ Inserted(f, top, t.writes)
    BY <1>5, ConfirmWrites
  <2>2. \A k \in Accepted(f) : k \in DOMAIN Rows[f] /\ k <= top
    BY <2>1, RowsAreListed DEF Accepted
  <2>3. /\ \A i \in DOMAIN t.writes :
              LET k == t.writes[i].row
              IN  /\ t.writes[i].file = f /\ k \in Accepted(f)
                  /\ t.writes[i].course = batches[f].rows[k].course /\ t.writes[i].term = Rows[f][k].term
        /\ \A k \in Accepted(f) : \E i \in DOMAIN t.writes : t.writes[i].row = k
        /\ \A i, j \in DOMAIN t.writes : t.writes[i].row = t.writes[j].row => i = j
    BY <2>1, <2>2 DEF Inserted
  <2>4. \A k \in Accepted(f) : /\ <<"course", batches[f].rows[k].course>> \in t.held
                               /\ <<batches[f].rows[k].course, Rows[f][k].term>> \in valid
    <3>1. ConfirmLocks(f) \subseteq t.held
      BY <1>1, <1>5 DEF Command
    <3>2. ASSUME NEW k \in Accepted(f) PROVE <<"course", batches[f].rows[k].course>> \in ConfirmLocks(f)
      BY DEF ConfirmLocks, PairLocks
    <3>3. RowsStillAllowed(f)
      BY <1>1, <1>5 DEF StillAllowed
    <3>4. QED
      BY <2>2, <3>1, <3>2, <3>3 DEF RowsStillAllowed, Accepted
  <2>5. UnderLock(t)
    BY Z3, <2>3, <2>4 DEF UnderLock
  <2>6. OwnNumbers(t)
    BY <2>1 DEF Inserted, OwnNumbers
  <2>7. NewRows(t)
    BY <1>2, <2>1 DEF NewRows
  <2>8. QED
    BY <1>5, <2>3, <2>5, <2>6, <2>7 DEF OwnRow, ByHand, ItsRows
<1>6. t.kind \in {"create", "update", "annul", "confirm"}
  <2>1. pc[c] = "locking" /\ tx[c] \in Transaction
    BY DEF Write, Go, TypeOK
  <2>2. QED
    BY <2>1 DEF Commands, Transaction, Kinds
<1>7. QED
  BY <1>3, <1>4, <1>5, <1>6

LEMMA WriteKeeps ==
  ASSUME IInv, NEW c \in Clients, Write(c)
  PROVE  IInv'
<1> USE DEF IInv
<1> DEFINE f == tx[c].id
           recognized == IF tx[c].kind = "confirm" THEN Recognized(f) ELSE {}
           seen == Seen(Writes(c), recognized)
           t == WithWrites(tx[c], Writes(c), recognized, seen, InFlight)
<1>1. /\ pc[c] = "locking" /\ pc' = [pc EXCEPT ![c] = "written"] /\ tx' = [tx EXCEPT ![c] = t]
      /\ UNCHANGED <<stored, valid, view>>
  BY DEF Write, Go, WithWrites
<1>2. UNCHANGED <<attempts, batches, recognitions, audit, overlap, valid, view>>
  BY <1>1 DEF stored
<1>3. tx[c] \in Transaction /\ tx[c].kind \in {"create", "update", "annul", "confirm"} /\ Command(c)
      /\ tx[c].todo = {}
  <2>1. tx[c] \in Transaction /\ tx[c].kind \in Kinds /\ tx[c].kind # "none" /\ Command(c)
    BY <1>1 DEF TypeOK, Transaction, Commands
  <2>2. QED
    BY <2>1 DEF Kinds, Write
<1>4. Writes(c) \in Uncommitted
  <2>1. CASE tx[c].kind = "create"
    BY <2>1, CreateWrites
  <2>2. CASE tx[c].kind \in {"update", "annul"}
    BY <2>2, ChangeWrites
  <2>3. CASE tx[c].kind = "confirm"
    BY <2>3, ConfirmWrites
  <2>4. QED
    BY <1>3, <2>1, <2>2, <2>3
<1>5. recognized \in SUBSET Recognition
  BY <1>3, RecognizedTyped DEF Command
<1>6. seen \in AuditInput
  <2>1. Overlay(Writes(c)) \in [Ids -> AttemptRow \cup {None}]
    BY <1>4, OverlayTyped
  <2>2. recognitions \cup recognized \in SUBSET Recognition
    BY <1>5 DEF TypeOK
  <2> HIDE DEF recognized
  <2>3. QED
    BY <2>1, <2>2, FactsTyped DEF Seen
<1>7. InFlight \in SUBSET Clients
  BY DEF InFlight
<1> HIDE DEF recognized, seen
<1>8. /\ t \in Transaction
      /\ t.kind = tx[c].kind /\ t.id = f /\ t.target = tx[c].target /\ t.held = tx[c].held
      /\ t.todo = {} /\ t.writes = Writes(c) /\ t.recognized = recognized /\ t.seen = seen
  BY <1>3, <1>4, <1>5, <1>6, <1>7, WithWritesTyped
<1> HIDE DEF t, f
<1>9. \A d \in Clients : /\ tx'[d] = IF d = c THEN t ELSE tx[d]
                         /\ pc'[d] = IF d = c THEN "written" ELSE pc[d]
  BY <1>1 DEF TypeOK
<1>10. TypeOK'
  BY <1>1, <1>2, <1>8 DEF TypeOK, Places
<1>11. BatchesKnown' /\ Stored'
  BY SMTT(60), <1>2 DEF BatchesKnown, Accepted, Stored, NumbersDiffer, FromApplied, OncePerRow, NoneLeftOut,
     AllRecognized, SerialAuditIsCurrent, Created, IsApplied, Recognized
<1>12. Exclusive'
  BY <1>8, <1>9 DEF Exclusive
<1>13. Views'
  BY <1>1, <1>2, <1>9 DEF Views, Created
<1>14. Created' = Created /\ \A g : ConfirmLocks(g)' = ConfirmLocks(g)
  BY <1>2 DEF Created, ConfirmLocks, Accepted
<1>15. Commands'
  <2>1. ASSUME NEW d \in Clients PROVE Command(d)'
    <3>1. Command(d)
      BY DEF Commands
    <3>2. CASE d = c
      BY <1>2, <1>3, <1>8, <1>9, <1>14, <3>1, <3>2 DEF Command, f
    <3>3. CASE d # c
      BY <1>2, <1>9, <1>14, <3>1, <3>3 DEF Command
    <3>4. QED
      BY <3>2, <3>3
  <2>2. QED
    BY <1>1, <1>3, <1>8, <1>9, <2>1 DEF Commands
<1>16. InFlight' = InFlight \cup {c} /\ c \notin InFlight
  BY <1>1, <1>9 DEF InFlight
<1>17. ASSUME NEW d \in InFlight' PROVE Writing(tx[d])'
  <2>1. \A g : Accepted(g)' = Accepted(g) /\ Recognized(g)' = Recognized(g)
    BY <1>2 DEF Accepted, Recognized
  <2>2. \A w : Overlay(w)' = Overlay(w)
    BY <1>2 DEF Overlay
  <2>3. CASE d = c
    <3>1. OwnRow(t) /\ NewRows(t) /\ UnderLock(t) /\ OwnNumbers(t) /\ ByHand(t) /\ ItsRows(t)
      BY <1>8, WritesAreSound DEF f
    <3>2. Recognizes(t) /\ SeesItAll(t)
      BY <1>8 DEF Recognizes, SeesItAll, recognized, seen, Seen, f
    <3>3. tx'[d] = t
      BY <1>9, <2>3
    <3>4. OwnRow(tx[d])' /\ NewRows(tx[d])' /\ UnderLock(tx[d])' /\ ByHand(tx[d])'
      BY <1>2, <3>1, <3>3 DEF OwnRow, NewRows, UnderLock, ByHand
    <3>5. OwnNumbers(tx[d])' /\ SeesItAll(tx[d])'
      BY <1>2, <2>2, <3>1, <3>2, <3>3 DEF OwnNumbers, SeesItAll, Facts
    <3>6. ItsRows(tx[d])' /\ Recognizes(tx[d])'
      BY <2>1, <3>1, <3>2, <3>3 DEF ItsRows, Recognizes
    <3>7. QED
      BY <3>4, <3>5, <3>6 DEF Writing
  <2>4. CASE d # c
    <3>1. Writing(tx[d]) /\ tx'[d] = tx[d]
      BY <1>9, <1>16, <2>4 DEF Writings, InFlight
    <3>4. OwnRow(tx[d])' /\ NewRows(tx[d])' /\ UnderLock(tx[d])' /\ ByHand(tx[d])'
      BY <1>2, <3>1 DEF Writing, OwnRow, NewRows, UnderLock, ByHand
    <3>5. OwnNumbers(tx[d])' /\ SeesItAll(tx[d])'
      BY <1>2, <2>2, <3>1 DEF Writing, OwnNumbers, SeesItAll, Facts
    <3>6. ItsRows(tx[d])' /\ Recognizes(tx[d])'
      BY <2>1, <3>1 DEF Writing, ItsRows, Recognizes
    <3>7. QED
      BY <3>4, <3>5, <3>6 DEF Writing
  <2>5. QED
    BY <2>3, <2>4
<1>18. ASSUME NEW d \in InFlight PROVE DOMAIN t.writes \cap DOMAIN tx[d].writes = {}
  <2>1. SUFFICES ASSUME NEW i \in DOMAIN Writes(c), i \in DOMAIN tx[d].writes PROVE FALSE
    BY <1>8
  <2>2. d \in Clients /\ d # c /\ Writing(tx[d]) /\ Command(d) /\ i \in Taken
    BY <1>16, <2>1 DEF InFlight, Writings, Commands, Taken
  <2>3. tx[c].kind \in {"update", "annul"} /\ i = f /\ i \in Created /\ <<"attempt", i>> \in tx[c].held
    <3>1. tx[c].kind # "create"
      BY <2>1, <2>2, CreateWrites
    <3>2. tx[c].kind # "confirm"
      BY <2>1, <2>2, ConfirmWrites
    <3>3. tx[c].kind \in {"update", "annul"}
      BY <1>3, <3>1, <3>2
    <3>4. i = f /\ i \in Created
      BY <2>1, <3>3, ChangeWrites DEF f
    <3>5. QED
      BY <1>3, <3>3, <3>4 DEF Command, f
  <2>4. tx[d].kind \in {"create", "update", "annul", "confirm"}
    BY <2>2 DEF Commands, InFlight, TypeOK, Transaction, Kinds
  <2>5. tx[d].kind \in {"update", "annul"} /\ i = tx[d].id
    BY <2>1, <2>2, <2>3, <2>4 DEF Writing, NewRows, OwnRow, Created
  <2>6. <<"attempt", i>> \in tx[d].held
    BY <2>2, <2>5 DEF Command
  <2>7. QED
    BY <2>2, <2>3, <2>6 DEF Exclusive
<1>19. Writings'
  <2>1. \A d \in Clients : pc'[d] # "written" => tx'[d].writes = <<>>
    BY <1>9 DEF Writings
  <2>2. ASSUME NEW d \in InFlight', NEW e \in InFlight', d # e
        PROVE  DOMAIN tx'[d].writes \cap DOMAIN tx'[e].writes = {}
    <3>1. d \in Clients /\ e \in Clients
      BY DEF InFlight
    <3>2. CASE d = c
      BY <1>9, <1>16, <1>18, <2>2, <3>1, <3>2
    <3>3. CASE e = c
      BY <1>9, <1>16, <1>18, <2>2, <3>1, <3>3
    <3>4. CASE d # c /\ e # c
      BY <1>9, <1>16, <2>2, <3>1, <3>4 DEF Writings
    <3>5. QED
      BY <3>2, <3>3, <3>4
  <2>3. QED
    BY <1>17, <2>1, <2>2 DEF Writings
<1>20. QED
  BY <1>10, <1>11, <1>12, <1>13, <1>15, <1>19

-----------------------------------------------------------------------------
(* A transaction ends.                                                     *)

\* What the others keep.
Ended(t, older, alone, late) == [t EXCEPT !.older = older, !.alone = alone, !.late = late]
Keeps(t, new) ==
    /\ new.kind = t.kind /\ new.id = t.id /\ new.target = t.target /\ new.held = t.held
    /\ new.todo = t.todo /\ new.writes = t.writes /\ new.recognized = t.recognized
    /\ new.seen = t.seen

LEMMA EndedTyped ==
  ASSUME NEW t \in Transaction, NEW older \in SUBSET Clients, NEW alone \in BOOLEAN, NEW late \in BOOLEAN
  PROVE  LET new == Ended(t, older, alone, late) IN
         new \in Transaction /\ Keeps(t, new) /\ (new.alone => alone)
<1>1. Ended(t, older, alone, late) \in Transaction
  BY DEF Ended, Transaction
<1>2. Keeps(t, Ended(t, older, alone, late))
  BY DEF Ended, Transaction, Keeps
<1>3. Ended(t, older, alone, late).alone = alone
  BY DEF Ended, Transaction
<1>4. QED
  BY <1>1, <1>2, <1>3

LEMMA OthersGoOn ==
  ASSUME TypeOK, NEW c \in Clients, NEW committed \in BOOLEAN, tx' = EndOf(c, committed)
  PROVE  /\ tx' \in [Clients -> Transaction] /\ tx'[c] = NoTx
         /\ \A d \in Clients \ {c} :
               /\ Keeps(tx[d], tx'[d])
               /\ tx'[d].alone => tx[d].alone /\ ~(committed /\ pc[d] = "written")
<1> DEFINE older(d) == tx[d].older \ {c}
           alone(d) == tx[d].alone /\ ~(committed /\ pc[d] = "written")
           late(d) == tx[d].late \/ (committed /\ d \in tx[c].older)
<1>1. tx' = [d \in Clients |-> IF d = c THEN NoTx ELSE Ended(tx[d], older(d), alone(d), late(d))]
  BY DEF EndOf, Ended
<1>2. ASSUME NEW d \in Clients
      PROVE  tx[d] \in Transaction /\ older(d) \in SUBSET Clients /\ alone(d) \in BOOLEAN /\ late(d) \in BOOLEAN
  <2>1. tx[d] \in Transaction
    BY DEF TypeOK
  <2>2. older(d) \in SUBSET Clients
    BY <2>1 DEF Transaction
  <2>3. QED
    BY <2>1, <2>2
<1>3. ASSUME NEW d \in Clients, alone(d) PROVE tx[d].alone /\ ~(committed /\ pc[d] = "written")
  BY <1>3
<1> HIDE DEF older, alone, late
<1>4. ASSUME NEW d \in Clients
      PROVE  LET new == Ended(tx[d], older(d), alone(d), late(d)) IN
             new \in Transaction /\ Keeps(tx[d], new) /\ (new.alone => alone(d))
  BY <1>2, EndedTyped
<1>5. tx' \in [Clients -> Transaction]
  BY <1>1, <1>4, EmptyRecords
<1>6. \A d \in Clients \ {c} : tx'[d] = Ended(tx[d], older(d), alone(d), late(d))
  BY <1>1
<1>7. tx'[c] = NoTx
  BY <1>1
<1>8. QED
  BY <1>3, <1>4, <1>5, <1>6, <1>7

LEMMA RollBackKeeps ==
  ASSUME IInv, NEW c \in Clients, RollBack(c)
  PROVE  IInv'
<1> USE DEF IInv
<1>1. /\ pc' = [pc EXCEPT ![c] = "idle"] /\ tx' = EndOf(c, FALSE) /\ view' = [view EXCEPT ![c] = NoView]
      /\ UNCHANGED <<attempts, batches, recognitions, audit, overlap, valid>>
  BY DEF RollBack, stored
<1>2. /\ tx' \in [Clients -> Transaction] /\ tx'[c] = NoTx
      /\ \A d \in Clients \ {c} : Keeps(tx[d], tx'[d]) /\ (tx'[d].alone => tx[d].alone)
  BY <1>1, OthersGoOn
<1>3. /\ \A d \in Clients \ {c} : pc'[d] = pc[d] /\ view'[d] = view[d]
      /\ pc'[c] = "idle" /\ view'[c] = NoView
  BY <1>1 DEF TypeOK
<1>4. NoTx.kind = "none" /\ NoTx.held = {} /\ NoTx.writes = <<>>
  BY DEF NoTx
<1>5. TypeOK'
  BY <1>1, <1>2, EmptyRecords DEF TypeOK, Places
<1>6. BatchesKnown' /\ Stored'
  BY SMTT(60), <1>1 DEF BatchesKnown, Accepted, Stored, NumbersDiffer, FromApplied, OncePerRow, NoneLeftOut,
     AllRecognized, SerialAuditIsCurrent, Created, IsApplied, Recognized
<1>7. Exclusive'
  BY <1>2, <1>4 DEF Exclusive, Keeps
<1>8. Created' = Created /\ \A g : ConfirmLocks(g)' = ConfirmLocks(g)
  BY <1>1 DEF Created, ConfirmLocks, Accepted
<1>9. Views'
  BY <1>1, <1>3, <1>8 DEF Views
<1>10. Commands'
  <2>1. Command(c)'
    BY <1>2, <1>4 DEF Command
  <2>2. ASSUME NEW d \in Clients \ {c} PROVE Command(d)'
    <3>1. Command(d) /\ Keeps(tx[d], tx'[d]) /\ view'[d] = view[d]
      BY <1>2, <1>3 DEF Commands
    <3>2. QED
      BY <1>1, <1>8, <3>1 DEF Command, Keeps
  <2>3. QED
    BY <1>2, <1>3, <1>4, <2>1, <2>2 DEF Commands, Keeps
<1>11. InFlight' = InFlight \ {c}
  BY <1>3 DEF InFlight
<1>12. ASSUME NEW d \in InFlight' PROVE Writing(tx[d])'
  <2>1. \A g : Accepted(g)' = Accepted(g) /\ Recognized(g)' = Recognized(g)
    BY <1>1 DEF Accepted, Recognized
  <2>2. \A w : Overlay(w)' = Overlay(w)
    BY <1>1 DEF Overlay
  <2>3. d \in Clients \ {c} /\ Writing(tx[d]) /\ Keeps(tx[d], tx'[d]) /\ (tx'[d].alone => tx[d].alone)
    BY <1>2, <1>11 DEF Writings, InFlight
  <2>4. OwnRow(tx[d])' /\ NewRows(tx[d])' /\ UnderLock(tx[d])' /\ ByHand(tx[d])'
    BY ZenonT(60), <1>1, <2>3 DEF Writing, OwnRow, NewRows, UnderLock, ByHand, Keeps
  <2>5. OwnNumbers(tx[d])' /\ SeesItAll(tx[d])'
    <3>1. Overlay(tx[d].writes)' = Overlay(tx[d].writes)
      BY <2>2, <2>3 DEF Keeps
    <3>2. OwnNumbers(tx[d])'
      BY <2>3, <3>1 DEF Writing, OwnNumbers, Keeps
    <3>3. SeesItAll(tx[d])'
      BY <1>1, <2>3, <3>1 DEF Writing, SeesItAll, Keeps
    <3>4. QED
      BY <3>2, <3>3
  <2>6. ItsRows(tx[d])' /\ Recognizes(tx[d])'
    BY <2>1, <2>3 DEF Writing, ItsRows, Recognizes, Keeps
  <2>7. QED
    BY <2>4, <2>5, <2>6 DEF Writing
<1>13. Writings'
  <2>1. \A d \in Clients : pc'[d] # "written" => tx'[d].writes = <<>>
    BY <1>2, <1>3, <1>4 DEF Writings, Keeps
  <2>2. \A d, e \in InFlight' : d # e => DOMAIN tx'[d].writes \cap DOMAIN tx'[e].writes = {}
    BY <1>2, <1>11 DEF Writings, InFlight, Keeps
  <2>3. QED
    BY <1>12, <2>1, <2>2 DEF Writings
<1>14. QED
  BY <1>5, <1>6, <1>7, <1>9, <1>10, <1>13

-----------------------------------------------------------------------------
\* Closing a course waits for whoever is writing one of its attempts.
LEMMA CloseKeeps ==
  ASSUME IInv, NEW p \in Closings, Close(p[1], p[2])
  PROVE  IInv'
<1> USE DEF IInv
<1>1. PICK course \in Courses, term \in Terms : course = p[1] /\ term = p[2]
  BY InputAssumption
<1>2. /\ UNCHANGED <<attempts, batches, recognitions, audit, overlap, pc, view, tx>>
      /\ valid' = {q \in valid : q[1] # course \/ q[2] < term}
      /\ ~Held(<<"course", course>>)
  BY <1>1 DEF Close, stored
<1>3. TypeOK'
  BY <1>2 DEF TypeOK
<1>4. BatchesKnown' /\ Stored'
  BY SMTT(60), <1>2 DEF BatchesKnown, Accepted, Stored, NumbersDiffer, FromApplied, OncePerRow, NoneLeftOut,
     AllRecognized, SerialAuditIsCurrent, Created, IsApplied, Recognized
<1>5. Exclusive'
  BY <1>2 DEF Exclusive
<1>6. Created' = Created /\ \A g : ConfirmLocks(g)' = ConfirmLocks(g)
  BY <1>2 DEF Created, ConfirmLocks, Accepted
<1>7. Views'
  BY <1>2, <1>6 DEF Views
<1>8. Commands'
  BY <1>2, <1>6 DEF Commands, Command
<1>9. InFlight' = InFlight
  BY <1>2 DEF InFlight
<1>10. ASSUME NEW d \in InFlight PROVE Writing(tx[d])'
  <2>1. \A g : Accepted(g)' = Accepted(g) /\ Recognized(g)' = Recognized(g)
    BY <1>2 DEF Accepted, Recognized
  <2>2. \A w : Overlay(w)' = Overlay(w)
    BY <1>2 DEF Overlay
  <2>3. d \in Clients /\ Writing(tx[d]) /\ tx'[d] = tx[d]
    BY <1>2 DEF Writings, InFlight
  <2>4. OwnRow(tx[d])' /\ NewRows(tx[d])' /\ ByHand(tx[d])'
    BY <1>2, <2>3 DEF Writing, OwnRow, NewRows, ByHand
  <2>5. OwnNumbers(tx[d])' /\ SeesItAll(tx[d])'
    BY <1>2, <2>2, <2>3 DEF Writing, OwnNumbers, SeesItAll, Facts
  <2>6. ItsRows(tx[d])' /\ Recognizes(tx[d])'
    BY <2>1, <2>3 DEF Writing, ItsRows, Recognizes
  <2>7. UnderLock(tx[d])'
    <3>1. \A q \in valid : q[1] # course => q \in valid'
      BY <1>2
    <3>2. <<"course", course>> \notin tx[d].held
      BY <1>2, <2>3 DEF Held
    <3>3. ASSUME NEW a, NEW b, <<a, b>> \in valid, <<"course", a>> \in tx[d].held
          PROVE  <<a, b>> \in valid'
      BY <3>1, <3>2, <3>3
    <3>4. QED
      BY <2>3, <3>3 DEF Writing, UnderLock
  <2>8. QED
    BY <2>4, <2>5, <2>6, <2>7 DEF Writing
<1>11. Writings'
  BY <1>2, <1>9, <1>10 DEF Writings
<1>12. QED
  BY <1>3, <1>4, <1>5, <1>7, <1>8, <1>11

-----------------------------------------------------------------------------
(* A commit.                                                               *)

LEMMA TouchedRow ==
  ASSUME NEW row \in CandidateRow
  PROVE  LET new == Touched(row)
         IN  new \in CandidateRow /\ new.decision = row.decision /\ new.course = row.course
<1> DEFINE version == row.version + 1
           new == [row EXCEPT !.version = version]
<1>1. version \in Nat
  BY DEF CandidateRow
<1> HIDE DEF version
<1>2. new \in CandidateRow /\ new.decision = row.decision /\ new.course = row.course
  BY <1>1 DEF CandidateRow
<1>3. QED
  BY <1>2 DEF Touched, version

LEMMA BatchReplaced ==
  ASSUME NEW S, NEW R, NEW batch \in [status : S, version : Nat, rows : R],
         NEW status \in S, NEW version \in Nat, NEW rows \in R
  PROVE  LET after == [batch EXCEPT !.status = status, !.version = version, !.rows = rows] IN
         /\ after \in [status : S, version : Nat, rows : R]
         /\ after.status = status /\ after.version = version /\ after.rows = rows
<1>1. [batch EXCEPT !.status = status, !.version = version, !.rows = rows] \in [status : S, version : Nat, rows : R]
  OBVIOUS
<1>2. LET after == [batch EXCEPT !.status = status, !.version = version, !.rows = rows] IN
         after.status = status /\ after.version = version /\ after.rows = rows
  OBVIOUS
<1>3. QED
  BY <1>1, <1>2

LEMMA AppliedTyped ==
  ASSUME NEW f \in Files, NEW batch \in Batch(f)
  PROVE  LET after == Applied(batch) IN
         /\ after \in Batch(f) /\ after.status = "APPLIED" /\ after.version = batch.version + 1
         /\ \A k \in DOMAIN Rows[f] : /\ after.rows[k].decision = batch.rows[k].decision
                                      /\ after.rows[k].course = batch.rows[k].course
<1> DEFINE version == batch.version + 1
           rows == [i \in DOMAIN batch.rows |-> Touched(batch.rows[i])]
           after == [batch EXCEPT !.status = "APPLIED", !.version = version, !.rows = rows]
<1>1. batch.rows \in [DOMAIN Rows[f] -> CandidateRow] /\ version \in Nat
  BY DEF Batch
<1>2. /\ rows \in [DOMAIN Rows[f] -> CandidateRow]
      /\ \A k \in DOMAIN Rows[f] : /\ rows[k].decision = batch.rows[k].decision
                                   /\ rows[k].course = batch.rows[k].course
  BY <1>1, TouchedRow
<1>3. Applied(batch) = after
  BY DEF Applied
<1> HIDE DEF version, rows
<1>4. after \in Batch(f) /\ after.status = "APPLIED" /\ after.version = version /\ after.rows = rows
  BY <1>1, <1>2, BatchReplaced DEF Batch
<1>5. QED
  BY <1>2, <1>3, <1>4 DEF version

\* What a transaction that has written is about to store.
LEMMA WrittenIsKnown ==
  ASSUME IInv, NEW c \in InFlight
  PROVE  /\ c \in Clients /\ Command(c) /\ Writing(tx[c]) /\ tx[c].todo = {}
         /\ tx[c] \in Transaction /\ tx[c].kind \in {"create", "update", "annul", "confirm"}
         /\ DOMAIN tx[c].writes \subseteq Ids
         /\ \A i \in DOMAIN tx[c].writes : tx[c].writes[i] \in AttemptRow /\ tx[c].writes[i] # None
<1>1. c \in Clients /\ Command(c) /\ Writing(tx[c]) /\ tx[c] \in Transaction /\ tx[c].kind # "none"
      /\ tx[c].todo = {}
  BY DEF IInv, InFlight, Commands, Writings, TypeOK
<1>2. tx[c].kind \in Kinds /\ tx[c].writes \in Uncommitted
  BY <1>1 DEF Transaction
<1>3. DOMAIN tx[c].writes \subseteq Ids /\ \A i \in DOMAIN tx[c].writes : tx[c].writes[i] \in AttemptRow
  BY <1>2 DEF Uncommitted
<1>4. QED
  BY <1>1, <1>2, <1>3, RowAssumption DEF Kinds

\* Two of them change different rows, and what one of them adds or moves it adds to a
\* course of which the other, if it adds or moves something too, has no lock.
LEMMA WritersApart ==
  ASSUME IInv, NEW c \in InFlight, NEW d \in Clients, c # d
  PROVE  /\ tx[d].kind \in {"update", "annul"} => tx[d].id \notin DOMAIN tx[c].writes
         /\ tx[c].kind \in {"create", "update", "confirm"} =>
               \A i \in DOMAIN tx[c].writes : <<"course", tx[c].writes[i].course>> \notin tx[d].held
         /\ tx[c].kind = "confirm" /\ tx[d].kind = "confirm" => tx[c].id # tx[d].id
<1>1. Command(d) /\ tx[c].held \cap tx[d].held = {}
  <2>1. c \in Clients
    BY DEF InFlight
  <2>2. QED
    BY <2>1 DEF IInv, Commands, Exclusive
<1>2. /\ Command(c) /\ Writing(tx[c]) /\ tx[c].kind \in {"create", "update", "annul", "confirm"}
  BY WrittenIsKnown
<1>3. ASSUME tx[d].kind \in {"update", "annul"}, tx[d].id \in DOMAIN tx[c].writes PROVE FALSE
  <2>1. tx[d].id \in Created /\ <<"attempt", tx[d].id>> \in tx[d].held
    BY <1>1, <1>3 DEF Command
  <2>2. tx[c].kind \in {"update", "annul"} /\ tx[d].id = tx[c].id
    BY <1>2, <1>3, <2>1 DEF Writing, NewRows, OwnRow, Created
  <2>3. <<"attempt", tx[c].id>> \in tx[c].held
    BY <1>2, <2>2 DEF Command
  <2>4. QED
    BY <1>1, <2>1, <2>2, <2>3
<1>4. tx[c].kind \in {"create", "update", "confirm"} =>
          \A i \in DOMAIN tx[c].writes : <<"course", tx[c].writes[i].course>> \in tx[c].held
  BY <1>2 DEF Writing, UnderLock
<1>5. ASSUME tx[c].kind = "confirm", tx[d].kind = "confirm" PROVE tx[c].id # tx[d].id
  BY <1>1, <1>2, <1>5 DEF Command
<1>6. QED
  BY <1>1, <1>3, <1>4, <1>5

\* What a commit leaves of the rows there were and of the batches.
LEMMA CommitEffects ==
  ASSUME IInv, NEW c \in Clients, Commit(c)
  PROVE  LET t == tx[c] IN
         /\ c \in InFlight
         /\ attempts' = Overlay(t.writes) /\ recognitions' = recognitions \cup t.recognized
         /\ audit' = (IF t.late THEN audit ELSE t.seen) /\ overlap' = (t.late \/ ~t.alone)
         /\ valid' = valid
         /\ \A i \in Ids : attempts'[i] = IF i \in DOMAIN t.writes THEN t.writes[i] ELSE attempts[i]
         /\ Created' = Created \cup DOMAIN t.writes
         /\ \A i \in Created : /\ attempts'[i].number = attempts[i].number
                               /\ attempts'[i].file = attempts[i].file
                               /\ attempts'[i].row = attempts[i].row
         /\ DOMAIN batches' = Files
         /\ \A f \in Files : /\ batches'[f] = IF t.kind = "confirm" /\ f = t.id THEN Applied(batches[f]) ELSE batches[f]
                             /\ batches'[f] = None <=> batches[f] = None
                             /\ IsApplied(f)' <=> IsApplied(f) \/ (t.kind = "confirm" /\ f = t.id)
                             /\ Accepted(f)' = Accepted(f) /\ Recognized(f)' = Recognized(f)
                             /\ ConfirmLocks(f)' = ConfirmLocks(f)
<1> DEFINE t == tx[c]
<1>1. /\ attempts' = Overlay(t.writes) /\ recognitions' = recognitions \cup t.recognized
      /\ audit' = (IF t.late THEN audit ELSE t.seen) /\ overlap' = (t.late \/ ~t.alone)
      /\ batches' = (IF t.kind = "confirm" THEN [batches EXCEPT ![t.id] = Applied(batches[t.id])] ELSE batches)
      /\ valid' = valid
  BY DEF Commit
<1>2. c \in InFlight
  BY DEF Commit, Go, InFlight
<1>3. /\ Command(c) /\ Writing(t) /\ t.kind \in {"create", "update", "annul", "confirm"}
      /\ DOMAIN t.writes \subseteq Ids /\ \A i \in DOMAIN t.writes : t.writes[i] # None
  BY <1>2, WrittenIsKnown
<1>4. \A i \in Ids : attempts'[i] = IF i \in DOMAIN t.writes THEN t.writes[i] ELSE attempts[i]
  BY <1>1 DEF Overlay
<1>5. Created' = Created \cup DOMAIN t.writes
  BY <1>3, <1>4 DEF Created
<1>6. ASSUME NEW i \in Created
      PROVE  /\ attempts'[i].number = attempts[i].number
             /\ attempts'[i].file = attempts[i].file
             /\ attempts'[i].row = attempts[i].row
  <2>1. CASE i \in DOMAIN t.writes
    <3>1. t.kind \in {"update", "annul"} /\ i = t.id /\ t.writes[i] = t.target
      BY <1>3, <2>1 DEF Writing, NewRows, OwnRow, Created
    <3>2. QED
      BY <1>3, <1>4, <2>1, <3>1 DEF Command, Created
  <2>2. CASE i \notin DOMAIN t.writes
    BY <1>4, <2>2 DEF Created
  <2>3. QED
    BY <2>1, <2>2
<1>7. t.kind = "confirm" => /\ t.id \in Files /\ batches[t.id] # None /\ batches[t.id] \in Batch(t.id)
                            /\ batches[t.id].status = "PREVIEW"
  BY <1>3 DEF Command, IInv, TypeOK
<1>8. /\ DOMAIN batches' = Files
      /\ \A f \in Files : batches'[f] = IF t.kind = "confirm" /\ f = t.id THEN Applied(batches[f]) ELSE batches[f]
  BY <1>1 DEF IInv, TypeOK
<1>9. ASSUME NEW f \in Files
      PROVE  /\ batches'[f] = None <=> batches[f] = None
             /\ IsApplied(f)' <=> IsApplied(f) \/ (t.kind = "confirm" /\ f = t.id)
             /\ \A k \in DOMAIN Rows[f] : /\ batches'[f].rows[k].decision = batches[f].rows[k].decision
                                          /\ batches'[f].rows[k].course = batches[f].rows[k].course
  <2>1. CASE t.kind = "confirm" /\ f = t.id
    <3>1. batches'[f] \in Batch(f) /\ batches'[f].status = "APPLIED"
          /\ \A k \in DOMAIN Rows[f] : /\ batches'[f].rows[k].decision = batches[f].rows[k].decision
                                       /\ batches'[f].rows[k].course = batches[f].rows[k].course
      BY <1>7, <1>8, <2>1, AppliedTyped
    <3>2. batches'[f] # None
      BY <3>1, RowAssumption
    <3>3. QED
      BY <1>7, <2>1, <3>1, <3>2 DEF IsApplied
  <2>2. CASE ~(t.kind = "confirm" /\ f = t.id)
    BY <1>8, <2>2 DEF IsApplied
  <2>3. QED
    BY <2>1, <2>2
<1>10. ASSUME NEW f \in Files PROVE Accepted(f)' = Accepted(f) /\ Recognized(f)' = Recognized(f)
  BY <1>9 DEF Accepted, Recognized
<1>11. ASSUME NEW f \in Files PROVE ConfirmLocks(f)' = ConfirmLocks(f)
  <2>1. Accepted(f)' = Accepted(f) /\ Accepted(f) \subseteq DOMAIN Rows[f]
    BY <1>10 DEF Accepted
  <2>2. \A k \in Accepted(f) : batches'[f].rows[k].course = batches[f].rows[k].course
    BY <1>9, <2>1
  <2>3. QED
    BY <2>1, <2>2 DEF ConfirmLocks
<1> HIDE DEF t
<1>12. QED
  BY <1>1, <1>2, <1>4, <1>5, <1>6, <1>8, <1>9, <1>10, <1>11 DEF t

LEMMA TypedCommit ==
  ASSUME IInv, NEW c \in Clients, Commit(c)
  PROVE  TypeOK' /\ BatchesKnown'
<1> DEFINE t == tx[c]
<1>1. /\ c \in InFlight /\ attempts' = Overlay(t.writes) /\ recognitions' = recognitions \cup t.recognized
      /\ audit' = (IF t.late THEN audit ELSE t.seen) /\ overlap' = (t.late \/ ~t.alone) /\ valid' = valid
      /\ DOMAIN batches' = Files
      /\ \A f \in Files : /\ batches'[f] = IF t.kind = "confirm" /\ f = t.id THEN Applied(batches[f]) ELSE batches[f]
                          /\ batches'[f] = None <=> batches[f] = None
                          /\ Accepted(f)' = Accepted(f)
  BY CommitEffects
<1>2. t \in Transaction /\ t.writes \in Uncommitted /\ t.recognized \in SUBSET Recognition
      /\ t.seen \in AuditInput /\ t.late \in BOOLEAN /\ t.alone \in BOOLEAN
  BY <1>1, WrittenIsKnown DEF Transaction
<1>3. attempts' \in [Ids -> AttemptRow \cup {None}]
  BY <1>1, <1>2, OverlayTyped DEF IInv
<1>4. recognitions' \subseteq Recognition /\ audit' \in AuditInput /\ overlap' \in BOOLEAN /\ valid' \subseteq Courses \X Terms
  BY <1>1, <1>2 DEF IInv, TypeOK
<1>5. ASSUME NEW f \in Files, batches[f] # None
      PROVE  /\ batches'[f] \in Batch(f)
             /\ \A k \in DOMAIN Rows[f] : batches'[f].rows[k].course = batches[f].rows[k].course
  <2>1. batches[f] \in Batch(f)
    BY <1>5 DEF IInv, TypeOK
  <2>2. QED
    BY <1>1, <2>1, AppliedTyped
<1>6. tx' \in [Clients -> Transaction]
  <2>1. tx' = EndOf(c, TRUE) /\ TRUE \in BOOLEAN
    BY DEF Commit
  <2>2. QED
    BY <2>1, OthersGoOn DEF IInv
<1>7. pc' \in [Clients -> Places] /\ view' \in [Clients -> View]
  BY EmptyRecords DEF IInv, TypeOK, Commit, Go, Places
<1>8. TypeOK'
  BY <1>1, <1>3, <1>4, <1>5, <1>6, <1>7 DEF TypeOK
<1>9. BatchesKnown'
  <2>1. \A f \in Files : Accepted(f) \subseteq DOMAIN Rows[f]
    BY DEF Accepted
  <2>2. QED
    BY <1>1, <1>5, <2>1 DEF IInv, BatchesKnown
<1>10. QED
  BY <1>8, <1>9

\* The others go on: what they hold, what they read and what they have written still
\* fits what is stored now.
LEMMA CommitKeepsOthers ==
  ASSUME IInv, NEW c \in Clients, Commit(c)
  PROVE  Exclusive' /\ Views' /\ Commands' /\ Writings'
<1> USE DEF IInv
<1> DEFINE t == tx[c]
<1>1. /\ c \in InFlight /\ valid' = valid
      /\ \A i \in Ids : attempts'[i] = IF i \in DOMAIN t.writes THEN t.writes[i] ELSE attempts[i]
      /\ Created' = Created \cup DOMAIN t.writes
      /\ \A f \in Files : /\ batches'[f] = IF t.kind = "confirm" /\ f = t.id THEN Applied(batches[f]) ELSE batches[f]
                          /\ batches'[f] = None <=> batches[f] = None
                          /\ Accepted(f)' = Accepted(f) /\ Recognized(f)' = Recognized(f)
                          /\ ConfirmLocks(f)' = ConfirmLocks(f)
  BY CommitEffects
<1>2. /\ Command(c) /\ Writing(t) /\ t.kind \in {"create", "update", "annul", "confirm"}
      /\ DOMAIN t.writes \subseteq Ids /\ \A i \in DOMAIN t.writes : t.writes[i] # None
  BY <1>1, WrittenIsKnown
<1>3. /\ tx'[c] = NoTx
      /\ \A d \in Clients \ {c} : /\ Keeps(tx[d], tx'[d])
                                  /\ tx'[d].alone => ~(TRUE /\ pc[d] = "written")
  <2>1. tx' = EndOf(c, TRUE) /\ TRUE \in BOOLEAN
    BY DEF Commit
  <2>2. QED
    BY <2>1, OthersGoOn
<1>4. /\ pc[c] = "written" /\ pc'[c] = "idle"
      /\ \A d \in Clients \ {c} : pc'[d] = pc[d] /\ view'[d] = view[d]
  BY DEF Commit, Go, TypeOK
<1>5. NoTx.kind = "none" /\ NoTx.held = {} /\ NoTx.writes = <<>>
  BY DEF NoTx
<1>6. ASSUME NEW d \in Clients \ {c}
      PROVE  /\ tx[d].kind \in {"update", "annul"} => tx[d].id \notin DOMAIN t.writes
             /\ t.kind \in {"create", "update", "confirm"} =>
                   \A i \in DOMAIN t.writes : <<"course", t.writes[i].course>> \notin tx[d].held
             /\ t.kind = "confirm" /\ tx[d].kind = "confirm" => t.id # tx[d].id
  BY <1>1, WritersApart
<1>7. Exclusive'
  BY <1>3, <1>5 DEF Exclusive, Keeps
<1>8. Views'
  <2>1. ASSUME NEW d \in Clients \ {c}
        PROVE  LET f == view'[d].of IN
               /\ pc'[d] = "attempt" => f \in Created'
               /\ pc'[d] \in {"batch", "preview"} =>
                     f \in Files /\ batches'[f] # None /\ view'[d].version <= batches'[f].version
               /\ pc'[d] = "preview" =>
                     /\ DOMAIN view'[d].rows = DOMAIN Rows[f]
                     /\ view'[d].version = batches'[f].version => view'[d].rows = batches'[f].rows
    <3> DEFINE f == view[d].of
    <3>1. view'[d] = view[d] /\ pc'[d] = pc[d] /\ view[d].version \in Nat
      BY <1>4 DEF TypeOK, View
    <3>2. CASE pc[d] \in {"batch", "preview"} /\ t.kind = "confirm" /\ f = t.id
      <4>1. f \in Files /\ batches[f] # None /\ view[d].version <= batches[f].version
            /\ (pc[d] = "preview" => DOMAIN view[d].rows = DOMAIN Rows[f])
        BY <3>2 DEF Views
      <4>2. batches[f] \in Batch(f) /\ batches[f].version \in Nat
        BY <4>1 DEF TypeOK, Batch
      <4>3. batches'[f].version = batches[f].version + 1
        BY <1>1, <3>2, <4>1, <4>2, AppliedTyped
      <4>4. view[d].version <= batches'[f].version /\ view[d].version # batches'[f].version
        BY <3>1, <4>1, <4>2, <4>3
      <4>5. QED
        BY <1>1, <3>1, <3>2, <4>1, <4>4
    <3>3. CASE pc[d] \in {"batch", "preview"} /\ ~(t.kind = "confirm" /\ f = t.id)
      <4>1. f \in Files
        BY <3>3 DEF Views
      <4>2. batches'[f] = batches[f]
        BY <1>1, <3>3, <4>1
      <4>3. QED
        BY <1>1, <3>1, <3>3, <4>1, <4>2 DEF Views
    <3>4. CASE pc[d] \notin {"batch", "preview"}
      BY <1>1, <3>1, <3>4 DEF Views
    <3>5. QED
      BY <3>2, <3>3, <3>4
  <2>2. QED
    BY <1>4, <2>1 DEF Views
<1>9. Commands'
  <2>1. Command(c)'
    BY <1>3, <1>5 DEF Command
  <2>2. ASSUME NEW d \in Clients \ {c} PROVE Command(d)'
    <3>1. Command(d) /\ Keeps(tx[d], tx'[d]) /\ view'[d] = view[d]
      BY <1>3, <1>4 DEF Commands
    <3>2. tx[d].kind \in {"update", "annul"} =>
              attempts'[tx[d].id] = attempts[tx[d].id] /\ tx[d].id \in Created'
      BY <1>1, <1>6, <3>1 DEF Command, Created
    <3>3. tx[d].kind = "confirm" => /\ batches'[tx[d].id] = batches[tx[d].id]
                                    /\ ConfirmLocks(tx[d].id)' = ConfirmLocks(tx[d].id)
      <4>1. ASSUME tx[d].kind = "confirm"
            PROVE  batches'[tx[d].id] = batches[tx[d].id] /\ ConfirmLocks(tx[d].id)' = ConfirmLocks(tx[d].id)
        <5>1. tx[d].id \in Files /\ tx'[d].id = tx[d].id
          BY <3>1, <4>1 DEF Command, Keeps
        <5>2. QED
          BY <1>1, <1>6, <4>1, <5>1
      <4>2. QED
        BY <4>1
    <3>4. QED
      BY <3>1, <3>2, <3>3 DEF Command, Keeps
  <2>3. QED
    BY <1>3, <1>4, <1>5, <2>1, <2>2 DEF Commands, Keeps
<1>10. InFlight' = InFlight \ {c}
  BY <1>4 DEF InFlight
<1>11. ASSUME NEW d \in InFlight' PROVE Writing(tx[d])'
  <2>1. d \in Clients \ {c} /\ d \in InFlight /\ Keeps(tx[d], tx'[d]) /\ ~tx'[d].alone
    BY <1>3, <1>10 DEF InFlight
  <2>2. /\ Command(d) /\ Writing(tx[d]) /\ DOMAIN tx[d].writes \subseteq Ids
    BY <2>1, WrittenIsKnown
  <2>3. DOMAIN tx[d].writes \cap DOMAIN t.writes = {}
    BY <1>1, <2>1 DEF Writings
  <2>4. OwnRow(tx[d])' /\ UnderLock(tx[d])' /\ ByHand(tx[d])' /\ SeesItAll(tx[d])'
    BY <1>1, <2>1, <2>2 DEF Writing, OwnRow, UnderLock, ByHand, SeesItAll, Keeps
  <2>5. NewRows(tx[d])'
    <3>1. \A i \in DOMAIN tx[d].writes : attempts'[i] = attempts[i]
      BY <1>1, <2>2, <2>3
    <3>2. QED
      BY <2>1, <2>2, <3>1 DEF Writing, NewRows, Keeps
  <2>6. tx[d].kind = "confirm" => /\ Accepted(tx[d].id)' = Accepted(tx[d].id)
                                  /\ Recognized(tx[d].id)' = Recognized(tx[d].id)
    <3>1. ASSUME tx[d].kind = "confirm"
          PROVE  Accepted(tx[d].id)' = Accepted(tx[d].id) /\ Recognized(tx[d].id)' = Recognized(tx[d].id)
      <4>1. tx[d].id \in Files /\ tx'[d].id = tx[d].id
        BY <2>1, <2>2, <3>1 DEF Command, Keeps
      <4>2. QED
        BY <1>1, <4>1
    <3>2. QED
      BY <3>1
  <2>7. ItsRows(tx[d])' /\ Recognizes(tx[d])'
    BY <2>1, <2>2, <2>6 DEF Writing, ItsRows, Recognizes, Keeps
  <2>8. OwnNumbers(tx[d])'
    <3> DEFINE w == tx[d].writes
    <3>1. tx'[d].writes = w /\ tx'[d].kind = tx[d].kind
      BY <2>1 DEF Keeps
    <3>2. SUFFICES ASSUME tx[d].kind \in {"create", "update", "confirm"},
                          NEW i \in DOMAIN w, NEW j \in Ids \ {i},
                          Overlay(w)'[j] # None, Overlay(w)'[j].course = w[i].course
                   PROVE  Overlay(w)'[j].number # w[i].number
      BY <3>1 DEF OwnNumbers
    <3>3. Overlay(w)'[j] = IF j \in DOMAIN w THEN w[j] ELSE attempts'[j]
      BY <3>1 DEF Overlay
    <3>4. Overlay(w)[j] = IF j \in DOMAIN w THEN w[j] ELSE attempts[j]
      BY DEF Overlay
    <3>5. Overlay(w)[j] # None /\ Overlay(w)[j].course = w[i].course => Overlay(w)[j].number # w[i].number
      BY <2>2, <3>2 DEF Writing, OwnNumbers
    <3>6. CASE j \in DOMAIN w \/ j \notin DOMAIN t.writes
      BY <1>1, <3>2, <3>3, <3>4, <3>5, <3>6
    <3>7. CASE j \notin DOMAIN w /\ j \in DOMAIN t.writes
      <4>1. <<"course", w[i].course>> \in tx[d].held
        BY <2>2, <3>2 DEF Writing, UnderLock
      <4>2. attempts'[j] = t.writes[j]
        BY <1>1, <3>7
      <4>3. t.kind = "annul"
        BY <1>2, <1>6, <2>1, <3>2, <3>3, <3>7, <4>1, <4>2
      <4>4. /\ t.writes[j].course = attempts[j].course /\ t.writes[j].number = attempts[j].number
            /\ attempts[j] # None
        BY <1>2, <3>7, <4>3 DEF Command, Writing, OwnRow, Created
      <4>5. QED
        BY <3>2, <3>3, <3>4, <3>5, <3>7, <4>2, <4>4
    <3>8. QED
      BY <3>6, <3>7
  <2>9. QED
    BY <2>4, <2>5, <2>7, <2>8 DEF Writing
<1>12. Writings'
  <2>1. \A d \in Clients : pc'[d] # "written" => tx'[d].writes = <<>>
    BY <1>3, <1>4, <1>5 DEF Writings, Keeps
  <2>2. \A d, e \in InFlight' : d # e => DOMAIN tx'[d].writes \cap DOMAIN tx'[e].writes = {}
    BY <1>3, <1>10 DEF Writings, InFlight, Keeps
  <2>3. QED
    BY <1>11, <2>1, <2>2 DEF Writings
<1>13. QED
  BY <1>7, <1>8, <1>9, <1>12

LEMMA CommitKeepsStored ==
  ASSUME IInv, NEW c \in Clients, Commit(c)
  PROVE  Stored'
<1> USE DEF IInv
<1> DEFINE t == tx[c]
           w == t.writes
           confirms == t.kind = "confirm"
<1>1. /\ c \in InFlight /\ attempts' = Overlay(w) /\ recognitions' = recognitions \cup t.recognized
      /\ audit' = (IF t.late THEN audit ELSE t.seen) /\ overlap' = (t.late \/ ~t.alone)
      /\ \A i \in Ids : attempts'[i] = IF i \in DOMAIN w THEN w[i] ELSE attempts[i]
      /\ Created' = Created \cup DOMAIN w
      /\ \A i \in Created : /\ attempts'[i].number = attempts[i].number
                            /\ attempts'[i].file = attempts[i].file
                            /\ attempts'[i].row = attempts[i].row
      /\ \A f \in Files : /\ IsApplied(f)' <=> IsApplied(f) \/ (confirms /\ f = t.id)
                          /\ Accepted(f)' = Accepted(f) /\ Recognized(f)' = Recognized(f)
  BY CommitEffects
<1>2. /\ Command(c) /\ Writing(t) /\ t.kind \in {"create", "update", "annul", "confirm"}
      /\ DOMAIN w \subseteq Ids /\ \A i \in DOMAIN w : w[i] \in AttemptRow /\ w[i] # None
  BY <1>1, WrittenIsKnown
<1>3. confirms => t.id \in Files /\ ~IsApplied(t.id)
  BY <1>2 DEF Command, IsApplied
<1>4. t.kind \in {"update", "annul"} => \A i \in DOMAIN w : i = t.id /\ i \in Created
  BY <1>2 DEF Writing, OwnRow, Command
<1>5. t.kind \in {"create", "confirm"} => \A i \in DOMAIN w : i \notin Created
  BY <1>2 DEF Writing, NewRows, Created
<1>6. \A i \in Created : attempts[i] \in AttemptRow /\ i \in Ids
  BY DEF Created, TypeOK
<1>7. NumbersDiffer'
  <2>1. SUFFICES ASSUME NEW i \in Created', NEW j \in Created', i # j,
                        attempts'[i].course = attempts'[j].course
                 PROVE  attempts'[i].number # attempts'[j].number
    BY DEF NumbersDiffer
  <2>2. i \in Ids /\ j \in Ids /\ attempts'[i] # None /\ attempts'[j] # None
    BY DEF Created
  <2>3. CASE t.kind # "annul" /\ (i \in DOMAIN w \/ j \in DOMAIN w)
    <3>1. ASSUME NEW k \in DOMAIN w, NEW l \in Ids \ {k}, attempts'[l] # None,
                 attempts'[l].course = attempts'[k].course
          PROVE  attempts'[l].number # attempts'[k].number
      <4>1. attempts'[k] = w[k] /\ attempts'[l] = Overlay(w)[l]
        BY <1>1, <1>2
      <4>2. QED
        BY <1>2, <2>3, <3>1, <4>1 DEF Writing, OwnNumbers
    <3>2. QED
      BY <2>1, <2>2, <2>3, <3>1
  <2>4. CASE t.kind = "annul" \/ (i \notin DOMAIN w /\ j \notin DOMAIN w)
    <3>1. ASSUME NEW k \in Created'
          PROVE  \/ k \in DOMAIN w /\ t.kind # "annul"
                 \/ /\ k \in Created /\ attempts'[k].course = attempts[k].course
                    /\ attempts'[k].number = attempts[k].number
      <4>1. CASE k \in DOMAIN w /\ t.kind = "annul"
        BY <1>1, <1>2, <1>4, <4>1 DEF Command, Writing, OwnRow
      <4>2. CASE k \notin DOMAIN w
        BY <1>1, <1>6, <4>2
      <4>3. QED
        BY <4>1, <4>2
    <3>2. QED
      BY <2>1, <2>4, <3>1 DEF Stored, NumbersDiffer
  <2>5. QED
    BY <2>3, <2>4
<1>8. ASSUME NEW i \in Created', attempts'[i].file # None
      PROVE  \/ i \in Created /\ attempts'[i].file = attempts[i].file /\ attempts'[i].row = attempts[i].row
             \/ /\ confirms /\ i \in DOMAIN w /\ attempts'[i] = w[i]
                /\ attempts'[i].file = t.id /\ attempts'[i].row \in Accepted(t.id)
  <2>1. CASE i \in Created
    BY <1>1, <2>1
  <2>2. CASE i \notin Created
    <3>1. i \in DOMAIN w /\ attempts'[i] = w[i] /\ t.kind \in {"create", "confirm"}
      BY <1>1, <1>2, <1>4, <2>2
    <3>2. t.kind # "create"
      BY <1>2, <1>8, <3>1 DEF Writing, ByHand
    <3>3. QED
      BY <1>2, <3>1, <3>2 DEF Writing, ItsRows
  <2>3. QED
    BY <2>1, <2>2
<1>9. FromApplied'
  <2>1. SUFFICES ASSUME NEW i \in Created', NEW f, f = attempts'[i].file, f # None
                 PROVE  IsApplied(f)' /\ attempts'[i].row \in Accepted(f)'
    BY DEF FromApplied
  <2>2. CASE i \in Created /\ f = attempts[i].file /\ attempts'[i].row = attempts[i].row
    <3>1. f \in Files
      BY <1>6, <2>1, <2>2 DEF AttemptRow
    <3>2. IsApplied(f) /\ attempts[i].row \in Accepted(f)
      BY <2>1, <2>2 DEF Stored, FromApplied
    <3>3. QED
      BY <1>1, <2>2, <3>1, <3>2
  <2>3. CASE confirms /\ f = t.id /\ attempts'[i].row \in Accepted(t.id)
    BY <1>1, <1>3, <2>3
  <2>4. QED
    BY <1>8, <2>1, <2>2, <2>3
<1>10. OncePerRow'
  <2>1. SUFFICES ASSUME NEW i \in Created', NEW j \in Created',
                        attempts'[i].file \in Files, attempts'[i].file = attempts'[j].file,
                        attempts'[i].row = attempts'[j].row
                 PROVE  i = j
    BY DEF OncePerRow
  <2>2. attempts'[i].file # None /\ attempts'[j].file # None
    BY <2>1, RowAssumption
  <2>3. ASSUME NEW k \in Created, attempts[k].file # None PROVE ~(confirms /\ attempts[k].file = t.id)
    BY <1>3, <2>3 DEF Stored, FromApplied
  <2>4. CASE i \in Created /\ j \in Created
    BY <1>1, <2>1, <2>4 DEF Stored, OncePerRow
  <2>5. CASE confirms /\ i \in DOMAIN w /\ j \in DOMAIN w /\ attempts'[i] = w[i] /\ attempts'[j] = w[j]
    BY <1>2, <2>1, <2>5 DEF Writing, ItsRows
  <2>6. QED
    BY <1>1, <1>8, <2>1, <2>2, <2>3, <2>4, <2>5
<1>11. NoneLeftOut'
  <2>1. SUFFICES ASSUME NEW f \in Files, IsApplied(f)', NEW k \in Accepted(f)
                 PROVE  \E i \in Created' : attempts'[i].file = f /\ attempts'[i].row = k
    BY <1>1 DEF NoneLeftOut
  <2>2. CASE IsApplied(f)
    <3>1. PICK i \in Created : attempts[i].file = f /\ attempts[i].row = k
      BY <2>2 DEF Stored, NoneLeftOut
    <3>2. QED
      BY <1>1, <3>1
  <2>3. CASE confirms /\ f = t.id
    <3>1. PICK i \in DOMAIN w : w[i].row = k
      BY <1>2, <2>3 DEF Writing, ItsRows
    <3>2. w[i].file = f
      BY <1>2, <2>3 DEF Writing, ItsRows
    <3>3. i \in Created' /\ attempts'[i] = w[i]
      BY <1>1, <1>2
    <3>4. QED
      BY <3>1, <3>2, <3>3
  <2>4. QED
    BY <1>1, <2>1, <2>2, <2>3
<1>12. AllRecognized'
  <2> DEFINE before == {f \in Files : IsApplied(f)}
             after == {f \in Files : IsApplied(f)'}
  <2>1. {Recognized(f)' : f \in after} = {Recognized(f) : f \in after}
    BY <1>1
  <2>2. recognitions = UNION {Recognized(f) : f \in before}
    BY DEF Stored, AllRecognized
  <2>3. CASE confirms
    <3>1. after = before \cup {t.id} /\ t.recognized = Recognized(t.id)
      BY <1>1, <1>2, <1>3, <2>3 DEF Writing, Recognizes
    <3> HIDE DEF before, after
    <3>2. UNION {Recognized(f) : f \in after} = recognitions \cup Recognized(t.id)
      BY <2>2, <3>1
    <3>3. QED
      BY <1>1, <2>1, <3>1, <3>2 DEF AllRecognized, after
  <2>4. CASE ~confirms
    <3>1. after = before /\ t.recognized = {}
      BY <1>1, <1>2, <2>4 DEF Writing, Recognizes
    <3>2. QED
      BY <1>1, <2>1, <2>2, <3>1 DEF AllRecognized
  <2>5. QED
    BY <2>3, <2>4
<1>13. SerialAuditIsCurrent'
  <2>1. SUFFICES ASSUME ~overlap' PROVE audit' = Facts(attempts', recognitions')
    BY DEF SerialAuditIsCurrent, Facts
  <2>2. ~t.late /\ t.alone
    BY <1>1, <2>1
  <2>3. t.seen = Facts(Overlay(w), recognitions \cup t.recognized)
    BY <1>2, <2>2 DEF Writing, SeesItAll
  <2>4. QED
    BY <1>1, <2>2, <2>3
<1>14. QED
  BY <1>7, <1>9, <1>10, <1>11, <1>12, <1>13 DEF Stored

-----------------------------------------------------------------------------
(* Theorems.                                                               *)

LEMMA InitHolds == Init => IInv
<1> SUFFICES ASSUME Init PROVE IInv
  OBVIOUS
<1>1. TypeOK
  BY TypedInit
<1>2. Created = {} /\ InFlight = {} /\ \A f \in Files : batches[f] = None
  BY DEF Init, Created, InFlight
<1>3. BatchesKnown
  BY <1>2 DEF BatchesKnown
<1>4. Exclusive /\ Views /\ Commands
  BY DEF Init, Exclusive, Views, Commands, Command, NoTx
<1>5. Writings
  BY <1>2 DEF Init, Writings, NoTx
<1>6. Stored
  <2>1. SerialAuditIsCurrent
    BY DEF Init, SerialAuditIsCurrent, Facts, NoFacts
  <2>2. AllRecognized
    BY <1>2 DEF Init, AllRecognized, IsApplied
  <2>3. QED
    BY <1>2, <2>1, <2>2 DEF Stored, NumbersDiffer, FromApplied, OncePerRow, NoneLeftOut, IsApplied
<1>7. QED
  BY <1>1, <1>3, <1>4, <1>5, <1>6 DEF IInv

LEMMA StepHolds == IInv /\ [Next]_vars => IInv'
<1> SUFFICES ASSUME IInv, [Next]_vars PROVE IInv'
  OBVIOUS
<1>1. CASE UNCHANGED vars
  <2>1. UNCHANGED <<attempts, batches, recognitions, audit, valid, pc, view, tx, overlap>>
    BY <1>1 DEF vars
  <2>2. TypeOK'
    BY <2>1 DEF IInv, TypeOK
  <2>3. /\ Created' = Created /\ InFlight' = InFlight /\ \A w : Overlay(w)' = Overlay(w)
        /\ \A f : /\ Accepted(f)' = Accepted(f) /\ Recognized(f)' = Recognized(f)
                  /\ ConfirmLocks(f)' = ConfirmLocks(f) /\ (IsApplied(f)' <=> IsApplied(f))
    BY <2>1 DEF Created, InFlight, Overlay, Accepted, Recognized, ConfirmLocks, IsApplied
  <2>4. BatchesKnown' /\ Exclusive' /\ Views' /\ Commands'
    BY <2>1, <2>3 DEF IInv, BatchesKnown, Exclusive, Views, Commands, Command
  <2>5. Stored'
    BY SMTT(60), <2>1 DEF IInv, Stored, NumbersDiffer, FromApplied, OncePerRow, NoneLeftOut, AllRecognized,
       SerialAuditIsCurrent, Created, IsApplied, Accepted, Recognized
  <2>6. ASSUME NEW d \in InFlight PROVE Writing(tx[d])'
    <3>1. Writing(tx[d]) /\ Overlay(tx[d].writes)' = Overlay(tx[d].writes)
      BY <2>1, <2>3 DEF IInv, Writings
    <3>2. OwnRow(tx[d])' /\ NewRows(tx[d])' /\ UnderLock(tx[d])' /\ ByHand(tx[d])'
      BY <2>1, <3>1 DEF Writing, OwnRow, NewRows, UnderLock, ByHand
    <3>3. OwnNumbers(tx[d])' /\ SeesItAll(tx[d])'
      BY <2>1, <3>1 DEF Writing, OwnNumbers, SeesItAll
    <3>4. ItsRows(tx[d])' /\ Recognizes(tx[d])'
      BY <2>1, <2>3, <3>1 DEF Writing, ItsRows, Recognizes
    <3>5. QED
      BY <3>2, <3>3, <3>4 DEF Writing
  <2>7. Writings'
    BY <2>1, <2>3, <2>6 DEF IInv, Writings
  <2>8. QED
    BY <2>2, <2>4, <2>5, <2>7 DEF IInv
<1>2. ASSUME NEW c \in Clients,
             \/ \E i \in Ids : ReadAttempt(c, i)
             \/ \E f \in Files : ReadBatch(c, f)
             \/ ReadCandidates(c) \/ Leave(c)
      PROVE  IInv'
  BY <1>2, ReadKeeps
<1>3. ASSUME NEW c \in Clients, NEW f \in Files, Upload(c, f) PROVE IInv'
  BY <1>3, UploadKeeps
<1>4. ASSUME NEW c \in Clients, NEW i \in DOMAIN view[c].rows, NEW p \in Decisions, Resolve(c, i, p[1], p[2])
      PROVE  IInv'
  BY <1>4, ResolveKeeps
<1>5. ASSUME NEW c \in Clients,
             \/ \E q \in Requests :
                   \/ CreateManual(c, q.course, q.term, q.number, q.status)
                   \/ Update(c, q.course, q.term, q.status)
             \/ Annul(c) \/ Confirm(c)
      PROVE  IInv'
  BY <1>5, BeginKeeps
<1>6. ASSUME NEW c \in Clients, LockNext(c) \/ Write(c) \/ RollBack(c) PROVE IInv'
  BY <1>6, LockKeeps, WriteKeeps, RollBackKeeps
<1>7. ASSUME NEW c \in Clients, Commit(c) PROVE IInv'
  BY <1>7, TypedCommit, CommitKeepsOthers, CommitKeepsStored DEF IInv
<1>8. ASSUME NEW p \in Closings, Close(p[1], p[2]) PROVE IInv'
  BY <1>8, CloseKeeps
<1>9. QED
  BY <1>1, <1>2, <1>3, <1>4, <1>5, <1>6, <1>7, <1>8 DEF Next

LEMMA AlwaysHolds == Spec => []IInv
BY InitHolds, StepHolds, PTL DEF Spec

\* Every variable keeps its type; above all, what a file and a decision bring in
\* are courses and terms there are.
THEOREM TypeCorrect == Spec => []TypeOK
<1>1. IInv => TypeOK
  BY DEF IInv
<1>2. QED
  BY <1>1, AlwaysHolds, PTL

\* An annulment writes the course and the number that are stored.
LEMMA AnnulmentKeepsNumber ==
  ASSUME IInv, NEW c \in InFlight, tx[c].kind = "annul", NEW i \in DOMAIN tx[c].writes
  PROVE  /\ i \in Created /\ i = tx[c].id
         /\ tx[c].writes[i].course = attempts[i].course /\ tx[c].writes[i].number = attempts[i].number
<1>1. Command(c) /\ Writing(tx[c])
  BY WrittenIsKnown
<1>2. QED
  BY <1>1 DEF Command, Writing, OwnRow

\* No two attempts at a course ever meet at the unique constraint: a transaction that
\* adds or moves an attempt holds the course, an annulment keeps course and number.
THEOREM NumbersAreSafe == Spec => []NumbersNeverCollide
<1>1. ASSUME IInv PROVE NumbersNeverCollide
  <2>1. SUFFICES ASSUME NEW c \in InFlight, NEW i \in DOMAIN tx[c].writes, NEW j \in Ids \ {i}, NEW row,
                        \/ row = attempts[j]
                        \/ \E d \in InFlight : j \in DOMAIN tx[d].writes /\ row = tx[d].writes[j],
                        row # None, row.course = tx[c].writes[i].course
                 PROVE  row.number # tx[c].writes[i].number
    BY DEF NumbersNeverCollide
  <2> DEFINE moves(e) == tx[e].kind \in {"create", "update", "confirm"}
             w == tx[c].writes
  <2>2. ASSUME NEW e \in InFlight
        PROVE  /\ e \in Clients /\ Writing(tx[e]) /\ (moves(e) \/ tx[e].kind = "annul")
               /\ DOMAIN tx[e].writes \subseteq Ids /\ \A k \in DOMAIN tx[e].writes : tx[e].writes[k] # None
    BY <1>1, WrittenIsKnown
  <2>3. ASSUME NEW e \in InFlight, moves(e), NEW k \in DOMAIN tx[e].writes, NEW l \in Ids \ {k},
               Overlay(tx[e].writes)[l] # None,
               Overlay(tx[e].writes)[l].course = tx[e].writes[k].course
        PROVE  Overlay(tx[e].writes)[l].number # tx[e].writes[k].number
    BY <2>2, <2>3 DEF Writing, OwnNumbers
  <2>4. ASSUME NEW e \in InFlight, NEW l \in Ids
        PROVE  Overlay(tx[e].writes)[l] = IF l \in DOMAIN tx[e].writes THEN tx[e].writes[l] ELSE attempts[l]
    BY DEF Overlay
  <2>5. ASSUME NEW e \in InFlight, tx[e].kind = "annul", NEW k \in DOMAIN tx[e].writes
        PROVE  /\ k \in Created /\ k = tx[e].id /\ attempts[k] # None
               /\ tx[e].writes[k].course = attempts[k].course /\ tx[e].writes[k].number = attempts[k].number
    BY <1>1, <2>5, AnnulmentKeepsNumber DEF Created
  <2>6. \A k, l \in Created : k # l /\ attempts[k].course = attempts[l].course
                                 => attempts[k].number # attempts[l].number
    BY <1>1 DEF IInv, Stored, NumbersDiffer
  <2>7. CASE row = attempts[j] /\ moves(c)
    <3>1. j \notin DOMAIN w
      <4>1. SUFFICES ASSUME j \in DOMAIN w PROVE FALSE
        OBVIOUS
      <4>2. CASE tx[c].kind = "update"
        BY <2>1, <2>2, <4>1, <4>2 DEF Writing, OwnRow
      <4>3. CASE tx[c].kind \in {"create", "confirm"}
        BY <2>1, <2>2, <2>7, <4>1, <4>3 DEF Writing, NewRows
      <4>4. QED
        BY <2>7, <4>2, <4>3
    <3>2. Overlay(w)[j] = row
      BY <2>4, <2>7, <3>1
    <3>3. QED
      BY <2>1, <2>3, <2>7, <3>2
  <2>8. CASE row = attempts[j] /\ tx[c].kind = "annul"
    BY <2>1, <2>5, <2>6, <2>8 DEF Created
  <2>9. ASSUME NEW d \in InFlight, j \in DOMAIN tx[d].writes, row = tx[d].writes[j]
        PROVE  row.number # w[i].number
    <3>1. CASE d = c /\ moves(c)
      <4>1. Overlay(w)[j] = row
        BY <2>4, <2>9, <3>1
      <4>2. QED
        BY <2>1, <2>3, <3>1, <4>1
    <3>2. CASE d = c /\ tx[c].kind = "annul"
      BY <2>1, <2>5, <2>9, <3>2
    <3>3. CASE d # c /\ moves(c) /\ moves(d)
      <4>1. <<"course", w[i].course>> \in tx[c].held
        BY <2>2, <3>3 DEF Writing, UnderLock
      <4>2. <<"course", row.course>> \notin tx[c].held
        BY <1>1, <2>2, <2>9, <3>3, WritersApart
      <4>3. QED
        BY <2>1, <4>1, <4>2
    <3>4. CASE d # c /\ tx[c].kind = "annul" /\ moves(d)
      <4>1. i \notin DOMAIN tx[d].writes
        BY <1>1, <3>4 DEF IInv, Writings
      <4>2. Overlay(tx[d].writes)[i] = attempts[i] /\ i \in Ids /\ i # j
        BY <2>2, <2>4, <4>1
      <4>3. attempts[i] # None /\ w[i].course = attempts[i].course /\ w[i].number = attempts[i].number
        BY <2>5, <3>4
      <4>4. QED
        BY <2>1, <2>3, <2>9, <3>4, <4>2, <4>3
    <3>5. CASE d # c /\ moves(c) /\ tx[d].kind = "annul"
      <4>1. j \notin DOMAIN w
        BY <1>1, <2>9, <3>5 DEF IInv, Writings
      <4>2. Overlay(w)[j] = attempts[j]
        BY <2>4, <4>1
      <4>3. attempts[j] # None /\ row.course = attempts[j].course /\ row.number = attempts[j].number
        BY <2>5, <2>9, <3>5
      <4>4. QED
        BY <2>1, <2>3, <3>5, <4>2, <4>3
    <3>6. CASE d # c /\ tx[c].kind = "annul" /\ tx[d].kind = "annul"
      BY <2>1, <2>5, <2>6, <2>9, <3>6
    <3>7. QED
      BY <2>2, <2>9, <3>1, <3>2, <3>3, <3>4, <3>5, <3>6
  <2>10. QED
    BY <2>1, <2>2, <2>7, <2>8, <2>9
<1>2. QED
  BY <1>1, AlwaysHolds, PTL

\* What is written is written in a term the course is still valid in: closing the
\* course waits for the lock under which its validity was looked at.
THEOREM TermsAreValid == Spec => []WrittenInAValidTerm
<1>1. ASSUME IInv PROVE WrittenInAValidTerm
  BY <1>1, WrittenIsKnown DEF WrittenInAValidTerm, Writing, UnderLock
<1>2. QED
  BY <1>1, AlwaysHolds, PTL

\* A confirmation that runs has the decisions its author saw: they carry the version
\* of the batch, and the lock of the batch keeps them until it commits.
THEOREM ReviewsAreKept == Spec => []ConfirmsWhatWasReviewed
<1>1. ASSUME IInv PROVE ConfirmsWhatWasReviewed
  BY <1>1 DEF IInv, Commands, Command, ConfirmsWhatWasReviewed
<1>2. QED
  BY <1>1, AlwaysHolds, PTL

\* The latest audit is of the stored history, unless the transaction it was made in
\* overlapped another that wrote.
THEOREM AuditIsCurrent == Spec => []SerialAuditIsCurrent
<1>1. ASSUME IInv PROVE SerialAuditIsCurrent
  BY <1>1 DEF IInv, Stored
<1>2. QED
  BY <1>1, AlwaysHolds, PTL

\* An applied file has one attempt for each row accepted and one recognition for each
\* external row, and nothing else in the history is of that file.
THEOREM RowsAreAppliedOnce == Spec => []EachRowOnce
<1>1. ASSUME IInv PROVE EachRowOnce
  <2>1. SUFFICES ASSUME NEW f \in Files, batches[f] # None, NEW i \in DOMAIN Rows[f]
                 PROVE  /\ Cardinality({j \in Created : attempts[j].file = f /\ attempts[j].row = i})
                              = IF IsApplied(f) /\ batches[f].rows[i].decision = "ACCEPT" THEN 1 ELSE 0
                        /\ Cardinality({r \in recognitions : r[1] = f /\ r[2] = i})
                              = IF IsApplied(f) /\ batches[f].rows[i].decision = "EXTERNAL" THEN 1 ELSE 0
    BY DEF EachRowOnce, IsApplied
  <2> DEFINE ofRow == {j \in Created : attempts[j].file = f /\ attempts[j].row = i}
             external == {r \in recognitions : r[1] = f /\ r[2] = i}
             course == batches[f].rows[i].course
  <2>2. Stored /\ f # None
    BY <1>1, RowAssumption DEF IInv
  <2>3. Cardinality(ofRow) = IF IsApplied(f) /\ batches[f].rows[i].decision = "ACCEPT" THEN 1 ELSE 0
    <3>1. CASE IsApplied(f) /\ batches[f].rows[i].decision = "ACCEPT"
      <4>1. PICK j \in Created : attempts[j].file = f /\ attempts[j].row = i
        BY <2>2, <3>1 DEF Stored, NoneLeftOut, Accepted
      <4>2. \A k \in ofRow : k = j
        BY <2>2, <4>1 DEF Stored, OncePerRow
      <4>3. ofRow = {j}
        BY <4>1, <4>2
      <4>4. QED
        BY <3>1, <4>3, FS_Singleton
    <3>2. CASE ~(IsApplied(f) /\ batches[f].rows[i].decision = "ACCEPT")
      <4>1. ofRow = {}
        BY <2>2, <3>2 DEF Stored, FromApplied, Accepted
      <4>2. QED
        BY <3>2, <4>1, FS_EmptySet
    <3>3. QED
      BY <3>1, <3>2
  <2>4. ASSUME NEW r \in external
        PROVE  IsApplied(f) /\ batches[f].rows[i].decision = "EXTERNAL" /\ r = <<f, i, course>>
    <3>1. PICK g \in Files : IsApplied(g) /\ r \in Recognized(g)
      BY <2>2 DEF Stored, AllRecognized
    <3>2. PICK k \in DOMAIN Rows[g] : r = <<g, k, batches[g].rows[k].course>> /\ batches[g].rows[k].decision = "EXTERNAL"
      BY <3>1 DEF Recognized
    <3>3. g = f /\ k = i
      BY <3>2
    <3>4. QED
      BY <3>1, <3>2, <3>3
  <2>5. Cardinality(external) = IF IsApplied(f) /\ batches[f].rows[i].decision = "EXTERNAL" THEN 1 ELSE 0
    <3>1. CASE IsApplied(f) /\ batches[f].rows[i].decision = "EXTERNAL"
      <4>1. <<f, i, course>> \in Recognized(f)
        BY <3>1 DEF Recognized
      <4>2. <<f, i, course>> \in recognitions
        BY <2>2, <3>1, <4>1 DEF Stored, AllRecognized
      <4>3. external = {<<f, i, course>>}
        BY <2>4, <4>2
      <4>4. QED
        BY <3>1, <4>3, FS_Singleton
    <3>2. CASE ~(IsApplied(f) /\ batches[f].rows[i].decision = "EXTERNAL")
      <4>1. external = {}
        BY <2>4, <3>2
      <4>2. QED
        BY <3>2, <4>1, FS_EmptySet
    <3>3. QED
      BY <3>1, <3>2
  <2>6. QED
    BY <2>3, <2>5
<1>2. QED
  BY <1>1, AlwaysHolds, PTL

-----------------------------------------------------------------------------
(* What is imported is what the file states.                               *)

\* A file that can be applied is read completely and without errors.
Readable(f) == ~Reports[f].incomplete /\ \A i \in DOMAIN Rows[f] : Rows[f][i].errors = {}

\* An attempt that was not corrected since its import is what its row states.
AsRead(a) ==
    /\ a.version \in Nat \ {0}
    /\ a.file # None /\ a.version = 1 =>
          LET row == Rows[a.file][a.row] IN
          /\ a.status = row.status /\ a.credits = Earned(a.course, a.status)
          /\ EarnedAsStated(a.course, a.status, row.credits)

BatchesAsRead ==
    \A f \in Files : batches[f] # None =>
        /\ Reports[f] # None
        /\ \A i \in DOMAIN Rows[f] : Rows[f][i].errors # {} => batches[f].rows[i].status = "ERROR"
        /\ batches[f].status = "APPLIED" => Readable(f)
AttemptsAsRead == \A i \in Created : AsRead(attempts[i])
TxAsRead(t) ==
    /\ t.kind \in {"create", "update", "annul"} => AsRead(t.target)
    /\ t.kind = "confirm" => Readable(t.id)
    /\ \A i \in DOMAIN t.writes : AsRead(t.writes[i])

ReadInv == BatchesAsRead /\ AttemptsAsRead /\ \A c \in Clients : TxAsRead(tx[c])

LEMMA NothingRead == TxAsRead(NoTx)
BY DEF TxAsRead, NoTx

LEMMA CandidateAsRead ==
  ASSUME NEW row, row.errors # {}
  PROVE  Candidate(row).status = "ERROR"
<1>1. StatusOf(row) = "ERROR"
  BY DEF StatusOf
<1>2. QED
  BY <1>1 DEF Candidate

LEMMA UploadReads ==
  ASSUME IInv, ReadInv, NEW c \in Clients, NEW f \in Files, Upload(c, f)
  PROVE  ReadInv'
<1>1. /\ Reports[f] # None /\ UNCHANGED <<attempts, tx>>
      /\ batches' = [batches EXCEPT ![f] = IF @ = None THEN NewBatch(f) ELSE @]
  BY DEF Upload
<1>2. DOMAIN batches = Files
  BY DEF IInv, TypeOK
<1>3. \A i \in DOMAIN Rows[f] : Rows[f][i].errors # {} => NewBatch(f).rows[i].status = "ERROR"
  BY CandidateAsRead DEF NewBatch
<1>4. NewBatch(f).status = "PREVIEW"
  BY DEF NewBatch
<1>5. BatchesAsRead'
  <2>1. ASSUME NEW g \in Files, batches'[g] # None
        PROVE  /\ Reports[g] # None
               /\ \A i \in DOMAIN Rows[g] : Rows[g][i].errors # {} => batches'[g].rows[i].status = "ERROR"
               /\ batches'[g].status = "APPLIED" => Readable(g)
    <3>1. CASE g = f /\ batches[f] = None
      <4>1. batches'[g] = NewBatch(f)
        BY <1>1, <1>2, <3>1
      <4>2. QED
        BY <1>1, <1>3, <1>4, <3>1, <4>1
    <3>2. CASE ~(g = f /\ batches[f] = None)
      <4>1. batches'[g] = batches[g]
        BY <1>1, <1>2, <3>2
      <4>2. QED
        BY <2>1, <4>1 DEF ReadInv, BatchesAsRead
    <3>3. QED
      BY <3>1, <3>2
  <2>2. QED
    BY <2>1 DEF BatchesAsRead, Readable
<1>6. QED
  BY <1>1, <1>5 DEF ReadInv, AttemptsAsRead, Created

LEMMA ResolveReads ==
  ASSUME IInv, ReadInv, NEW c \in Clients, NEW i \in DOMAIN view[c].rows, NEW p \in Decisions,
         Resolve(c, i, p[1], p[2])
  PROVE  ReadInv'
<1>1. PICK f \in Files, new \in CandidateRow :
             /\ batches[f] \in Batch(f) /\ batches[f].status # "APPLIED" /\ i \in DOMAIN Rows[f]
             /\ batches[f].rows[i].status # "ERROR"
             /\ batches' = [batches EXCEPT ![f] = WithDecision(batches[f], i, new)]
  BY DecisionChangesOneRow DEF IInv
<1> DEFINE batch == WithDecision(batches[f], i, new)
<1>2. /\ batch.status = batches[f].status
      /\ \A k \in DOMAIN Rows[f] : batch.rows[k] = IF k = i THEN new ELSE batches[f].rows[k]
  BY <1>1, WithDecisionTyped
<1> HIDE DEF batch
<1>3. batches'[f] = batch /\ \A g \in Files \ {f} : batches'[g] = batches[g]
  BY <1>1 DEF IInv, TypeOK, batch
<1>4. UNCHANGED <<attempts, tx>>
  BY DEF Resolve
<1>5. batches[f] # None
  BY <1>1, RowAssumption
<1>6. BatchesAsRead'
  <2>1. ASSUME NEW g \in Files, batches'[g] # None
        PROVE  /\ Reports[g] # None
               /\ \A k \in DOMAIN Rows[g] : Rows[g][k].errors # {} => batches'[g].rows[k].status = "ERROR"
               /\ batches'[g].status = "APPLIED" => Readable(g)
    <3>1. CASE g = f
      <4>1. \A k \in DOMAIN Rows[f] : Rows[f][k].errors # {} => k # i /\ batches[f].rows[k].status = "ERROR"
        BY <1>1, <1>5 DEF ReadInv, BatchesAsRead
      <4>2. QED
        BY <1>1, <1>2, <1>3, <1>5, <3>1, <4>1 DEF ReadInv, BatchesAsRead
    <3>2. CASE g # f
      BY <1>3, <2>1, <3>2 DEF ReadInv, BatchesAsRead
    <3>3. QED
      BY <3>1, <3>2
  <2>2. QED
    BY <2>1 DEF BatchesAsRead, Readable
<1>7. QED
  BY <1>4, <1>6 DEF ReadInv, AttemptsAsRead, Created

\* A step that begins, goes on with or ends a transaction.
LEMMA TxStep ==
  ASSUME ReadInv, UNCHANGED <<attempts, batches>>, \A d \in Clients : TxAsRead(tx'[d])
  PROVE  ReadInv'
<1>1. BatchesAsRead' /\ AttemptsAsRead'
  BY DEF ReadInv, BatchesAsRead, AttemptsAsRead, Created, Readable
<1>2. QED
  BY <1>1 DEF ReadInv

LEMMA BegunAsRead ==
  ASSUME NEW kind, NEW id, NEW target, NEW held, NEW todo,
         kind \in {"create", "update", "annul"} => AsRead(target), kind = "confirm" => Readable(id)
  PROVE  TxAsRead(Begun(kind, id, target, held, todo))
BY DEF Begun, TxAsRead, NoTx

BeginsAsRead(c, kind, id, target, held, todo) ==
    /\ tx' = [tx EXCEPT ![c] = Begun(kind, id, target, held, todo)]
    /\ UNCHANGED <<attempts, batches>>
    /\ kind \in {"create", "update", "annul"} => AsRead(target)
    /\ kind = "confirm" => Readable(id)

LEMMA BeginReads ==
  ASSUME IInv, ReadInv, NEW c \in Clients,
         \/ \E q \in Requests :
               \/ CreateManual(c, q.course, q.term, q.number, q.status)
               \/ Update(c, q.course, q.term, q.status)
         \/ Annul(c) \/ Confirm(c)
  PROVE  ReadInv'
<1> DEFINE of == view[c].of
<1>1. SUFFICES \E kind, id, target, held, todo : BeginsAsRead(c, kind, id, target, held, todo)
  <2>1. PICK kind, id, target, held, todo : BeginsAsRead(c, kind, id, target, held, todo)
    BY <1>1
  <2>2. TxAsRead(Begun(kind, id, target, held, todo))
    BY <2>1, BegunAsRead DEF BeginsAsRead
  <2>3. \A d \in Clients : tx'[d] = IF d = c THEN Begun(kind, id, target, held, todo) ELSE tx[d]
    BY <2>1 DEF BeginsAsRead, IInv, TypeOK
  <2>4. \A d \in Clients : TxAsRead(tx'[d])
    BY <2>2, <2>3 DEF ReadInv
  <2>5. QED
    BY <2>1, <2>4, TxStep DEF BeginsAsRead
<1>2. CASE \E q \in Requests : CreateManual(c, q.course, q.term, q.number, q.status)
  <2> PICK q \in Requests : CreateManual(c, q.course, q.term, q.number, q.status)
    BY <1>2
  <2> DEFINE target == Attempt(q.course, q.term, q.number, q.status)
  <2>1. target.version = 1 /\ target.file = None
    BY DEF Attempt
  <2>2. AsRead(target)
    BY <2>1 DEF AsRead
  <2>3. BeginsAsRead(c, "create", None, target, {}, PairLocks(q.course, q.term))
    BY <2>2 DEF BeginsAsRead, CreateManual, Begin, Begun, stored
  <2>4. QED
    BY <2>3
<1>3. ASSUME pc[c] = "attempt" PROVE attempts[of] \in AttemptRow /\ attempts[of].version \in Nat \ {0}
  <2>1. of \in Created /\ attempts[of] \in AttemptRow
    BY <1>3 DEF IInv, Views, Created, TypeOK
  <2>2. QED
    BY <2>1 DEF ReadInv, AttemptsAsRead, AsRead
<1>4. ASSUME NEW target, target.version = attempts[of].version + 1, pc[c] = "attempt" PROVE AsRead(target)
  <2>1. target.version \in Nat \ {0} /\ target.version # 1
    BY <1>3, <1>4
  <2>2. QED
    BY <2>1 DEF AsRead
<1>5. CASE \E q \in Requests : Update(c, q.course, q.term, q.status)
  <2> PICK q \in Requests : Update(c, q.course, q.term, q.status)
    BY <1>5
  <2> DEFINE target == Corrected(attempts[of], q.course, q.term, q.status)
  <2>1. pc[c] = "attempt"
    BY DEF Update
  <2>2. target.version = attempts[of].version + 1
    BY <1>3, <2>1 DEF Corrected, AttemptRow
  <2>3. AsRead(target)
    BY <1>4, <2>1, <2>2
  <2>4. BeginsAsRead(c, "update", of, target, {<<"attempt", of>>}, PairLocks(q.course, q.term))
    BY <2>3 DEF BeginsAsRead, Update, Begin, Begun, Corrected, stored
  <2>5. QED
    BY <2>4
<1>6. CASE Annul(c)
  <2> DEFINE target == [attempts[of] EXCEPT !.status = "ANNULLED", !.version = @ + 1]
  <2>1. pc[c] = "attempt"
    BY <1>6 DEF Annul
  <2>2. target.version = attempts[of].version + 1
    BY <1>3, <2>1 DEF AttemptRow
  <2>3. AsRead(target)
    BY <1>4, <2>1, <2>2
  <2>4. BeginsAsRead(c, "annul", of, target, {<<"attempt", of>>}, {})
    BY <1>6, <2>3 DEF BeginsAsRead, Annul, Begin, Begun, stored
  <2>5. QED
    BY <2>4
<1>7. CASE Confirm(c)
  <2>1. pc[c] = "preview" /\ MayConfirm(of, view[c].version)
    BY <1>7 DEF Confirm
  <2>2. of \in Files /\ batches[of] # None /\ batches[of] \in Batch(of)
    BY <2>1 DEF IInv, Views, TypeOK
  <2>3. DOMAIN batches[of].rows = DOMAIN Rows[of]
    BY <2>2 DEF Batch
  <2>4. Readable(of)
    BY <2>1, <2>2, <2>3 DEF MayConfirm, Readable, ReadInv, BatchesAsRead
  <2>5. BeginsAsRead(c, "confirm", of, None, {<<"batch", of>>}, ConfirmLocks(of))
    BY <1>7, <2>4 DEF BeginsAsRead, Confirm, Begin, Begun, stored
  <2>6. QED
    BY <2>5
<1>8. QED
  BY <1>2, <1>5, <1>6, <1>7

LEMMA LockReads ==
  ASSUME IInv, ReadInv, NEW c \in Clients, LockNext(c)
  PROVE  ReadInv'
<1>1. PICK r \in Foremost(tx[c].todo) :
          tx' = [tx EXCEPT ![c].held = @ \cup {r}, ![c].todo = @ \ {r}]
  BY DEF LockNext
<1>2. tx[c] \in Transaction
  BY DEF IInv, TypeOK
<1> DEFINE held == tx[c].held \cup {r}
           todo == tx[c].todo \ {r}
           t == [tx[c] EXCEPT !.held = held, !.todo = todo]
<1>3. \A d \in Clients : tx'[d] = IF d = c THEN t ELSE tx[d]
  BY <1>1 DEF IInv, TypeOK
<1>4. t.kind = tx[c].kind /\ t.id = tx[c].id /\ t.target = tx[c].target /\ t.writes = tx[c].writes
  <2> HIDE DEF held, todo
  <2>1. QED
    BY <1>2 DEF Transaction
<1> HIDE DEF t
<1>5. \A d \in Clients : TxAsRead(tx'[d])
  BY <1>3, <1>4 DEF ReadInv, TxAsRead
<1>6. UNCHANGED <<attempts, batches>>
  BY DEF LockNext, stored
<1>7. QED
  BY <1>5, <1>6, TxStep

\* What a confirmation inserts was looked at again: no credits but those of the course.
LEMMA RowAsRead ==
  ASSUME NEW f \in Files, RowsStillAllowed(f), NEW n \in DOMAIN Rows[f], NEW before,
         \A i \in DOMAIN before : AsRead(before[i])
  PROVE  LET w == WithRow(f, n, before) IN \A i \in DOMAIN w : AsRead(w[i])
<1> DEFINE row == batches[f].rows[n]
           status == Rows[f][n].status
           number == NextNumber(Overlay(before), row.course, Rows[f][n].number)
           new == [Attempt(row.course, Rows[f][n].term, number, status) EXCEPT !.file = f, !.row = n]
           id == Fresh(before)
<1>1. CASE n \notin Accepted(f)
  BY <1>1 DEF WithRow
<1>2. CASE n \in Accepted(f)
  <2>1. EarnedAsStated(row.course, status, Rows[f][n].credits)
    BY <1>2 DEF RowsStillAllowed, Accepted
  <2>2. /\ new.version = 1 /\ new.file = f /\ new.row = n /\ new.course = row.course
        /\ new.status = status /\ new.credits = Earned(row.course, status)
    <3> HIDE DEF number, row, status
    <3>1. QED
      BY DEF Attempt
  <2>3. WithRow(f, n, before) = [i \in DOMAIN before \cup {id} |-> IF i = id THEN new ELSE before[i]]
    BY <1>2 DEF WithRow, Adding
  <2> HIDE DEF new, id
  <2>4. AsRead(new)
    BY <2>1, <2>2 DEF AsRead, status
  <2>5. QED
    BY <2>3, <2>4
<1>3. QED
  BY <1>1, <1>2

LEMMA ImportAsRead ==
  ASSUME NEW f \in Files, RowsStillAllowed(f)
  PROVE  \A i \in DOMAIN Imported(f) : AsRead(Imported(f)[i])
<1> DEFINE top == Len(Rows[f])
           Sound(w) == \A i \in DOMAIN w : AsRead(w[i])
<1>1. top \in Nat /\ DOMAIN Rows[f] = 1..top
  BY RowsAreListed
<1>2. PICK upTo : IsRun(f, upTo, top) /\ Imported(f) = upTo[top]
  BY ImportedIsRun
<1> DEFINE bad == {n \in 0..top : ~Sound(upTo[n])}
<1>3. SUFFICES ASSUME bad # {} PROVE FALSE
  BY <1>1, <1>2
<1>4. PICK least \in bad : \A m \in bad : least <= m
  <2>1. bad \subseteq Nat
    BY <1>1
  <2>2. QED
    BY <1>3, <2>1, LeastExists
<1>5. upTo[least] = IF least = 0 THEN <<>> ELSE WithRow(f, least, upTo[least - 1])
  BY <1>1, <1>2 DEF IsRun
<1>6. CASE least = 0
  <2>1. DOMAIN upTo[least] = {}
    BY <1>5, <1>6
  <2>2. QED
    BY <1>4, <2>1
<1>7. CASE least # 0
  <2>1. least \in DOMAIN Rows[f] /\ least - 1 \in 0..top /\ least - 1 \notin bad
    BY <1>1, <1>4, <1>7
  <2>2. Sound(upTo[least - 1])
    BY <2>1
  <2>3. Sound(upTo[least])
    BY <1>5, <1>7, <2>1, <2>2, RowAsRead
  <2>4. QED
    BY <1>4, <2>3
<1>8. QED
  BY <1>6, <1>7

LEMMA WriteReads ==
  ASSUME IInv, ReadInv, NEW c \in Clients, Write(c)
  PROVE  ReadInv'
<1> DEFINE recognized == IF tx[c].kind = "confirm" THEN Recognized(tx[c].id) ELSE {}
           seen == Seen(Writes(c), recognized)
           t == WithWrites(tx[c], Writes(c), recognized, seen, InFlight)
<1>1. pc[c] = "locking" /\ tx' = [tx EXCEPT ![c] = t] /\ UNCHANGED <<attempts, batches>> /\ StillAllowed(c)
  BY DEF Write, Go, WithWrites, stored
<1>2. tx[c] \in Transaction /\ tx[c].kind \in {"create", "update", "annul", "confirm"} /\ TxAsRead(tx[c])
  BY <1>1 DEF IInv, TypeOK, Transaction, Commands, Kinds, ReadInv
<1>3. t.kind = tx[c].kind /\ t.id = tx[c].id /\ t.target = tx[c].target /\ t.writes = Writes(c)
  <2> HIDE DEF recognized, seen
  <2>1. QED
    BY <1>2 DEF WithWrites, Transaction
<1> HIDE DEF t
<1>4. \A i \in DOMAIN Writes(c) : AsRead(Writes(c)[i])
  <2>1. CASE tx[c].kind = "create"
    <3>1. PICK i \in Ids \ Taken : DOMAIN Writes(c) = {i} /\ Writes(c)[i] = tx[c].target
      BY <2>1, CreateWrites
    <3>2. QED
      BY <1>2, <2>1, <3>1 DEF TxAsRead
  <2>2. CASE tx[c].kind \in {"update", "annul"}
    <3>1. \A i \in DOMAIN Writes(c) : Writes(c)[i] = tx[c].target
      BY <2>2, ChangeWrites
    <3>2. QED
      BY <1>2, <2>2, <3>1 DEF TxAsRead
  <2>3. CASE tx[c].kind = "confirm"
    <3>1. tx[c].id \in Files /\ RowsStillAllowed(tx[c].id)
      BY <1>1, <2>3 DEF StillAllowed, IInv, Commands, Command
    <3>2. Writes(c) = Imported(tx[c].id)
      BY <2>3 DEF Writes
    <3>3. QED
      BY <3>1, <3>2, ImportAsRead
  <2>4. QED
    BY <1>2, <2>1, <2>2, <2>3
<1>5. TxAsRead(t)
  BY <1>2, <1>3, <1>4 DEF TxAsRead
<1>6. \A d \in Clients : tx'[d] = IF d = c THEN t ELSE tx[d]
  BY <1>1 DEF IInv, TypeOK
<1>7. \A d \in Clients : TxAsRead(tx'[d])
  BY <1>5, <1>6 DEF ReadInv
<1>8. QED
  BY <1>1, <1>7, TxStep

LEMMA EndReads ==
  ASSUME IInv, ReadInv, NEW c \in Clients, NEW committed \in BOOLEAN, tx' = EndOf(c, committed)
  PROVE  \A d \in Clients : TxAsRead(tx'[d])
<1>1. tx'[c] = NoTx /\ \A d \in Clients \ {c} : Keeps(tx[d], tx'[d])
  BY OthersGoOn DEF IInv
<1>2. ASSUME NEW d \in Clients \ {c} PROVE TxAsRead(tx'[d])
  BY <1>1 DEF Keeps, TxAsRead, ReadInv
<1>3. QED
  BY <1>1, <1>2, NothingRead

LEMMA RollBackReads ==
  ASSUME IInv, ReadInv, NEW c \in Clients, RollBack(c)
  PROVE  ReadInv'
<1>1. tx' = EndOf(c, FALSE) /\ UNCHANGED <<attempts, batches>>
  BY DEF RollBack, stored
<1>2. QED
  BY <1>1, EndReads, TxStep

LEMMA CommitReads ==
  ASSUME IInv, ReadInv, NEW c \in Clients, Commit(c)
  PROVE  ReadInv'
<1> DEFINE t == tx[c]
<1>1. /\ \A i \in Ids : attempts'[i] = IF i \in DOMAIN t.writes THEN t.writes[i] ELSE attempts[i]
      /\ Created' = Created \cup DOMAIN t.writes /\ c \in InFlight
      /\ \A f \in Files : batches'[f] = IF t.kind = "confirm" /\ f = t.id THEN Applied(batches[f]) ELSE batches[f]
      /\ \A f \in Files : batches'[f] = None <=> batches[f] = None
  BY CommitEffects
<1>2. TxAsRead(t)
  BY DEF ReadInv
<1>3. DOMAIN t.writes \subseteq Ids
  BY <1>1, WrittenIsKnown
<1>4. AttemptsAsRead'
  <2>1. ASSUME NEW i \in Created' PROVE AsRead(attempts'[i])
    <3>1. i \in Ids
      BY <1>1, <1>3 DEF Created
    <3>2. CASE i \in DOMAIN t.writes
      BY <1>1, <1>2, <3>1, <3>2 DEF TxAsRead
    <3>3. CASE i \notin DOMAIN t.writes
      BY <1>1, <3>1, <3>3 DEF ReadInv, AttemptsAsRead
    <3>4. QED
      BY <3>2, <3>3
  <2>2. QED
    BY <2>1 DEF AttemptsAsRead
<1>5. BatchesAsRead'
  <2>1. ASSUME NEW f \in Files, batches'[f] # None
        PROVE  /\ Reports[f] # None
               /\ \A i \in DOMAIN Rows[f] : Rows[f][i].errors # {} => batches'[f].rows[i].status = "ERROR"
               /\ batches'[f].status = "APPLIED" => Readable(f)
    <3>1. batches[f] # None /\ batches[f] \in Batch(f)
      BY <1>1, <2>1 DEF IInv, TypeOK
    <3>2. /\ Reports[f] # None
          /\ \A i \in DOMAIN Rows[f] : Rows[f][i].errors # {} => batches[f].rows[i].status = "ERROR"
          /\ batches[f].status = "APPLIED" => Readable(f)
      BY <3>1 DEF ReadInv, BatchesAsRead
    <3>3. CASE t.kind = "confirm" /\ f = t.id
      <4>1. Readable(f)
        BY <1>2, <3>3 DEF TxAsRead
      <4>2. QED
        BY <3>2, <4>1 DEF Readable
    <3>4. CASE ~(t.kind = "confirm" /\ f = t.id)
      BY <1>1, <3>2, <3>4
    <3>5. QED
      BY <3>3, <3>4
  <2>2. QED
    BY <2>1 DEF BatchesAsRead, Readable
<1>6. tx' = EndOf(c, TRUE)
  BY DEF Commit
<1>7. QED
  BY <1>4, <1>5, <1>6, EndReads DEF ReadInv

LEMMA ReadInit == Init => ReadInv
<1> SUFFICES ASSUME Init PROVE ReadInv
  OBVIOUS
<1>1. Created = {} /\ (\A f \in Files : batches[f] = None) /\ \A c \in Clients : tx[c] = NoTx
  BY DEF Init, Created
<1>2. QED
  BY <1>1, NothingRead DEF ReadInv, BatchesAsRead, AttemptsAsRead

LEMMA ReadStep == IInv /\ ReadInv /\ [Next]_vars => ReadInv'
<1> SUFFICES ASSUME IInv, ReadInv, [Next]_vars PROVE ReadInv'
  OBVIOUS
<1>1. CASE UNCHANGED <<attempts, batches, tx>>
  BY <1>1, TxStep DEF ReadInv
<1>2. ASSUME NEW c \in Clients,
             \/ \E i \in Ids : ReadAttempt(c, i)
             \/ \E f \in Files : ReadBatch(c, f)
             \/ ReadCandidates(c) \/ Leave(c)
      PROVE  UNCHANGED <<attempts, batches, tx>>
  BY <1>2 DEF ReadAttempt, ReadBatch, ReadCandidates, Leave, stored
<1>3. ASSUME NEW c \in Clients, NEW f \in Files, Upload(c, f) PROVE ReadInv'
  BY <1>3, UploadReads
<1>4. ASSUME NEW c \in Clients, NEW i \in DOMAIN view[c].rows, NEW p \in Decisions, Resolve(c, i, p[1], p[2])
      PROVE  ReadInv'
  BY <1>4, ResolveReads
<1>5. ASSUME NEW c \in Clients,
             \/ \E q \in Requests :
                   \/ CreateManual(c, q.course, q.term, q.number, q.status)
                   \/ Update(c, q.course, q.term, q.status)
             \/ Annul(c) \/ Confirm(c)
      PROVE  ReadInv'
  BY <1>5, BeginReads
<1>6. ASSUME NEW c \in Clients, LockNext(c) \/ Write(c) \/ Commit(c) \/ RollBack(c) PROVE ReadInv'
  BY <1>6, LockReads, WriteReads, CommitReads, RollBackReads
<1>7. ASSUME NEW p \in Closings, Close(p[1], p[2]) PROVE UNCHANGED <<attempts, batches, tx>>
  BY <1>7 DEF Close, stored
<1>8. ASSUME UNCHANGED vars PROVE UNCHANGED <<attempts, batches, tx>>
  BY <1>8 DEF vars
<1>9. QED
  BY <1>1, <1>2, <1>3, <1>4, <1>5, <1>6, <1>7, <1>8 DEF Next

\* A file is applied once and completely, and as it is written: no record of it is left
\* out, and an attempt that was not corrected since has the status and the credits its
\* record states, whatever the file, the decisions and the clients are.
THEOREM AppliedIsExact == Spec => []AppliedExactlyOnce
<1> DEFINE AppliedStated == \A f \in Files : IsApplied(f) => AppliedAsStated(f)
<1>1. ASSUME IInv, ReadInv PROVE AppliedStated
  <2>1. SUFFICES ASSUME NEW f \in Files, IsApplied(f) PROVE AppliedAsStated(f)
    OBVIOUS
  <2>2. Reports[f] # None /\ Readable(f)
    BY <1>1, <2>1 DEF ReadInv, BatchesAsRead, IsApplied
  <2>3. /\ \A p \in DOMAIN Contents[f].pages : Contents[f].pages[p] # None
        /\ \A i \in DOMAIN Records(f) : Records(f)[i] # None
        /\ Len(Rows[f]) = Len(Records(f))
    BY <2>2, ReadAsStated DEF Readable
  <2>4. ASSUME NEW i \in Created, attempts[i].file = f, attempts[i].version = 1
        PROVE  LET a == attempts[i]
                   line == Records(f)[a.row]
                   credits == IF "credits_earned" \in DOMAIN line THEN "credits_earned" ELSE "credits"
               IN  /\ a.status = line["status"]
                   /\ credits \in DOMAIN line /\ (Contents[f].format = "PDF" => credits # "credits") =>
                         line[credits] \in {None, a.credits}
                   /\ a.credits # 0 => a.status \in Approved
    <3> DEFINE a == attempts[i]
               row == Rows[f][a.row]
               line == Records(f)[a.row]
               credits == IF "credits_earned" \in DOMAIN line THEN "credits_earned" ELSE "credits"
    <3>1. f # None /\ a.row \in DOMAIN Rows[f]
      BY <1>1, <2>4, RowAssumption DEF IInv, Stored, FromApplied, Accepted
    <3>2. /\ a.status = row.status /\ a.credits = Earned(a.course, a.status)
          /\ EarnedAsStated(a.course, a.status, row.credits)
      BY <1>1, <2>4, <3>1 DEF ReadInv, AttemptsAsRead, AsRead
    <3>3. row.errors = {}
      BY <2>2, <3>1 DEF Readable
    <3>4. /\ row.status = line["status"]
          /\ credits \in DOMAIN line /\ (Contents[f].format = "PDF" => credits # "credits") =>
                row.credits = line[credits]
      BY <2>2, <3>1, <3>3, ReadAsStated DEF Readable
    <3>5. row.credits \in {None, a.credits} /\ (a.credits # 0 => a.status \in Approved)
      BY <3>2 DEF EarnedAsStated, Earned
    <3> HIDE DEF a, row, line, credits
    <3>6. /\ a.status = line["status"]
          /\ credits \in DOMAIN line /\ (Contents[f].format = "PDF" => credits # "credits") =>
                line[credits] \in {None, a.credits}
          /\ a.credits # 0 => a.status \in Approved
      BY <3>2, <3>4, <3>5
    <3>7. QED
      BY <3>6 DEF a, line, credits
  <2>5. QED
    BY <2>3, <2>4 DEF AppliedAsStated
<1>2. Spec => []ReadInv
  BY AlwaysHolds, ReadInit, ReadStep, PTL DEF Spec
<1>3. EachRowOnce /\ AppliedStated => AppliedExactlyOnce
  BY DEF AppliedExactlyOnce, IsApplied
<1> HIDE DEF AppliedStated
<1>4. QED
  BY <1>1, <1>2, <1>3, AlwaysHolds, RowsAreAppliedOnce, PTL
=============================================================================
