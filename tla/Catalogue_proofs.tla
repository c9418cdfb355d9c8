--------------------------- MODULE Catalogue_proofs ---------------------------
(***************************************************************************)
(* Proofs about the catalogue and what is offered of it, for every set of  *)
(* archives, whatever the rules in their files say.                        *)
(***************************************************************************)
EXTENDS Offerings, FiniteSetTheorems, WellFoundedInduction, TLAPS

-----------------------------------------------------------------------------
(* The greatest of numbers, and the last of revisions.                     *)

LEMMA GreatestBelow ==
  ASSUME NEW bound \in Nat, NEW S \in SUBSET Nat, S # {}, \A x \in S : x <= bound
  PROVE  \E x \in S : \A y \in S : y <= x
<1> DEFINE gaps == {bound - x : x \in S}
           before == OpToRel(<, Nat)
<1>1. gaps \in SUBSET Nat /\ gaps # {}
  <2>1. \A x \in S : bound - x \in Nat
    OBVIOUS
  <2>2. QED
    BY <2>1
<1>2. PICK g \in gaps : \A h \in gaps : ~(<<h, g>> \in before)
  BY <1>1, NatLessThanWellFounded, WFMin
<1>3. before = {pair \in Nat \X Nat : pair[1] < pair[2]}
  BY DEF OpToRel
<1>4. PICK x \in S : g = bound - x
  BY <1>2
<1>5. ASSUME NEW y \in S PROVE y <= x
  <2>1. bound - y \in gaps /\ bound - y \in Nat /\ g \in Nat
    BY <1>1, <1>2
  <2>2. ~(bound - y < g)
    BY <2>1, <1>2, <1>3
  <2>3. QED
    BY <2>1, <2>2, <1>4
<1>6. QED
  BY <1>5

\* A finite set with a strict total order has a greatest element: the one with the
\* fewest elements from it upwards.
LEMMA LastExists ==
  ASSUME NEW S, IsFiniteSet(S), S # {}, NEW Later \in SUBSET (S \X S),
         \A r, s, t \in S : <<r, s>> \in Later /\ <<s, t>> \in Later => <<r, t>> \in Later,
         \A r \in S : <<r, r>> \notin Later,
         \A r, s \in S : r # s => <<r, s>> \in Later \/ <<s, r>> \in Later
  PROVE  \E r \in S : \A s \in S \ {r} : <<r, s>> \in Later
<1> DEFINE From(r) == {s \in S : s = r \/ <<s, r>> \in Later}
           ups == {From(r) : r \in S}
<1>1. ups \subseteq FiniteSubsetsOf(S) /\ ups # {}
  <2>1. FiniteSubsetsOf(S) = SUBSET S
    BY FS_FiniteSubsetsOfFinite
  <2>2. \A r \in S : From(r) \in SUBSET S
    OBVIOUS
  <2>3. ASSUME NEW U \in ups PROVE U \in SUBSET S
    <3>1. PICK r \in S : U = From(r)
      OBVIOUS
    <3>2. QED
      BY <2>2, <3>1
  <2>4. PICK r \in S : TRUE
    OBVIOUS
  <2>5. From(r) \in ups
    OBVIOUS
  <2>6. QED
    BY <2>1, <2>3, <2>5
<1>2. PICK U \in ups : \A V \in ups : ~(<<V, U>> \in StrictSubsetOrdering(S))
  BY <1>1, FS_StrictSubsetOrderingWellFounded, WFMin
<1>3. PICK r \in S : U = From(r)
  BY <1>2
<1>4. ASSUME NEW s \in S \ {r}, <<r, s>> \notin Later PROVE FALSE
  <2>1. <<s, r>> \in Later
    BY <1>4
  <2>2. From(s) \subseteq From(r)
    BY <2>1
  <2>3. r \in From(r) /\ r \notin From(s)
    BY <1>4
  <2>4. <<From(s), From(r)>> \in StrictSubsetOrdering(S)
    BY <2>2, <2>3 DEF StrictSubsetOrdering
  <2>5. From(s) \in ups
    BY SMT
  <2>6. QED
    BY <1>2, <1>3, <2>4, <2>5
<1>5. QED
  BY <1>4

-----------------------------------------------------------------------------
(* The rows of a file, and their keys.                                     *)

LEMMA ListedRows ==
  ASSUME NEW b, IsFile(b), NEW e \in Listed
  PROVE  Len(b[e]) \in Nat /\ DOMAIN b[e] = 1 .. Len(b[e]) /\ Rows(b, e) = {b[e][i] : i \in DOMAIN b[e]}
BY DEF IsFile, Rows, ToSet

LEMMA ListedIsFinite ==
  ASSUME NEW b, IsFile(b), NEW e \in Listed
  PROVE  IsFiniteSet(Rows(b, e))
<1> DEFINE f == [i \in 1 .. Len(b[e]) |-> b[e][i]]
<1>1. /\ Len(b[e]) \in Nat /\ Rows(b, e) = {b[e][i] : i \in 1 .. Len(b[e])}
  BY ListedRows
<1>2. f \in Surjection(1 .. Len(b[e]), Rows(b, e))
  BY <1>1 DEF Surjection
<1>3. IsFiniteSet(1 .. Len(b[e]))
  BY <1>1, FS_Interval
<1>4. QED
  BY <1>2, <1>3, FS_Surjection

LEMMA KeyOfContent ==
  ASSUME NEW b, IsFile(b), NEW e \in Entities, NEW row \in Rows(b, e)
  PROVE  KeyOf(e, Content(row)) = KeyOf(e, row)
<1>1. CASE e = "components"
  BY <1>1 DEF IsFile, Rows, Listed, KeyOf, Content
<1>2. CASE e = "groups"
  BY <1>2 DEF IsFile, Rows, Listed, KeyOf, Content
<1>3. CASE e = "courses"
  BY <1>3 DEF IsFile, Rows, Listed, KeyOf, Content
<1>4. CASE e = "memberships"
  BY <1>4 DEF IsFile, Rows, Listed, KeyOf, Content
<1>5. CASE e = "enrollment"
  BY <1>5 DEF IsFile, Rows, Listed, KeyOf, Content
<1>6. CASE e = "graduation"
  BY <1>6 DEF IsFile, Rows, Listed, KeyOf, Content
<1>7. CASE e = "ambiguities"
  BY <1>7 DEF IsFile, Rows, Listed, KeyOf, Content
<1>8. QED
  BY <1>1, <1>2, <1>3, <1>4, <1>5, <1>6, <1>7 DEF Entities

\* In a valid file a key is that of one row.
LEMMA OneRowOfKey ==
  ASSUME NEW b, IsFile(b), KeysAreUnique(b), NEW e \in {"components", "groups", "courses", "memberships"},
         NEW row \in Rows(b, e), NEW other \in Rows(b, e), KeyOf(e, row) = KeyOf(e, other)
  PROVE  row = other
<1> DEFINE f == [x \in Rows(b, e) |-> KeyOf(e, x)]
<1>1. IsFiniteSet(Rows(b, e)) /\ Cardinality(Rows(b, e)) = Cardinality(KeysOf(b, e))
  BY DEF IsFile, KeysAreUnique, Rows, Listed, Entities
<1>2. f \in Surjection(Rows(b, e), KeysOf(b, e))
  BY DEF Surjection, KeysOf
<1>3. f \in Injection(Rows(b, e), KeysOf(b, e))
  BY <1>1, <1>2, FS_SurjSameCardinalityImpliesInj
<1>4. QED
  BY <1>3 DEF Injection, IsInjective

LEMMA OneEnrollmentOfKey ==
  ASSUME NEW b, IsFile(b), KeysAreUnique(b),
         NEW i \in DOMAIN b.enrollment, NEW j \in DOMAIN b.enrollment,
         KeyOf("enrollment", b.enrollment[i]) = KeyOf("enrollment", b.enrollment[j])
  PROVE  i = j
<1> DEFINE f == [k \in 1 .. Len(b.enrollment) |-> KeyOf("enrollment", b.enrollment[k])]
<1>1. /\ Len(b.enrollment) \in Nat /\ DOMAIN b.enrollment = 1 .. Len(b.enrollment)
      /\ Rows(b, "enrollment") = {b.enrollment[k] : k \in DOMAIN b.enrollment}
  BY ListedRows DEF Listed
<1>2. IsFiniteSet(1 .. Len(b.enrollment)) /\ Cardinality(1 .. Len(b.enrollment)) = Len(b.enrollment)
  BY <1>1, FS_Interval
<1>3. f \in Surjection(1 .. Len(b.enrollment), KeysOf(b, "enrollment"))
  BY <1>1 DEF Surjection, KeysOf
<1>4. f \in Injection(1 .. Len(b.enrollment), KeysOf(b, "enrollment"))
  BY <1>2, <1>3, FS_SurjSameCardinalityImpliesInj DEF KeysAreUnique
<1>5. QED
  BY <1>1, <1>4 DEF Injection, IsInjective

LastPlace(b, e, key) == Max({i \in DOMAIN b[e] : KeyOf(e, b[e][i]) = key})

LEMMA LastOfKey ==
  ASSUME NEW b, IsFile(b), NEW e \in Listed, NEW key \in KeysOf(b, e)
  PROVE  /\ LastPlace(b, e, key) \in DOMAIN b[e]
         /\ KeyOf(e, b[e][LastPlace(b, e, key)]) = key
         /\ \A i \in DOMAIN b[e] : KeyOf(e, b[e][i]) = key => i <= LastPlace(b, e, key)
<1> DEFINE places == {i \in DOMAIN b[e] : KeyOf(e, b[e][i]) = key}
<1>1. /\ Len(b[e]) \in Nat /\ DOMAIN b[e] = 1 .. Len(b[e])
      /\ Rows(b, e) = {b[e][i] : i \in DOMAIN b[e]}
  BY ListedRows
<1>2. places \in SUBSET Nat /\ places # {} /\ \A i \in places : i <= Len(b[e])
  BY <1>1 DEF KeysOf
<1>3. \E i \in places : \A j \in places : j <= i
  BY <1>1, <1>2, GreatestBelow
<1>4. Max(places) \in places /\ \A j \in places : Max(places) >= j
  <2>1. \E i \in places : \A j \in places : i >= j
    BY <1>2, <1>3
  <2>2. QED
    BY <2>1 DEF Max
<1>5. \A i \in places : i <= Max(places)
  BY <1>2, <1>4
<1>6. LastPlace(b, e, key) = Max(places)
  BY DEF LastPlace
<1>7. QED
  BY <1>4, <1>5, <1>6

\* The row that the comparison finds by a key is the one that counts, and no other is
\* found by its key.
LEMMA CountedIsFound ==
  ASSUME NEW b, IsFile(b), KeysAreUnique(b), NEW e \in Entities
  PROVE  /\ \A key \in KeysOf(b, e) :
               RowOf(b, e, key) \in Counted(b, e) /\ KeyOf(e, RowOf(b, e, key)) = key /\ RowOf(b, e, key) # None
         /\ \A x \in Counted(b, e) : KeyOf(e, x) \in KeysOf(b, e) /\ RowOf(b, e, KeyOf(e, x)) = x
<1>1. b # None /\ \A row \in Rows(b, e) : KeyOf(e, Content(row)) = KeyOf(e, row)
  BY KeyOfContent DEF IsFile
<1>2. \A row \in Rows(b, e) : Content(row) \in Contents(b, e) /\ Content(row) # None
  BY <1>1 DEF Contents, IsFile
<1>3. CASE e \in Listed
  <2> DEFINE s == b[e]
             IsLast(i) == \A k \in DOMAIN s : k > i => KeyOf(e, s[k]) # KeyOf(e, s[i])
  <2>1. /\ Len(s) \in Nat /\ DOMAIN s = 1 .. Len(s) /\ Rows(b, e) = {s[i] : i \in DOMAIN s}
    BY <1>3, ListedRows
  <2>2. Counted(b, e) = {Content(s[i]) : i \in {j \in DOMAIN s : IsLast(j)}}
    BY <1>1, <1>3 DEF Counted
  <2>3. \A key \in KeysOf(b, e) : RowOf(b, e, key) = Content(s[LastPlace(b, e, key)])
    BY <1>1, <1>3 DEF RowOf, LastPlace
  <2>4. ASSUME NEW key \in KeysOf(b, e)
        PROVE  RowOf(b, e, key) \in Counted(b, e) /\ KeyOf(e, RowOf(b, e, key)) = key /\ RowOf(b, e, key) # None
    <3> DEFINE last == LastPlace(b, e, key)
    <3>1. /\ last \in DOMAIN s /\ KeyOf(e, s[last]) = key
          /\ \A i \in DOMAIN s : KeyOf(e, s[i]) = key => i <= last
      BY <1>3, LastOfKey
    <3>2. RowOf(b, e, key) = Content(s[last])
      BY <2>3
    <3>3. IsLast(last) /\ s[last] \in Rows(b, e)
      BY <2>1, <3>1
    <3>4. QED
      BY <1>1, <1>2, <2>2, <3>1, <3>2, <3>3
  <2>5. ASSUME NEW x \in Counted(b, e)
        PROVE  KeyOf(e, x) \in KeysOf(b, e) /\ RowOf(b, e, KeyOf(e, x)) = x
    <3>1. PICK i \in DOMAIN s : IsLast(i) /\ x = Content(s[i])
      BY <2>2
    <3>2. s[i] \in Rows(b, e) /\ KeyOf(e, x) = KeyOf(e, s[i])
      BY <1>1, <2>1, <3>1
    <3> DEFINE key == KeyOf(e, x)
               last == LastPlace(b, e, key)
    <3>3. key \in KeysOf(b, e)
      BY <3>2 DEF KeysOf
    <3>4. /\ last \in DOMAIN s /\ KeyOf(e, s[last]) = key
          /\ \A j \in DOMAIN s : KeyOf(e, s[j]) = key => j <= last
      BY <1>3, <3>3, LastOfKey
    <3>5. RowOf(b, e, key) = Content(s[last])
      BY <2>3, <3>3
    <3>6. last = i
      <4>1. i <= last
        BY <3>2, <3>4
      <4>2. ~(last > i)
        BY <3>1, <3>2, <3>4
      <4>3. QED
        BY <2>1, <3>4, <4>1, <4>2
    <3>7. QED
      BY <3>1, <3>3, <3>5, <3>6
  <2>6. QED
    BY <2>4, <2>5
<1>4. CASE e \notin Listed
  <2>1. e \in {"components", "groups", "courses", "memberships"}
    BY <1>4 DEF Entities, Listed
  <2>2. Counted(b, e) = Contents(b, e) /\ Contents(b, e) = {Content(row) : row \in Rows(b, e)}
    BY <1>1, <1>4 DEF Counted, Contents
  <2>3. \A x, y \in Contents(b, e) : KeyOf(e, x) = KeyOf(e, y) => x = y
    BY <1>1, <2>1, <2>2, OneRowOfKey
  <2>4. ASSUME NEW key \in KeysOf(b, e)
        PROVE  RowOf(b, e, key) \in Contents(b, e) /\ KeyOf(e, RowOf(b, e, key)) = key
    <3>1. \E x \in Contents(b, e) : KeyOf(e, x) = key
      BY <1>1, <2>2 DEF KeysOf
    <3>2. RowOf(b, e, key) = CHOOSE x \in Contents(b, e) : KeyOf(e, x) = key
      BY <1>1, <1>4 DEF RowOf
    <3>3. QED
      BY <3>1, <3>2
  <2>5. \A x \in Contents(b, e) : KeyOf(e, x) \in KeysOf(b, e) /\ x # None
    BY <1>1, <1>2, <2>2 DEF KeysOf
  <2>6. QED
    BY <2>2, <2>3, <2>4, <2>5
<1>5. QED
  BY <1>3, <1>4

-----------------------------------------------------------------------------
(* The comparison of two files.                                            *)

\* None, or a file that passed validation.
Comparable(b) == b = None \/ (IsFile(b) /\ KeysAreUnique(b))

\* The changes a diff has in one kind of rows.
ChangesOf(diff, e) == {diff[row] : row \in {r \in DOMAIN diff : r[1] = e}}

LEMMA FoundOrNone ==
  ASSUME NEW b, Comparable(b), NEW e \in Entities, NEW key
  PROVE  RowOf(b, e, key) = None \/ (RowOf(b, e, key) \in Counted(b, e) /\ KeyOf(e, RowOf(b, e, key)) = key)
<1>1. CASE b # None /\ key \in KeysOf(b, e)
  BY <1>1, CountedIsFound DEF Comparable
<1>2. CASE b = None \/ key \notin KeysOf(b, e)
  BY <1>2 DEF RowOf
<1>3. QED
  BY <1>1, <1>2

LEMMA CountedHasRow ==
  ASSUME NEW b, Comparable(b), NEW e \in Entities, NEW x \in Counted(b, e)
  PROVE  b # None /\ KeyOf(e, x) \in KeysOf(b, e) /\ RowOf(b, e, KeyOf(e, x)) = x /\ x # None
<1>1. b # None
  BY DEF Counted
<1>2. IsFile(b) /\ KeysAreUnique(b)
  BY <1>1 DEF Comparable
<1>3. KeyOf(e, x) \in KeysOf(b, e) /\ RowOf(b, e, KeyOf(e, x)) = x
  BY <1>2, CountedIsFound
<1>4. RowOf(b, e, KeyOf(e, x)) # None
  BY <1>2, <1>3, CountedIsFound
<1>5. QED
  BY <1>1, <1>3, <1>4

\* The changes of one kind are those of the keys of either file whose rows differ.
LEMMA ChangesAreDifferences ==
  ASSUME NEW base, NEW b, NEW e \in Entities
  PROVE  LET keys == KeysOf(b, e) \cup (IF base = None THEN {} ELSE KeysOf(base, e))
         IN ChangesOf(SemanticDiff(base, b), e) =
              {[before |-> RowOf(base, e, key), after |-> RowOf(b, e, key)] :
                  key \in {k \in keys : RowOf(base, e, k) # RowOf(b, e, k)}}
<1> DEFINE keys == KeysOf(b, e) \cup (IF base = None THEN {} ELSE KeysOf(base, e))
           diff == SemanticDiff(base, b)
           rows == NamedRows(b) \cup (IF base = None THEN {} ELSE NamedRows(base))
           changed == {r \in rows : Found(base, r) # Found(b, r)}
<1>1. e \notin Headers
  BY DEF Entities, Headers
<1>2. diff = [row \in changed |-> [before |-> Found(base, row), after |-> Found(b, row)]]
  BY DEF SemanticDiff, Difference, Change
<1>3. \A key : Found(base, <<e, key>>) = RowOf(base, e, key) /\ Found(b, <<e, key>>) = RowOf(b, e, key)
  BY <1>1 DEF Found
<1>4. \A f, r : r \in NamedRows(f) /\ r[1] = e <=> \E key \in KeysOf(f, e) : r = <<e, key>>
  BY <1>1 DEF NamedRows
<1>5. \A r : r \in rows /\ r[1] = e <=> \E key \in keys : r = <<e, key>>
  BY <1>4
<1> HIDE DEF keys, rows
<1>6. {r \in changed : r[1] = e} = {<<e, key>> : key \in {k \in keys : RowOf(base, e, k) # RowOf(b, e, k)}}
  <2>1. ASSUME NEW r \in changed, r[1] = e
        PROVE  \E key \in {k \in keys : RowOf(base, e, k) # RowOf(b, e, k)} : r = <<e, key>>
    <3>1. PICK key \in keys : r = <<e, key>>
      BY <1>5, <2>1
    <3>2. RowOf(base, e, key) # RowOf(b, e, key)
      BY <1>3, <2>1, <3>1
    <3>3. QED
      BY <3>1, <3>2
  <2>2. ASSUME NEW key \in keys, RowOf(base, e, key) # RowOf(b, e, key)
        PROVE  <<e, key>> \in changed /\ <<e, key>>[1] = e
    BY <1>3, <1>5, <2>2
  <2>3. QED
    BY <2>1, <2>2
<1>7. DOMAIN diff = changed
  BY <1>2
<1>8. \A key \in keys : RowOf(base, e, key) # RowOf(b, e, key) =>
           diff[<<e, key>>] = [before |-> RowOf(base, e, key), after |-> RowOf(b, e, key)]
  BY <1>2, <1>3, <1>6
<1>9. ChangesOf(diff, e) = {diff[row] : row \in {<<e, key>> : key \in {k \in keys : RowOf(base, e, k) # RowOf(b, e, k)}}}
  BY <1>6, <1>7 DEF ChangesOf
<1> HIDE DEF diff
<1>10. ChangesOf(diff, e) = {[before |-> RowOf(base, e, key), after |-> RowOf(b, e, key)] :
                               key \in {k \in keys : RowOf(base, e, k) # RowOf(b, e, k)}}
  BY ZenonT(60), <1>8, <1>9
<1>11. QED
  BY <1>10 DEF keys, diff

\* A diff applied to the one file gives the other.
LEMMA DiffIsExact ==
  ASSUME NEW base, NEW b, Comparable(base), Comparable(b), NEW e \in Entities
  PROVE  LET changes == ChangesOf(SemanticDiff(base, b), e)
         IN (Counted(base, e) \ {d.before : d \in changes}) \cup ({d.after : d \in changes} \ {None}) = Counted(b, e)
<1> DEFINE changes == ChangesOf(SemanticDiff(base, b), e)
           keys == KeysOf(b, e) \cup (IF base = None THEN {} ELSE KeysOf(base, e))
           applied == (Counted(base, e) \ {d.before : d \in changes}) \cup ({d.after : d \in changes} \ {None})
<1>1. changes = {[before |-> RowOf(base, e, key), after |-> RowOf(b, e, key)] :
                    key \in {k \in keys : RowOf(base, e, k) # RowOf(b, e, k)}}
  BY ChangesAreDifferences
<1> HIDE DEF changes, keys
<1>2. ASSUME NEW x \in Counted(b, e) PROVE x \in applied
  <2> DEFINE key == KeyOf(e, x)
  <2>1. b # None /\ key \in KeysOf(b, e) /\ RowOf(b, e, key) = x /\ x # None
    BY CountedHasRow
  <2>2. key \in keys
    BY <2>1 DEF keys
  <2>3. CASE RowOf(base, e, key) # x
    <3>1. [before |-> RowOf(base, e, key), after |-> x] \in changes
      BY <1>1, <2>1, <2>2, <2>3
    <3>2. QED
      BY <2>1, <3>1
  <2>4. CASE RowOf(base, e, key) = x
    <3>1. x \in Counted(base, e)
      BY <2>1, <2>4, FoundOrNone
    <3>2. ASSUME NEW d \in changes PROVE d.before # x
      <4>1. PICK k \in keys : RowOf(base, e, k) # RowOf(b, e, k) /\ d.before = RowOf(base, e, k)
        BY <1>1
      <4>2. ASSUME d.before = x PROVE FALSE
        <5>1. KeyOf(e, RowOf(base, e, k)) = k
          BY <2>1, <4>1, <4>2, FoundOrNone
        <5>2. QED
          BY <2>1, <2>4, <4>1, <4>2, <5>1
      <4>3. QED
        BY <4>2
    <3>3. QED
      BY <3>1, <3>2
  <2>5. QED
    BY <2>3, <2>4
<1>3. ASSUME NEW x \in applied PROVE x \in Counted(b, e)
  <2>1. CASE x \in {d.after : d \in changes} \ {None}
    <3>1. PICK k \in keys : x = RowOf(b, e, k) /\ x # None
      BY <1>1, <2>1
    <3>2. QED
      BY <3>1, FoundOrNone
  <2>2. CASE x \in Counted(base, e) \ {d.before : d \in changes}
    <3> DEFINE key == KeyOf(e, x)
    <3>1. base # None /\ key \in KeysOf(base, e) /\ RowOf(base, e, key) = x /\ x # None
      BY <2>2, CountedHasRow
    <3>2. key \in keys
      BY <3>1 DEF keys
    <3>3. RowOf(b, e, key) = x
      <4>1. ASSUME RowOf(b, e, key) # x PROVE FALSE
        <5>1. [before |-> x, after |-> RowOf(b, e, key)] \in changes
          BY <1>1, <3>1, <3>2, <4>1
        <5>2. QED
          BY <2>2, <5>1
      <4>2. QED
        BY <4>1
    <3>4. QED
      BY <3>1, <3>3, FoundOrNone
  <2>3. QED
    BY <2>1, <2>2
<1>4. applied = Counted(b, e)
  BY <1>2, <1>3
<1>5. QED
  BY <1>4 DEF changes

-----------------------------------------------------------------------------
(* The invariant.                                                          *)

RevisionFields == {"status", "from", "total", "payload", "created", "components", "groups", "memberships",
                   "requirements"}
IsRevision(w) == w = [f \in RevisionFields |-> w[f]]

ProposalFields == {"status", "base", "diff", "against", "candidates", "open"}
IsProposal(p) == p = [f \in ProposalFields |-> p[f]]

\* A revision was imported from a valid file of its own plan and code.
RevisionsTyped ==
    /\ archive \in Archives
    /\ revisions = [r \in Imported |-> revisions[r]] /\ IsFiniteSet(Imported)
    /\ \A r \in Imported : LET w == revisions[r] IN
          /\ IsRevision(w) /\ w.payload \in archive.baselines /\ r = Key(w.payload)
          /\ ValidBaseline(w.payload) /\ Parsable(w.payload)
          /\ w.from = w.payload.from /\ w.total = w.payload.total

\* Revisions were created one after another.
OneAfterAnother ==
    /\ \A r \in Imported : revisions[r].created \in Nat /\ revisions[r].created < Cardinality(Imported)
    /\ \A r, s \in Imported : revisions[r].created = revisions[s].created => r = s

\* A candidate says what the file under review has for a row, and what another has.
Says(b, item, candidate) ==
    /\ \E base \in Bases(b) : candidate = Change(base, b, item[1])
    /\ candidate.before # candidate.after /\ item[2] = Operation(item[1][1], candidate)

CandidatesSay(b, candidates) == \A item \in DOMAIN candidates : Says(b, item, candidates[item])

\* A proposal holds the diff from the file it was drawn up against to its own.
ProposalsTyped ==
    /\ proposals = [b \in DOMAIN proposals |-> proposals[b]]
    /\ \A b \in DOMAIN proposals : LET p == proposals[b] IN
          /\ IsProposal(p) /\ b \in archive.baselines /\ Key(b) \in Imported /\ KeysAreUnique(b)
          /\ p.against = None \/ (p.against \in archive.baselines /\ KeysAreUnique(p.against))
          /\ p.diff = SemanticDiff(p.against, b) /\ Items(p.diff) \subseteq DOMAIN p.candidates
          /\ CandidatesSay(b, p.candidates)

\* The membership of a course names a version that exists.
VersionsThere ==
    /\ versions = [v \in DOMAIN versions |-> versions[v]]
    /\ \A r \in Imported : \A m \in revisions[r].memberships : <<m.course, m.from>> \in DOMAIN versions

CatalogueInv == RevisionsTyped /\ OneAfterAnother /\ ProposalsTyped /\ VersionsThere

\* A step that imports nothing: statuses change, and evidence of what is not published.
Quiet ==
    /\ UNCHANGED <<archive, versions>>
    /\ DOMAIN revisions' = Imported
    /\ revisions' = [r \in Imported |-> [revisions[r] EXCEPT !.status = revisions'[r].status,
                                                            !.requirements = revisions'[r].requirements]]
    /\ \A r \in Imported : revisions[r].status \in Kept => revisions'[r].requirements = revisions[r].requirements
    /\ DOMAIN proposals' = DOMAIN proposals
    /\ proposals' = [b \in DOMAIN proposals |-> [proposals[b] EXCEPT !.status = proposals'[b].status,
                                                                     !.open = proposals'[b].open]]

LEMMA DecidedIsQuiet ==
  ASSUME CatalogueInv, NEW b \in DOMAIN proposals, NEW p, NEW w, Decided(b, p, w)
  PROVE  Quiet
<1>1. Key(b) \in Imported /\ (\A r \in Imported : IsRevision(revisions[r])) /\ \A c \in DOMAIN proposals : IsProposal(proposals[c])
  BY DEF CatalogueInv, RevisionsTyped, ProposalsTyped
<1>2. revisions = [r \in Imported |-> revisions[r]] /\ proposals = [c \in DOMAIN proposals |-> proposals[c]]
  BY DEF CatalogueInv, RevisionsTyped, ProposalsTyped
<1>3. \A r \in Imported : revisions'[r] = IF r = Key(b) THEN [revisions[r] EXCEPT !.status = w] ELSE revisions[r]
  BY DEF Decided, Imported
<1>4. \A c \in DOMAIN proposals : proposals'[c] = IF c = b THEN [proposals[c] EXCEPT !.status = p] ELSE proposals[c]
  BY DEF Decided
<1>5. DOMAIN revisions' = Imported /\ DOMAIN proposals' = DOMAIN proposals
  BY DEF Decided, Imported
<1>6. \A r \in Imported : /\ revisions'[r].requirements = revisions[r].requirements
                           /\ revisions'[r] = [revisions[r] EXCEPT !.status = revisions'[r].status,
                                                !.requirements = revisions'[r].requirements]
  BY <1>1, <1>3 DEF IsRevision, RevisionFields
<1>7. \A c \in DOMAIN proposals : proposals'[c] = [proposals[c] EXCEPT !.status = proposals'[c].status,
                                                     !.open = proposals'[c].open]
  BY <1>1, <1>4 DEF IsProposal, ProposalFields
<1>8. revisions' = [r \in Imported |-> revisions'[r]] /\ proposals' = [c \in DOMAIN proposals |-> proposals'[c]]
  BY <1>2 DEF Decided, Imported
<1>9. QED
  BY <1>5, <1>6, <1>7, <1>8 DEF Quiet, Decided

LEMMA SameProposal ==
  ASSUME NEW p, IsProposal(p)
  PROVE  p = [p EXCEPT !.status = p.status, !.open = p.open]
BY DEF IsProposal, ProposalFields

LEMMA RevisionsOnlyIsQuiet ==
  ASSUME CatalogueInv, UNCHANGED <<archive, versions, proposals>>,
         DOMAIN revisions' = Imported, revisions' = [r \in Imported |-> revisions'[r]],
         \A r \in Imported : revisions'[r] = [revisions[r] EXCEPT !.status = revisions'[r].status,
                                                                !.requirements = revisions'[r].requirements],
         \A r \in Imported : revisions[r].status \in Kept => revisions'[r].requirements = revisions[r].requirements
  PROVE  Quiet
<1>1. \A c \in DOMAIN proposals : proposals'[c] = [proposals[c] EXCEPT !.status = proposals'[c].status,
                                                     !.open = proposals'[c].open]
  BY SameProposal DEF CatalogueInv, ProposalsTyped
<1>2. proposals' = [c \in DOMAIN proposals |-> proposals'[c]] /\ DOMAIN proposals' = DOMAIN proposals
  BY DEF CatalogueInv, ProposalsTyped
<1>3. QED
  BY Zenon, <1>1, <1>2 DEF Quiet

LEMMA ReviewCandidatesIsQuiet ==
  ASSUME CatalogueInv, NEW b \in DOMAIN proposals, NEW open, ReviewCandidates(b, open)
  PROVE  Quiet
<1>1. \A c \in DOMAIN proposals : proposals'[c] = IF c = b THEN [proposals[c] EXCEPT !.open = open] ELSE proposals[c]
  BY DEF ReviewCandidates
<1>2. \A c \in DOMAIN proposals : proposals'[c] = [proposals[c] EXCEPT !.status = proposals'[c].status,
                                                     !.open = proposals'[c].open]
  BY <1>1 DEF CatalogueInv, ProposalsTyped, IsProposal, ProposalFields
<1>3. DOMAIN proposals' = DOMAIN proposals /\ proposals' = [c \in DOMAIN proposals |-> proposals'[c]]
  BY DEF ReviewCandidates, CatalogueInv, ProposalsTyped
<1>4. \A r \in Imported : revisions'[r] = [revisions[r] EXCEPT !.status = revisions'[r].status,
                                            !.requirements = revisions'[r].requirements]
  BY DEF ReviewCandidates, CatalogueInv, RevisionsTyped, IsRevision, RevisionFields
<1>5. revisions' = [r \in Imported |-> revisions'[r]] /\ DOMAIN revisions' = Imported
  BY DEF ReviewCandidates, CatalogueInv, RevisionsTyped, Imported
<1>6. UNCHANGED <<archive, versions>> /\ \A r \in Imported : revisions'[r].requirements = revisions[r].requirements
  BY DEF ReviewCandidates
<1>7. QED
  BY <1>2, <1>3, <1>4, <1>5, <1>6 DEF Quiet

LEMMA LinkEvidenceIsQuiet ==
  ASSUME CatalogueInv, NEW r \in Imported, NEW q, NEW linked, LinkEvidence(r, q, linked)
  PROVE  Quiet
<1>1. \A s \in Imported : IsRevision(revisions[s])
  BY DEF CatalogueInv, RevisionsTyped
<1>2. PICK rows : \A s \in Imported : revisions'[s] = IF s = r THEN [revisions[s] EXCEPT !.requirements = rows]
                                                         ELSE revisions[s]
  <2>1. \A s \in Imported : revisions'[s] =
           IF s = r THEN [revisions[s] EXCEPT !.requirements = (revisions[r].requirements \ {q}) \cup {[q EXCEPT !.linked = linked]}]
           ELSE revisions[s]
    BY DEF LinkEvidence, Imported
  <2>2. QED
    BY <2>1
<1>3. \A s \in Imported : revisions'[s] = [revisions[s] EXCEPT !.status = revisions'[s].status,
                                            !.requirements = revisions'[s].requirements]
  BY <1>1, <1>2 DEF IsRevision, RevisionFields
<1>4. \A s \in Imported : revisions[s].status \in Kept => revisions'[s].requirements = revisions[s].requirements
  BY <1>2 DEF LinkEvidence, CanEdit
<1>5. revisions' = [s \in Imported |-> revisions'[s]] /\ DOMAIN revisions' = Imported
  BY DEF LinkEvidence, CatalogueInv, RevisionsTyped, Imported
<1>6. QED
  BY <1>3, <1>4, <1>5, RevisionsOnlyIsQuiet DEF LinkEvidence

LEMMA RetireIsQuiet ==
  ASSUME CatalogueInv, NEW r \in Imported, Retire(r)
  PROVE  Quiet
<1>1. \A s \in Imported : IsRevision(revisions[s])
  BY DEF CatalogueInv, RevisionsTyped
<1>2. \A s \in Imported : revisions'[s] = IF s = r THEN [revisions[s] EXCEPT !.status = "RETIRED"] ELSE revisions[s]
  BY DEF Retire, Imported
<1>3. \A s \in Imported : /\ revisions'[s].requirements = revisions[s].requirements
                           /\ revisions'[s] = [revisions[s] EXCEPT !.status = revisions'[s].status,
                                                !.requirements = revisions'[s].requirements]
  BY <1>1, <1>2 DEF IsRevision, RevisionFields
<1>4. revisions' = [s \in Imported |-> revisions'[s]] /\ DOMAIN revisions' = Imported
  BY DEF Retire, CatalogueInv, RevisionsTyped, Imported
<1>5. QED
  BY <1>3, <1>4, RevisionsOnlyIsQuiet DEF Retire

LEMMA PublishIsQuiet ==
  ASSUME CatalogueInv, NEW b \in DOMAIN proposals, Publish(b)
  PROVE  Quiet
<1>1. /\ \A r \in Imported : IsRevision(revisions[r])
      /\ \A c \in DOMAIN proposals : IsProposal(proposals[c])
      /\ proposals = [c \in DOMAIN proposals |-> proposals[c]]
  BY DEF CatalogueInv, RevisionsTyped, ProposalsTyped
<1>2. \A r \in Imported : \/ revisions'[r] = [revisions[r] EXCEPT !.status = "PUBLISHED"]
                           \/ revisions'[r] = [revisions[r] EXCEPT !.status = "SUPERSEDED"]
                           \/ revisions'[r] = revisions[r]
  BY DEF Publish
<1>3. \A r \in Imported : /\ revisions'[r].requirements = revisions[r].requirements
                           /\ revisions'[r] = [revisions[r] EXCEPT !.status = revisions'[r].status,
                                                !.requirements = revisions'[r].requirements]
  BY <1>1, <1>2 DEF IsRevision, RevisionFields
<1>4. \A c \in DOMAIN proposals : proposals'[c] = IF c = b THEN [proposals[c] EXCEPT !.status = "APPLIED"] ELSE proposals[c]
  BY DEF Publish
<1>5. \A c \in DOMAIN proposals : proposals'[c] = [proposals[c] EXCEPT !.status = proposals'[c].status,
                                                     !.open = proposals'[c].open]
  BY <1>1, <1>4 DEF IsProposal, ProposalFields
<1>6. DOMAIN proposals' = DOMAIN proposals /\ proposals' = [c \in DOMAIN proposals |-> proposals'[c]]
  BY <1>1 DEF Publish
<1>7. DOMAIN revisions' = Imported /\ revisions' = [r \in Imported |-> revisions'[r]]
  BY DEF Publish
<1>8. UNCHANGED <<archive, versions>>
  BY DEF Publish
<1>9. QED
  BY <1>3, <1>5, <1>6, <1>7, <1>8 DEF Quiet

\* A step of the catalogue imports a file, or is quiet.
LEMMA ImportOrQuiet ==
  ASSUME CatalogueInv, NextCatalogue
  PROVE  (\E b \in archive.baselines : Import(b)) \/ Quiet
<1>1. ASSUME NEW b \in DOMAIN proposals, Submit(b) \/ Approve(b) \/ RequestChanges(b) \/ Reject(b) PROVE Quiet
  BY <1>1, DecidedIsQuiet DEF Submit, Approve, RequestChanges, Reject
<1>2. ASSUME NEW b \in DOMAIN proposals, Publish(b) PROVE Quiet
  BY <1>2, PublishIsQuiet
<1>3. ASSUME NEW b \in DOMAIN proposals, NEW open \in BOOLEAN, ReviewCandidates(b, open) PROVE Quiet
  BY <1>3, ReviewCandidatesIsQuiet
<1>4. ASSUME NEW r \in Imported, Retire(r) PROVE Quiet
  BY <1>4, RetireIsQuiet
<1>5. ASSUME NEW r \in Imported, NEW q \in revisions[r].requirements, NEW linked \in BOOLEAN, LinkEvidence(r, q, linked)
      PROVE  Quiet
  BY <1>5, LinkEvidenceIsQuiet
<1>6. QED
  BY <1>1, <1>2, <1>3, <1>4, <1>5 DEF NextCatalogue

LEMMA QuietKeepsInv ==
  ASSUME CatalogueInv, Quiet
  PROVE  CatalogueInv'
<1>1. Imported' = Imported /\ archive' = archive /\ versions' = versions /\ DOMAIN proposals' = DOMAIN proposals
  BY DEF Quiet, Imported
<1>2. \A r \in Imported : /\ IsRevision(revisions'[r])
                           /\ revisions'[r].payload = revisions[r].payload /\ revisions'[r].from = revisions[r].from
                           /\ revisions'[r].total = revisions[r].total /\ revisions'[r].created = revisions[r].created
                           /\ revisions'[r].memberships = revisions[r].memberships
  <2>1. \A r \in Imported : IsRevision(revisions[r])
    BY DEF CatalogueInv, RevisionsTyped
  <2>2. \A r \in Imported : revisions'[r] = [revisions[r] EXCEPT !.status = revisions'[r].status,
                                              !.requirements = revisions'[r].requirements]
    BY DEF Quiet
  <2>3. QED
    BY ZenonT(60), <2>1, <2>2 DEF IsRevision, RevisionFields
<1>3. RevisionsTyped'
  <2>1. revisions' = [r \in Imported |-> revisions'[r]]
    BY DEF Quiet
  <2>2. \A b : Key(b)' = Key(b) /\ ValidBaseline(b)' = ValidBaseline(b) /\ Parsable(b)' = Parsable(b)
    BY DEF Key
  <2>3. QED
    BY <1>1, <1>2, <2>1, <2>2 DEF CatalogueInv, RevisionsTyped
<1>4. OneAfterAnother'
  BY <1>1, <1>2 DEF CatalogueInv, OneAfterAnother
<1>5. \A b \in DOMAIN proposals : /\ IsProposal(proposals'[b])
                                   /\ proposals'[b].diff = proposals[b].diff /\ proposals'[b].against = proposals[b].against
                                   /\ proposals'[b].candidates = proposals[b].candidates
  <2>1. \A b \in DOMAIN proposals : IsProposal(proposals[b])
    BY DEF CatalogueInv, ProposalsTyped
  <2>2. \A b \in DOMAIN proposals : proposals'[b] = [proposals[b] EXCEPT !.status = proposals'[b].status,
                                                       !.open = proposals'[b].open]
    BY DEF Quiet
  <2>3. QED
    BY ZenonT(60), <2>1, <2>2 DEF IsProposal, ProposalFields
<1>6. ProposalsTyped'
  <2>1. proposals' = [b \in DOMAIN proposals |-> proposals'[b]]
    BY DEF Quiet
  <2>2. \A b : Bases(b)' = Bases(b)
    BY <1>1 DEF Bases, Key
  <2>3. ASSUME NEW b \in DOMAIN proposals
        PROVE  CandidatesSay(b, proposals[b].candidates)'
    <3>1. CandidatesSay(b, proposals[b].candidates)
      BY DEF CatalogueInv, ProposalsTyped
    <3>2. QED
      BY <1>5, <2>2, <3>1 DEF CandidatesSay, Says
  <2>4. QED
    BY <1>1, <1>5, <2>1, <2>3 DEF CatalogueInv, ProposalsTyped
<1>7. VersionsThere'
  BY <1>1, <1>2 DEF CatalogueInv, VersionsThere
<1>8. QED
  BY <1>3, <1>4, <1>6, <1>7 DEF CatalogueInv

-----------------------------------------------------------------------------
(* What an import writes.                                                  *)

LEMMA FilesAreFiles ==
  ASSUME CatalogueInv, NEW b \in archive.baselines
  PROVE  IsFile(b)
<1>1. archive \in Archives
  BY DEF CatalogueInv, RevisionsTyped
<1>2. QED
  BY <1>1, ArchiveAssumption

LEMMA OverIsFunction ==
  ASSUME NEW f, NEW new, NEW old, f = Over(new, old)
  PROVE  /\ DOMAIN f = DOMAIN new \cup DOMAIN old /\ f = [x \in DOMAIN f |-> f[x]]
         /\ \A x \in DOMAIN new : f[x] = new[x]
         /\ \A x \in DOMAIN old \ DOMAIN new : f[x] = old[x]
BY DEF Over

LEMMA PutIsFunction ==
  ASSUME NEW f, NEW x, NEW value, NEW old, f = Put(x, value, old)
  PROVE  /\ DOMAIN f = DOMAIN old \cup {x} /\ f = [y \in DOMAIN f |-> f[y]]
         /\ f[x] = value /\ \A y \in DOMAIN old \ {x} : f[y] = old[y]
BY DEF Put

\* The row an import starts from.
OldRow(b) == IF Key(b) \in Imported THEN revisions[Key(b)] ELSE NewRevision

\* A row with all but its status and its creation written over.
RowOver(w, f, t, p, c, g, m, q) ==
    [w EXCEPT !.from = f, !.total = t, !.payload = p, !.components = c, !.groups = g,
              !.memberships = m, !.requirements = q]

LEMMA WrittenOver ==
  ASSUME NEW w, IsRevision(w), NEW f, NEW t, NEW p, NEW c, NEW g, NEW m, NEW q
  PROVE  RowOver(w, f, t, p, c, g, m, q)
         = [status |-> w.status, from |-> f, total |-> t, payload |-> p, created |-> w.created,
            components |-> c, groups |-> g, memberships |-> m, requirements |-> q]
<1> DEFINE new == [status |-> w.status, from |-> f, total |-> t, payload |-> p, created |-> w.created,
                   components |-> c, groups |-> g, memberships |-> m, requirements |-> q]
<1>1. DOMAIN w = RevisionFields
  BY DEF IsRevision
<1>2. new = [x \in RevisionFields |-> new[x]]
  BY DEF RevisionFields
<1>3. QED
  BY ZenonT(60), <1>1, <1>2 DEF RevisionFields, RowOver

LEMMA WrittenRow ==
  ASSUME CatalogueInv, NEW b \in archive.baselines
  PROVE  Written(b) =
           [status |-> OldRow(b).status, from |-> b.from, total |-> b.total, payload |-> b, created |-> OldRow(b).created,
            components   |-> UpdateOrCreate(OldRow(b).components, Required(b), {"id"}),
            groups       |-> UpdateOrCreate(OldRow(b).groups, b.groups, {"id"}),
            memberships  |-> UpdateOrCreate(OldRow(b).memberships, {MembershipRow(b, m) : m \in b.memberships},
                                            {"course", "from", "group"}),
            requirements |-> UpdateOrCreate(OldRow(b).requirements, Requirements(b), RequirementKey)]
<1> DEFINE old == OldRow(b)
           c == UpdateOrCreate(old.components, Required(b), {"id"})
           g == UpdateOrCreate(old.groups, b.groups, {"id"})
           m == UpdateOrCreate(old.memberships, {MembershipRow(b, x) : x \in b.memberships}, {"course", "from", "group"})
           q == UpdateOrCreate(old.requirements, Requirements(b), RequirementKey)
<1>1. IsRevision(old)
  BY DEF OldRow, NewRevision, IsRevision, RevisionFields, CatalogueInv, RevisionsTyped
<1>2. Written(b) = [old EXCEPT !.from = b.from, !.total = b.total, !.payload = b, !.components = c, !.groups = g,
                               !.memberships = m, !.requirements = q]
  <2>1. IsRevision(old) /\ old = OldRow(b)
    BY <1>1
  <2>2. QED
    BY <2>1 DEF Written, OldRow, IsRevision, RevisionFields
<1> HIDE DEF c, g, m, q, old
<1>3. Written(b) = [status |-> old.status, from |-> b.from, total |-> b.total, payload |-> b, created |-> old.created,
                    components |-> c, groups |-> g, memberships |-> m, requirements |-> q]
  <2>1. Written(b) = RowOver(old, b.from, b.total, b, c, g, m, q)
    BY <1>2 DEF RowOver
  <2>2. QED
    BY <1>1, <2>1, WrittenOver
<1>4. QED
  BY <1>3 DEF c, g, m, q, old

LEMMA WrittenFields ==
  ASSUME CatalogueInv, NEW b \in archive.baselines
  PROVE  /\ IsRevision(Written(b))
         /\ Written(b).status = OldRow(b).status /\ Written(b).created = OldRow(b).created
         /\ Written(b).payload = b /\ Written(b).from = b.from /\ Written(b).total = b.total
         /\ Written(b).components = UpdateOrCreate(OldRow(b).components, Required(b), {"id"})
         /\ Written(b).groups = UpdateOrCreate(OldRow(b).groups, b.groups, {"id"})
         /\ Written(b).memberships = UpdateOrCreate(OldRow(b).memberships, {MembershipRow(b, m) : m \in b.memberships},
                                                    {"course", "from", "group"})
         /\ Written(b).requirements = UpdateOrCreate(OldRow(b).requirements, Requirements(b), RequirementKey)
<1> DEFINE c == UpdateOrCreate(OldRow(b).components, Required(b), {"id"})
           g == UpdateOrCreate(OldRow(b).groups, b.groups, {"id"})
           m == UpdateOrCreate(OldRow(b).memberships, {MembershipRow(b, x) : x \in b.memberships}, {"course", "from", "group"})
           q == UpdateOrCreate(OldRow(b).requirements, Requirements(b), RequirementKey)
<1>1. Written(b) = [status |-> OldRow(b).status, from |-> b.from, total |-> b.total, payload |-> b,
                    created |-> OldRow(b).created, components |-> c, groups |-> g, memberships |-> m, requirements |-> q]
  BY WrittenRow, Zenon
<1> HIDE DEF c, g, m, q
<1>2. IsRevision(Written(b))
  BY <1>1 DEF IsRevision, RevisionFields
<1>3. QED
  BY <1>1, <1>2 DEF c, g, m, q

\* The base of a new revision is another revision of its plan, if there is one.
LEMMA BaseIsImported ==
  ASSUME CatalogueInv, NEW b \in archive.baselines
  PROVE  BaseOf(b) = None \/ (BaseOf(b) \in Imported /\ BaseOf(b)[1] = b.plan /\ BaseOf(b) # Key(b))
<1> DEFINE others == {r \in Imported : r[1] = b.plan /\ r # Key(b)}
           After(r, s) == \/ revisions[r].from > revisions[s].from
                          \/ revisions[r].from = revisions[s].from /\ revisions[r].created > revisions[s].created
           order == {pair \in others \X others : After(pair[1], pair[2])}
<1>1. CASE others = {}
  BY <1>1 DEF BaseOf
<1>2. CASE others # {}
  <2>1. IsFiniteSet(others)
    <3>1. IsFiniteSet(Imported) /\ others \subseteq Imported
      BY DEF CatalogueInv, RevisionsTyped
    <3>2. QED
      BY <3>1, FS_Subset
  <2>2. \A r \in others : revisions[r].from \in Nat /\ revisions[r].created \in Nat
    <3>1. ASSUME NEW r \in others PROVE revisions[r].from \in Nat /\ revisions[r].created \in Nat
      <4>1. /\ revisions[r].payload \in archive.baselines /\ revisions[r].from = revisions[r].payload.from
            /\ revisions[r].created \in Nat
        BY DEF CatalogueInv, RevisionsTyped, OneAfterAnother
      <4>2. IsFile(revisions[r].payload)
        BY <4>1, FilesAreFiles
      <4>3. QED
        BY <4>1, <4>2 DEF IsFile
    <3>2. QED
      BY <3>1
  <2>3. \A r, s \in others : revisions[r].created = revisions[s].created => r = s
    BY DEF CatalogueInv, OneAfterAnother
  <2>4. \A r, s \in others : <<r, s>> \in order <=> After(r, s)
    OBVIOUS
  <2>5. \A r, s, t \in others : After(r, s) /\ After(s, t) => After(r, t)
    BY <2>2
  <2>6. \A r \in others : ~After(r, r)
    BY <2>2
  <2>7. \A r, s \in others : r # s => After(r, s) \/ After(s, r)
    BY <2>2, <2>3
  <2>8. \E r \in others : \A s \in others \ {r} : <<r, s>> \in order
    <3> HIDE DEF order, After, others
    <3>1. /\ order \in SUBSET (others \X others)
          /\ \A r, s, t \in others : <<r, s>> \in order /\ <<s, t>> \in order => <<r, t>> \in order
          /\ \A r \in others : <<r, r>> \notin order
          /\ \A r, s \in others : r # s => <<r, s>> \in order \/ <<s, r>> \in order
      BY <2>4, <2>5, <2>6, <2>7 DEF order
    <3>2. QED
      BY <1>2, <2>1, <3>1, LastExists
  <2>9. \E r \in others : \A s \in others \ {r} : After(r, s)
    <3> HIDE DEF order, After, others
    <3>1. QED
      BY <2>4, <2>8
  <2>10. BaseOf(b) = CHOOSE r \in others : \A s \in others \ {r} : After(r, s)
    BY <1>2 DEF BaseOf
  <2>11. BaseOf(b) \in others
    BY <2>9, <2>10
  <2>12. QED
    BY <2>11
<1>3. QED
  BY <1>1, <1>2

LEMMA AgainstIsValid ==
  ASSUME CatalogueInv, NEW b \in archive.baselines
  PROVE  LET against == PayloadOf(BaseOf(b))
         IN /\ against = None \/ (against \in archive.baselines /\ KeysAreUnique(against))
            /\ against \in Bases(b)
<1>1. CASE BaseOf(b) = None
  BY <1>1 DEF PayloadOf, Bases
<1>2. CASE BaseOf(b) # None /\ BaseOf(b) \in Imported /\ BaseOf(b)[1] = b.plan /\ BaseOf(b) # Key(b)
  <2> DEFINE against == PayloadOf(BaseOf(b))
  <2>1. against = revisions[BaseOf(b)].payload
    BY <1>2 DEF PayloadOf
  <2>2. against \in archive.baselines /\ BaseOf(b) = Key(against) /\ KeysAreUnique(against)
    BY <1>2, <2>1 DEF CatalogueInv, RevisionsTyped, ValidBaseline
  <2>3. against.plan = b.plan /\ Key(against) # Key(b)
    BY <1>2, <2>2 DEF Key
  <2>4. QED
    BY <2>2, <2>3 DEF Bases
<1>3. QED
  BY <1>1, <1>2, BaseIsImported

\* The rows of a diff are what their candidates say.
LEMMA DiffSays ==
  ASSUME NEW b, NEW base \in Bases(b), NEW item \in Items(SemanticDiff(base, b))
  PROVE  Says(b, item, SemanticDiff(base, b)[item[1]])
<1> DEFINE diff == SemanticDiff(base, b)
<1>1. PICK row \in DOMAIN diff : item = <<row, Operation(row[1], diff[row])>>
  BY DEF Items
<1>2. diff[row] = Change(base, b, row) /\ Found(base, row) # Found(b, row)
  BY <1>1 DEF SemanticDiff, Difference
<1> HIDE DEF diff
<1>3. item[1] = row /\ item[2] = Operation(row[1], diff[row])
  BY <1>1
<1>4. diff[row].before # diff[row].after
  BY <1>2 DEF Change
<1>5. Says(b, item, diff[item[1]])
  BY <1>2, <1>3, <1>4 DEF Says
<1>6. QED
  BY <1>5 DEF diff

\* A proposal after an import: the diff it holds, and candidates for each of its rows.
LEMMA ProposalWritten ==
  ASSUME CatalogueInv, NEW b \in archive.baselines
  PROVE  LET p == ProposalAfterImport(b)
         IN /\ IsProposal(p) /\ Items(p.diff) \subseteq DOMAIN p.candidates
            /\ p.diff = SemanticDiff(p.against, b) /\ CandidatesSay(b, p.candidates)
            /\ p.against = None \/ (p.against \in archive.baselines /\ KeysAreUnique(p.against))
<1> DEFINE base == BaseOf(b)
           against == PayloadOf(base)
           diff == SemanticDiff(against, b)
           kept == IF b \in DOMAIN proposals THEN proposals[b]
                   ELSE [status |-> "DRAFT", base |-> base, diff |-> diff, against |-> against,
                         candidates |-> <<>>, open |-> FALSE]
           current == IF kept.status = "DRAFT" THEN [kept EXCEPT !.diff = diff, !.against = against] ELSE kept
           all == CandidatesAfter(b, diff)
           p == [current EXCEPT !.candidates = all, !.open = @ \/ DOMAIN all # DOMAIN kept.candidates]
<1>1. ProposalAfterImport(b) = p
  BY DEF ProposalAfterImport
<1>2. /\ against = None \/ (against \in archive.baselines /\ KeysAreUnique(against))
      /\ against \in Bases(b)
  BY AgainstIsValid
<1>3. /\ Items(diff) \subseteq DOMAIN all /\ CandidatesSay(b, all)
      /\ b \in DOMAIN proposals => DOMAIN proposals[b].candidates \subseteq DOMAIN all
  <2> DEFINE old == IF b \in DOMAIN proposals THEN proposals[b].candidates ELSE <<>>
             new == [item \in Items(diff) |-> diff[item[1]]]
  <2>1. \A item \in DOMAIN old : Says(b, item, old[item])
    BY DEF CatalogueInv, ProposalsTyped, CandidatesSay
  <2>2. \A item \in Items(diff) : Says(b, item, diff[item[1]])
    BY <1>2, DiffSays
  <2>3. DOMAIN new = Items(diff) /\ \A item \in Items(diff) : new[item] = diff[item[1]]
    OBVIOUS
  <2>4. all = Over(old, new)
    BY DEF CandidatesAfter
  <2>5. b \in DOMAIN proposals => old = proposals[b].candidates
    OBVIOUS
  <2> HIDE DEF old, new, all, diff
  <2>6. /\ DOMAIN all = DOMAIN old \cup DOMAIN new
        /\ \A item \in DOMAIN old : all[item] = old[item]
        /\ \A item \in DOMAIN new \ DOMAIN old : all[item] = new[item]
    BY <2>4 DEF Over
  <2>7. QED
    BY <2>1, <2>2, <2>3, <2>5, <2>6 DEF CandidatesSay
<1> HIDE DEF base, against, diff, all
<1>4. IsProposal(kept)
  BY DEF IsProposal, ProposalFields, CatalogueInv, ProposalsTyped
<1>5. /\ kept.diff = SemanticDiff(kept.against, b)
      /\ kept.against = None \/ (kept.against \in archive.baselines /\ KeysAreUnique(kept.against))
      /\ kept.status # "DRAFT" => Items(kept.diff) \subseteq DOMAIN all
  <2>1. CASE b \in DOMAIN proposals
    BY <1>3, <2>1 DEF CatalogueInv, ProposalsTyped
  <2>2. CASE b \notin DOMAIN proposals
    <3>1. kept.diff = diff /\ kept.against = against /\ kept.status = "DRAFT"
      BY <2>2
    <3>2. QED
      BY <1>2, <3>1 DEF diff
  <2>3. QED
    BY <2>1, <2>2
<1> HIDE DEF kept
<1>6. IsProposal(current)
  BY <1>4 DEF IsProposal, ProposalFields
<1>7. /\ current.diff = SemanticDiff(current.against, b) /\ Items(current.diff) \subseteq DOMAIN all
      /\ current.against = None \/ (current.against \in archive.baselines /\ KeysAreUnique(current.against))
  <2>1. CASE kept.status = "DRAFT"
    <3>1. current.diff = diff /\ current.against = against
      BY <1>4, <2>1 DEF IsProposal, ProposalFields
    <3>2. QED
      BY <1>2, <1>3, <3>1 DEF diff
  <2>2. CASE kept.status # "DRAFT"
    BY <1>5, <2>2
  <2>3. QED
    BY <2>1, <2>2
<1> HIDE DEF current
<1>8. IsProposal(p) /\ p.diff = current.diff /\ p.against = current.against /\ p.candidates = all
  BY <1>6 DEF IsProposal, ProposalFields
<1>9. QED
  BY <1>1, <1>3, <1>7, <1>8

LEMMA ImportKeepsInv ==
  ASSUME CatalogueInv, NEW b \in archive.baselines, Import(b)
  PROVE  CatalogueInv'
<1> DEFINE w == Written(b)
           old == OldRow(b)
<1>1. IsFile(b) /\ ValidBaseline(b) /\ Parsable(b) /\ archive' = archive
  BY FilesAreFiles DEF Import
<1>2. /\ IsRevision(w) /\ w.status = old.status /\ w.created = old.created
      /\ w.payload = b /\ w.from = b.from /\ w.total = b.total
      /\ w.memberships = UpdateOrCreate(old.memberships, {MembershipRow(b, m) : m \in b.memberships},
                                        {"course", "from", "group"})
  BY WrittenFields
<1>3. /\ Imported' = Imported \cup {Key(b)} /\ revisions' = [r \in Imported' |-> revisions'[r]]
      /\ revisions'[Key(b)] = w /\ \A r \in Imported \ {Key(b)} : revisions'[r] = revisions[r]
  <2>1. revisions' = Put(Key(b), w, revisions)
    BY DEF Import
  <2> HIDE DEF w
  <2>2. QED
    BY <2>1 DEF Put, Imported
<1>4. /\ DOMAIN proposals' = DOMAIN proposals \cup {b} /\ proposals' = [c \in DOMAIN proposals' |-> proposals'[c]]
      /\ proposals'[b] = ProposalAfterImport(b) /\ \A c \in DOMAIN proposals \ {b} : proposals'[c] = proposals[c]
  <2>1. proposals' = Put(b, ProposalAfterImport(b), proposals)
    BY DEF Import
  <2>2. QED
    BY <2>1 DEF Put
<1>5. /\ DOMAIN versions' = VersionsOf(b) \cup DOMAIN versions /\ versions' = [v \in DOMAIN versions' |-> versions'[v]]
  <2> DEFINE new == [v \in VersionsOf(b) |-> Version(b, CHOOSE c \in b.courses : c.code = v[1])]
  <2>1. versions' = Over(new, versions) /\ DOMAIN new = VersionsOf(b)
    BY DEF Import
  <2> HIDE DEF new
  <2>2. QED
    BY <2>1 DEF Over
<1>7. RevisionsTyped'
  <2>1. IsFiniteSet(Imported')
    BY <1>3, FS_AddElement DEF CatalogueInv, RevisionsTyped
  <2>2. ASSUME NEW r \in Imported'
        PROVE  LET row == revisions'[r] IN
               /\ IsRevision(row) /\ row.payload \in archive.baselines /\ r = Key(row.payload)
               /\ ValidBaseline(row.payload) /\ Parsable(row.payload)
               /\ row.from = row.payload.from /\ row.total = row.payload.total
    <3>1. CASE r = Key(b)
      <4>1. w.payload = b /\ w.from = b.from /\ w.total = b.total
        BY <1>2
      <4>2. QED
        BY <1>1, <1>2, <1>3, <3>1, <4>1
    <3>2. CASE r # Key(b)
      BY <1>3, <3>2 DEF CatalogueInv, RevisionsTyped
    <3>3. QED
      BY <3>1, <3>2
  <2>3. \A f : Key(f)' = Key(f) /\ ValidBaseline(f)' = ValidBaseline(f) /\ Parsable(f)' = Parsable(f)
    BY DEF Key
  <2>4. QED
    BY <1>1, <1>3, <2>1, <2>2, <2>3 DEF CatalogueInv, RevisionsTyped
<1>8. OneAfterAnother'
  <2>1. IsFiniteSet(Imported) /\ Cardinality(Imported) \in Nat
    BY FS_CardinalityType DEF CatalogueInv, RevisionsTyped
  <2>2. w.created = old.created
    BY <1>2
  <2>3. CASE Key(b) \in Imported
    <3>1. Imported' = Imported /\ w.created = revisions[Key(b)].created
      BY <1>3, <2>2, <2>3 DEF OldRow
    <3>2. \A r \in Imported : revisions'[r].created = revisions[r].created
      BY <1>3, <3>1
    <3>3. QED
      BY <3>1, <3>2 DEF CatalogueInv, OneAfterAnother
  <2>4. CASE Key(b) \notin Imported
    <3>1. Cardinality(Imported') = Cardinality(Imported) + 1
      BY <1>3, <2>1, <2>4, FS_AddElement
    <3>2. w.created = Cardinality(Imported)
      BY <2>2, <2>4 DEF OldRow, NewRevision
    <3>3. \A r \in Imported : revisions'[r].created = revisions[r].created
      BY <1>3, <2>4
    <3>4. \A r \in Imported : revisions[r].created \in Nat /\ revisions[r].created < Cardinality(Imported)
      BY DEF CatalogueInv, OneAfterAnother
    <3>5. \A r \in Imported' : revisions'[r].created \in Nat /\ revisions'[r].created < Cardinality(Imported')
      BY <1>3, <2>1, <3>1, <3>2, <3>3, <3>4
    <3>6. \A r, s \in Imported' : revisions'[r].created = revisions'[s].created => r = s
      BY <1>3, <2>1, <3>2, <3>3, <3>4 DEF CatalogueInv, OneAfterAnother
    <3>7. QED
      BY <3>5, <3>6 DEF OneAfterAnother
  <2>5. QED
    BY <2>3, <2>4
<1>9. ProposalsTyped'
  <2>1. KeysAreUnique(b) /\ Key(b) \in Imported'
    BY <1>1, <1>3 DEF ValidBaseline
  <2>2. ASSUME NEW c \in DOMAIN proposals'
        PROVE  LET p == proposals'[c] IN
               /\ IsProposal(p) /\ c \in archive.baselines /\ Key(c) \in Imported' /\ KeysAreUnique(c)
               /\ p.against = None \/ (p.against \in archive.baselines /\ KeysAreUnique(p.against))
               /\ p.diff = SemanticDiff(p.against, c) /\ Items(p.diff) \subseteq DOMAIN p.candidates
               /\ CandidatesSay(c, p.candidates)
    <3>1. CASE c = b
      BY <1>4, <2>1, <3>1, ProposalWritten
    <3>2. CASE c # b
      BY <1>3, <1>4, <3>2 DEF CatalogueInv, ProposalsTyped
    <3>3. QED
      BY <3>1, <3>2
  <2>3. \A f : Key(f)' = Key(f) /\ Bases(f)' = Bases(f)
    BY <1>1 DEF Key, Bases
  <2>4. ASSUME NEW c \in DOMAIN proposals' PROVE CandidatesSay(c, proposals[c].candidates)'
    <3>1. CandidatesSay(c, proposals'[c].candidates)
      BY <2>2
    <3>2. QED
      BY <2>3, <3>1 DEF CandidatesSay, Says
  <2>5. QED
    BY <1>1, <1>4, <2>2, <2>3, <2>4 DEF ProposalsTyped
<1>10. VersionsThere'
  <2>1. ASSUME NEW m \in w.memberships PROVE <<m.course, m.from>> \in DOMAIN versions'
    <3>1. CASE m \in old.memberships
      <4>1. Key(b) \in Imported
        BY <3>1 DEF OldRow, NewRevision
      <4>2. QED
        BY <1>5, <3>1, <4>1 DEF OldRow, CatalogueInv, VersionsThere
    <3>2. CASE m \notin old.memberships
      <4>1. PICK n \in b.memberships : m = MembershipRow(b, n)
        BY <1>2, <3>2 DEF UpdateOrCreate
      <4>2. PICK c \in b.courses : c.code = n.course
        BY <1>1, <4>1 DEF ValidBaseline, ReferencesExist, KeysOf, KeyOf, Rows, Listed
      <4>3. QED
        BY <1>5, <4>1, <4>2 DEF MembershipRow, VersionsOf
    <3>3. QED
      BY <3>1, <3>2
  <2>2. ASSUME NEW r \in Imported \ {Key(b)}, NEW m \in revisions'[r].memberships
        PROVE  <<m.course, m.from>> \in DOMAIN versions'
    BY <1>3, <1>5 DEF CatalogueInv, VersionsThere
  <2>3. QED
    BY <1>3, <1>5, <2>1, <2>2 DEF VersionsThere
<1>11. QED
  BY <1>7, <1>8, <1>9, <1>10 DEF CatalogueInv
LEMMA CatalogueStep ==
  ASSUME CatalogueInv, [Next]_<<catalogue, offerings>>
  PROVE  CatalogueInv'
<1>1. CASE NextCatalogue
  BY <1>1, ImportOrQuiet, QuietKeepsInv, ImportKeepsInv
<1>2. CASE UNCHANGED catalogue
  <2>1. /\ Imported' = Imported
        /\ \A f : Key(f)' = Key(f) /\ ValidBaseline(f)' = ValidBaseline(f) /\ Parsable(f)' = Parsable(f)
    BY <1>2 DEF catalogue, Imported, Key
  <2>2. RevisionsTyped' /\ OneAfterAnother'
    BY <1>2, <2>1 DEF CatalogueInv, RevisionsTyped, OneAfterAnother, catalogue
  <2>3. ProposalsTyped' /\ VersionsThere'
    <3>1. \A f, candidates : CandidatesSay(f, candidates)' = CandidatesSay(f, candidates)
      BY <1>2 DEF CandidatesSay, Says, Bases, Key, catalogue
    <3>2. \A f \in DOMAIN proposals : CandidatesSay(f, proposals[f].candidates)'
      BY <1>2, <3>1 DEF CatalogueInv, ProposalsTyped, catalogue
    <3>3. QED
      BY <1>2, <2>1, <3>2 DEF CatalogueInv, ProposalsTyped, VersionsThere, catalogue
  <2>4. QED
    BY <2>2, <2>3 DEF CatalogueInv
<1>3. QED
  BY <1>1, <1>2 DEF Next, catalogue

\* What CatalogueInv says holds of every catalogue.
THEOREM CatalogueIsTyped == Spec => []CatalogueInv
<1>1. Init => CatalogueInv
  <2>1. ASSUME Init PROVE CatalogueInv
    <3>1. archive \in Archives /\ revisions = <<>> /\ versions = <<>> /\ proposals = <<>>
      BY <2>1 DEF Init, InitCatalogue
    <3>2. DOMAIN <<>> = {} /\ <<>> = [x \in DOMAIN <<>> |-> <<>>[x]] /\ IsFiniteSet({})
      BY FS_EmptySet
    <3>3. Imported = {}
      BY <3>1, <3>2 DEF Imported
    <3>4. QED
      BY <3>1, <3>2, <3>3 DEF CatalogueInv, RevisionsTyped, OneAfterAnother, ProposalsTyped, VersionsThere
  <2>2. QED
    BY <2>1
<1>2. CatalogueInv /\ [Next]_<<catalogue, offerings>> => CatalogueInv'
  BY CatalogueStep
<1>3. QED
  BY <1>1, <1>2, PTL DEF Spec

-----------------------------------------------------------------------------
(* Students of a published revision.                                       *)

LEMMA ImportKeepsOtherRows ==
  ASSUME NEW b, Import(b)
  PROVE  /\ Imported' = Imported \cup {Key(b)}
         /\ \A r \in Imported \ {Key(b)} : revisions'[r] = revisions[r]
         /\ revisions'[Key(b)] = Written(b)
         /\ \A r \in Imported : revisions[r].status \in Kept => r # Key(b)
<1>1. revisions' = Put(Key(b), Written(b), revisions)
  BY DEF Import
<1> DEFINE w == Written(b)
<1>2. revisions' = Put(Key(b), w, revisions)
  BY <1>1
<1>3. \A r \in Imported : revisions[r].status \in Kept => r # Key(b)
  BY DEF Import, Kept
<1> HIDE DEF w
<1>4. /\ Imported' = Imported \cup {Key(b)} /\ \A r \in Imported \ {Key(b)} : revisions'[r] = revisions[r]
      /\ revisions'[Key(b)] = w
  BY <1>2 DEF Put, Imported
<1>5. QED
  BY <1>3, <1>4 DEF w

\* A version is what an import makes of it, or what it was.
LEMMA ImportedVersion ==
  ASSUME NEW b, Import(b)
  PROVE  /\ DOMAIN versions' = VersionsOf(b) \cup DOMAIN versions
         /\ \A v \in VersionsOf(b) : \E c \in b.courses : <<c.code, b.from>> = v /\ versions'[v] = Version(b, c)
         /\ \A v \in DOMAIN versions \ VersionsOf(b) : versions'[v] = versions[v]
<1> DEFINE new == [v \in VersionsOf(b) |-> Version(b, CHOOSE c \in b.courses : c.code = v[1])]
<1>1. versions' = Over(new, versions) /\ DOMAIN new = VersionsOf(b)
  BY DEF Import
<1>2. ASSUME NEW v \in VersionsOf(b)
      PROVE  \E c \in b.courses : <<c.code, b.from>> = v /\ new[v] = Version(b, c)
  <2>1. PICK d \in b.courses : v = <<d.code, b.from>>
    BY DEF VersionsOf
  <2> DEFINE c == CHOOSE x \in b.courses : x.code = v[1]
  <2>2. c \in b.courses /\ c.code = v[1]
    BY <2>1
  <2>3. QED
    BY <2>1, <2>2
<1> HIDE DEF new
<1>3. /\ DOMAIN versions' = VersionsOf(b) \cup DOMAIN versions
      /\ \A v \in VersionsOf(b) : versions'[v] = new[v]
      /\ \A v \in DOMAIN versions \ VersionsOf(b) : versions'[v] = versions[v]
  BY <1>1 DEF Over
<1>4. QED
  BY <1>2, <1>3

\* An import leaves the versions of a published revision as they are.
LEMMA PublishedVersionsStand ==
  ASSUME CatalogueInv, NEW b \in archive.baselines, Import(b), NEW r \in Imported, Published(r),
         NEW m \in revisions[r].memberships
  PROVE  versions'[<<m.course, m.from>>] = versions[<<m.course, m.from>>]
<1> DEFINE v == <<m.course, m.from>>
<1>1. v \in DOMAIN versions
  BY DEF CatalogueInv, VersionsThere
<1>2. Protected(v)
  BY DEF Protected, Published
<1>3. CASE v \in VersionsOf(b)
  <2>1. PICK c \in b.courses : <<c.code, b.from>> = v /\ versions'[v] = Version(b, c)
    BY <1>3, ImportedVersion
  <2>2. versions[v] = Version(b, c)
    BY <1>1, <1>2, <2>1 DEF Import, VersionsAllow
  <2>3. QED
    BY <2>1, <2>2
<1>4. CASE v \notin VersionsOf(b)
  BY <1>1, <1>4, ImportedVersion
<1>5. QED
  BY <1>3, <1>4

\* A step changes neither the rows of a published revision, but for its status, nor the
\* versions they name.
LEMMA PublishedRowsStand ==
  ASSUME CatalogueInv, NextCatalogue, NEW r \in Imported, Published(r)
  PROVE  /\ \A f \in RevisionFields \ {"status"} : revisions'[r][f] = revisions[r][f]
         /\ \A m \in revisions[r].memberships : versions'[<<m.course, m.from>>] = versions[<<m.course, m.from>>]
<1>1. CASE Quiet
  <2>1. IsRevision(revisions[r]) /\ revisions[r].status \in Kept
    BY DEF CatalogueInv, RevisionsTyped, Published, Kept
  <2>2. /\ revisions'[r] = [revisions[r] EXCEPT !.status = revisions'[r].status,
                                                !.requirements = revisions'[r].requirements]
        /\ revisions'[r].requirements = revisions[r].requirements
    BY <1>1, <2>1 DEF Quiet
  <2>3. \A f \in RevisionFields \ {"status"} : revisions'[r][f] = revisions[r][f]
    BY <2>1, <2>2 DEF IsRevision, RevisionFields
  <2>4. QED
    BY <1>1, <2>3 DEF Quiet
<1>2. CASE \E b \in archive.baselines : Import(b)
  <2>1. PICK b \in archive.baselines : Import(b)
    BY <1>2
  <2>2. r # Key(b)
    BY <2>1, ImportKeepsOtherRows DEF Published, Kept
  <2>3. revisions'[r] = revisions[r]
    BY <2>1, <2>2, ImportKeepsOtherRows
  <2>4. QED
    BY <2>1, <2>3, PublishedVersionsStand
<1>3. QED
  BY <1>1, <1>2, ImportOrQuiet

\* What the audit reads of a published revision never changes, whatever is imported
\* into other revisions and plans that share its courses.
THEOREM PublishedIsStable == Spec => PublishedCatalogueStands
<1>1. ASSUME CatalogueInv, NextCatalogue, NEW r, Published(r)
      PROVE  Snapshot(r)' = Snapshot(r)
  <2>1. r \in Imported
    BY <1>1 DEF Published
  <2>2. /\ revisions'[r].total = revisions[r].total /\ revisions'[r].components = revisions[r].components
        /\ revisions'[r].groups = revisions[r].groups /\ revisions'[r].memberships = revisions[r].memberships
        /\ revisions'[r].requirements = revisions[r].requirements
    BY <1>1, <2>1, PublishedRowsStand DEF RevisionFields
  <2>3. \A m \in revisions[r].memberships :
           versions'[<<m.course, m.from>>].credits = versions[<<m.course, m.from>>].credits
    BY <1>1, <2>1, PublishedRowsStand
  <2>4. {<<m.course, versions'[<<m.course, m.from>>].credits>> : m \in revisions[r].memberships}
           = {<<m.course, versions[<<m.course, m.from>>].credits>> : m \in revisions[r].memberships}
    BY <2>3
  <2>5. QED
    BY <2>2, <2>4 DEF Snapshot
<1>2. CatalogueInv /\ [Next]_<<catalogue, offerings>> =>
         [\A r \in Keys : Published(r) /\ Published(r)' => Snapshot(r)' = Snapshot(r)]_catalogue
  BY <1>1 DEF Next
<1>3. QED
  BY <1>2, CatalogueIsTyped, PTL DEF Spec, PublishedCatalogueStands

-----------------------------------------------------------------------------
(* What reviewers are shown.                                               *)

\* A diff, applied to the file it was drawn up against, gives the file under review; each
\* of its rows is a candidate, and each candidate says what two files have for its row.
THEOREM ReviewersSeeTheDifference == Spec => []DiffsAreExact
<1>1. CatalogueInv => DiffsAreExact
  <2>1. ASSUME CatalogueInv, NEW b \in DOMAIN proposals
        PROVE  LET p == proposals[b]
                   Applied(e) == (Counted(p.against, e) \ {d.before : d \in ChangesOf(p.diff, e)})
                                 \cup ({d.after : d \in ChangesOf(p.diff, e)} \ {None})
               IN /\ \A e \in Entities : Applied(e) = Counted(b, e)
                  /\ Items(p.diff) \subseteq DOMAIN p.candidates
                  /\ CandidatesSay(b, p.candidates)
    <3> DEFINE p == proposals[b]
    <3>1. /\ b \in archive.baselines /\ KeysAreUnique(b)
          /\ p.against = None \/ (p.against \in archive.baselines /\ KeysAreUnique(p.against))
          /\ p.diff = SemanticDiff(p.against, b) /\ Items(p.diff) \subseteq DOMAIN p.candidates
          /\ CandidatesSay(b, p.candidates)
      BY <2>1 DEF CatalogueInv, ProposalsTyped
    <3>2. Comparable(b) /\ Comparable(p.against)
      BY <2>1, <3>1, FilesAreFiles DEF Comparable
    <3> HIDE DEF p
    <3>3. ASSUME NEW e \in Entities
          PROVE  (Counted(p.against, e) \ {d.before : d \in ChangesOf(p.diff, e)})
                    \cup ({d.after : d \in ChangesOf(p.diff, e)} \ {None}) = Counted(b, e)
      BY <3>1, <3>2, DiffIsExact
    <3>4. QED
      BY <3>1, <3>3 DEF p
  <2>2. QED
    BY <2>1 DEF DiffsAreExact, ChangesOf, CandidatesSay, Says
<1>2. QED
  BY <1>1, CatalogueIsTyped, PTL
-----------------------------------------------------------------------------
(* What the audit reads of a revision.                                     *)

RequirementFields == {"owner", "code", "rule", "status", "linked"}
IsRequirement(q) == q = [f \in RequirementFields |-> q[f]]

\* Two requirements that differ in their evidence at most.
Alike(q, p) == q.owner = p.owner /\ q.code = p.code /\ q.rule = p.rule /\ q.status = p.status

\* The rows of the last file are there, and of its keys there are no others; what was
\* there before, of other keys, remains.
RowsWritten ==
    \A r \in Imported : LET w == revisions[r]  b == w.payload IN
       /\ Required(b) \subseteq w.components
       /\ \A k \in w.components : k \in Required(b) \/ k.id \notin KeysOf(b, "components")
       /\ b.groups \subseteq w.groups
       /\ \A g \in w.groups : g \in b.groups \/ g.id \notin KeysOf(b, "groups")
       /\ {MembershipRow(b, m) : m \in b.memberships} \subseteq w.memberships
       /\ \A m \in w.memberships :
             \/ m \in {MembershipRow(b, n) : n \in b.memberships}
             \/ \A n \in b.memberships : <<m.course, m.from, m.group>> # <<n.course, b.from, n.group>>

\* So are its requirements, with or without evidence.
RequirementsWritten ==
    \A r \in Imported : LET w == revisions[r]  b == w.payload IN
       /\ \A q \in w.requirements : IsRequirement(q)
       /\ \A p \in Requirements(b) : \E q \in w.requirements : Alike(q, p)
       /\ \A q \in w.requirements :
             \/ \E p \in Requirements(b) : Alike(q, p)
             \/ \A p \in Requirements(b) : <<q.owner, q.code>> # <<p.owner, p.code>>

\* A version that was written last for a revision, the only one of its code, has the
\* credits of the last file of that revision.
VersionsWritten ==
    \A r \in Imported : LET b == revisions[r].payload IN
       \A c \in b.courses : LET v == <<c.code, b.from>> IN
          /\ v \in DOMAIN versions
          /\ versions[v].source = b.revision /\ (\A s \in Imported \ {r} : s[2] # r[2]) =>
                versions[v].credits = c.credits

RowsInv == RowsWritten /\ RequirementsWritten /\ VersionsWritten

\* A requirement that is written says the rule of a row of the file, and is verified only
\* if that row is, with evidence.
LEMMA RequirementsOfRows ==
  ASSUME NEW b, IsFile(b), NEW p \in Requirements(b)
  PROVE  /\ IsRequirement(p) /\ p.rule \in Rules(b)
         /\ \/ \E i \in DOMAIN b.enrollment : p = EnrollmentRow(b.enrollment[i])
            \/ p.owner = None /\ \E i \in DOMAIN b.graduation : p = GraduationRow(b.graduation[i])
         /\ p.status = "VERIFIED" =>
               \E q \in ToSet(b.enrollment) \cup ToSet(b.graduation) :
                  q.rule = p.rule /\ q.status = "VERIFIED" /\ q.evidence # None
<1>1. \/ \E i \in DOMAIN b.enrollment : p = EnrollmentRow(b.enrollment[i])
      \/ \E i \in DOMAIN b.graduation : p = GraduationRow(b.graduation[i])
  BY DEF Requirements, LastRows
<1>2. (\A i \in DOMAIN b.enrollment : b.enrollment[i] \in ToSet(b.enrollment))
      /\ \A i \in DOMAIN b.graduation : b.graduation[i] \in ToSet(b.graduation)
  BY DEF ToSet
<1>3. ASSUME NEW q PROVE Status(q) = "VERIFIED" => q.status = "VERIFIED"
  BY DEF Status, SourceStatuses
<1>4. CASE \E i \in DOMAIN b.enrollment : p = EnrollmentRow(b.enrollment[i])
  <2>1. PICK i \in DOMAIN b.enrollment : p = EnrollmentRow(b.enrollment[i])
    BY <1>4
  <2> DEFINE q == b.enrollment[i]
  <2>2. q \in ToSet(b.enrollment) /\ p = EnrollmentRow(q)
    BY <1>2, <2>1
  <2> HIDE DEF q
  <2>3. IsRequirement(p) /\ p.rule = q.rule
    BY <2>2 DEF EnrollmentRow, IsRequirement, RequirementFields
  <2>4. p.status = "VERIFIED" => Status(q) = "VERIFIED" /\ q.evidence = "page"
    BY <2>2 DEF EnrollmentRow
  <2>5. p.status = "VERIFIED" => q.status = "VERIFIED" /\ q.evidence # None
    BY <1>3, <2>4, ArchiveAssumption
  <2>6. QED
    BY <2>1, <2>2, <2>3, <2>5 DEF Rules
<1>5. CASE \E i \in DOMAIN b.graduation : p = GraduationRow(b.graduation[i])
  <2>1. PICK i \in DOMAIN b.graduation : p = GraduationRow(b.graduation[i])
    BY <1>5
  <2> DEFINE q == b.graduation[i]
  <2>2. q \in ToSet(b.graduation) /\ p = GraduationRow(q)
    BY <1>2, <2>1
  <2> HIDE DEF q
  <2>3. IsRequirement(p) /\ p.rule = q.rule /\ p.owner = None
    BY <2>2 DEF GraduationRow, IsRequirement, RequirementFields
  <2>4. p.status = "VERIFIED" => Status(q) = "VERIFIED" /\ q.evidence # None
    BY <2>2 DEF GraduationRow
  <2>5. QED
    BY <1>3, <2>1, <2>2, <2>3, <2>4 DEF Rules, q
<1>6. QED
  BY <1>1, <1>4, <1>5

\* The only row of an owner is written.
LEMMA OnlyRowIsWritten ==
  ASSUME NEW b, IsFile(b), KeysAreUnique(b), NEW i \in DOMAIN b.enrollment,
         \A j \in DOMAIN b.enrollment : b.enrollment[j].owner = b.enrollment[i].owner => b.enrollment[j] = b.enrollment[i]
  PROVE  EnrollmentRow(b.enrollment[i]) \in Requirements(b)
<1> DEFINE rows == [j \in DOMAIN b.enrollment |-> EnrollmentRow(b.enrollment[j])]
           Enrollment(j) == EnrollmentRow(b.enrollment[j])
<1>1. LastRows([j \in DOMAIN b.enrollment |-> Enrollment(j)]) \subseteq Requirements(b)
  BY DEF Requirements
<1>2. \A j \in DOMAIN rows : rows[j].owner = b.enrollment[j].owner
  BY DEF EnrollmentRow
<1>3. ASSUME NEW k \in DOMAIN rows, k > i, Same(rows[k], rows[i], RequirementKey) PROVE FALSE
  <2>1. rows[k].owner = rows[i].owner
    BY <1>3 DEF Same, RequirementKey
  <2>2. b.enrollment[k] = b.enrollment[i]
    BY <1>2, <1>3, <2>1
  <2>3. k = i
    BY <1>3, <2>2, OneEnrollmentOfKey
  <2>4. DOMAIN b.enrollment = 1 .. Len(b.enrollment) /\ Len(b.enrollment) \in Nat
    BY ListedRows DEF Listed
  <2>5. QED
    BY <1>3, <2>3, <2>4
<1>4. rows[i] \in LastRows(rows)
  <2>1. i \in DOMAIN rows
    OBVIOUS
  <2> HIDE DEF rows
  <2>2. QED
    BY <1>3, <2>1 DEF LastRows
<1>5. QED
  BY <1>1, <1>4
\* A step that imports nothing changes the evidence of requirements at most.
LEMMA OthersKeepRequirements ==
  ASSUME CatalogueInv, NEW r \in Imported,
         \/ \E b \in DOMAIN proposals : \/ Submit(b) \/ Approve(b) \/ RequestChanges(b) \/ Reject(b) \/ Publish(b)
                                        \/ \E open \in BOOLEAN : ReviewCandidates(b, open)
         \/ \E s \in Imported : Retire(s)
  PROVE  revisions'[r].requirements = revisions[r].requirements
<1>1. IsRevision(revisions[r]) /\ revisions = [s \in Imported |-> revisions[s]]
  BY DEF CatalogueInv, RevisionsTyped
<1>2. ASSUME NEW k, NEW status, revisions' = [revisions EXCEPT ![k].status = status]
      PROVE  revisions'[r].requirements = revisions[r].requirements
  <2>1. revisions'[r] = revisions[r] \/ revisions'[r] = [revisions[r] EXCEPT !.status = status]
    BY <1>2 DEF Imported
  <2>2. QED
    BY <1>1, <2>1 DEF IsRevision, RevisionFields
<1>3. ASSUME NEW b, NEW p, NEW w, Decided(b, p, w) PROVE revisions'[r].requirements = revisions[r].requirements
  BY <1>2, <1>3 DEF Decided
<1>4. ASSUME NEW b, Publish(b) PROVE revisions'[r].requirements = revisions[r].requirements
  <2>1. \/ revisions'[r] = [revisions[r] EXCEPT !.status = "PUBLISHED"]
        \/ revisions'[r] = [revisions[r] EXCEPT !.status = "SUPERSEDED"]
        \/ revisions'[r] = revisions[r]
    BY <1>4 DEF Publish
  <2>2. QED
    BY <1>1, <2>1 DEF IsRevision, RevisionFields
<1>5. ASSUME NEW s, Retire(s) PROVE revisions'[r].requirements = revisions[r].requirements
  BY <1>2, <1>5 DEF Retire
<1>6. ASSUME NEW b, NEW open, ReviewCandidates(b, open) PROVE revisions'[r].requirements = revisions[r].requirements
  BY <1>6 DEF ReviewCandidates
<1>7. QED
  BY <1>3, <1>4, <1>5, <1>6 DEF Submit, Approve, RequestChanges, Reject

LEMMA LinkedIsAlike ==
  ASSUME CatalogueInv, RequirementsWritten, NEW s \in Imported, NEW p, NEW linked, LinkEvidence(s, p, linked), NEW r \in Imported
  PROVE  /\ \A q \in revisions'[r].requirements :
               IsRequirement(q) /\ \E o \in revisions[r].requirements : Alike(q, o)
         /\ \A o \in revisions[r].requirements : \E q \in revisions'[r].requirements : Alike(q, o)
<1> DEFINE new == [p EXCEPT !.linked = linked]
<1>1. IsRequirement(new) /\ Alike(new, p) /\ p \in revisions[s].requirements
  <2>1. p \in revisions[s].requirements
    BY DEF LinkEvidence
  <2>2. IsRequirement(p)
    BY <2>1 DEF RequirementsWritten
  <2>3. IsRequirement(new) /\ Alike(new, p)
    BY <2>2 DEF IsRequirement, RequirementFields, Alike
  <2>4. QED
    BY <2>1, <2>3
<1>2. \A q \in revisions[r].requirements : IsRequirement(q) /\ Alike(q, q)
  BY DEF RequirementsWritten, Alike
<1>3. IsRevision(revisions[s]) /\ revisions = [x \in Imported |-> revisions[x]]
  BY DEF CatalogueInv, RevisionsTyped
<1> DEFINE rows == (revisions[s].requirements \ {p}) \cup {new}
<1>4. revisions' = [revisions EXCEPT ![s].requirements = rows]
  BY DEF LinkEvidence
<1> HIDE DEF new, rows
<1>5. revisions'[r].requirements = IF r = s THEN rows ELSE revisions[r].requirements
  BY <1>3, <1>4 DEF Imported, IsRevision, RevisionFields
<1>6. CASE r # s
  BY <1>2, <1>5, <1>6
<1>7. CASE r = s
  <2>1. ASSUME NEW q \in rows PROVE IsRequirement(q) /\ \E o \in revisions[r].requirements : Alike(q, o)
    BY <1>1, <1>2, <1>7 DEF rows
  <2>2. ASSUME NEW o \in revisions[r].requirements PROVE \E q \in rows : Alike(q, o)
    BY <1>1, <1>2, <1>7 DEF rows
  <2>3. QED
    BY <1>5, <1>7, <2>1, <2>2
<1>8. QED
  BY <1>6, <1>7

LEMMA RequirementsLinked ==
  ASSUME CatalogueInv, RequirementsWritten, NextCatalogue, ~\E b \in archive.baselines : Import(b), NEW r \in Imported
  PROVE  /\ \A q \in revisions'[r].requirements :
               IsRequirement(q) /\ \E p \in revisions[r].requirements : Alike(q, p)
         /\ \A p \in revisions[r].requirements : \E q \in revisions'[r].requirements : Alike(q, p)
<1>1. CASE \E s \in Imported : \E q \in revisions[s].requirements, linked \in BOOLEAN : LinkEvidence(s, q, linked)
  BY <1>1, LinkedIsAlike
<1>2. CASE revisions'[r].requirements = revisions[r].requirements
  BY <1>2 DEF RequirementsWritten, Alike
<1>3. QED
  BY <1>1, <1>2, OthersKeepRequirements DEF NextCatalogue

LEMMA QuietKeepsRows ==
  ASSUME CatalogueInv, RowsInv, NextCatalogue, Quiet, ~\E b \in archive.baselines : Import(b)
  PROVE  RowsInv'
<1>1. Imported' = Imported /\ versions' = versions
  BY DEF Quiet, Imported
<1>2. \A r \in Imported : /\ revisions'[r].payload = revisions[r].payload
                           /\ revisions'[r].components = revisions[r].components
                           /\ revisions'[r].groups = revisions[r].groups
                           /\ revisions'[r].memberships = revisions[r].memberships
  <2>1. \A r \in Imported : IsRevision(revisions[r])
    BY DEF CatalogueInv, RevisionsTyped
  <2>2. \A r \in Imported : revisions'[r] = [revisions[r] EXCEPT !.status = revisions'[r].status,
                                              !.requirements = revisions'[r].requirements]
    BY DEF Quiet
  <2>3. QED
    BY ZenonT(60), <2>1, <2>2 DEF IsRevision, RevisionFields
<1>3. RowsWritten'
  BY <1>1, <1>2 DEF RowsInv, RowsWritten
<1>4. VersionsWritten'
  BY <1>1, <1>2 DEF RowsInv, VersionsWritten
<1>5. RequirementsWritten'
  <2>1. ASSUME NEW r \in Imported
        PROVE  LET b == revisions[r].payload IN
               /\ \A q \in revisions'[r].requirements : IsRequirement(q)
               /\ \A p \in Requirements(b) : \E q \in revisions'[r].requirements : Alike(q, p)
               /\ \A q \in revisions'[r].requirements :
                     \/ \E p \in Requirements(b) : Alike(q, p)
                     \/ \A p \in Requirements(b) : <<q.owner, q.code>> # <<p.owner, p.code>>
    <3> DEFINE old == revisions[r].requirements
               new == revisions'[r].requirements
               rows == Requirements(revisions[r].payload)
    <3>1. /\ \A q \in new : IsRequirement(q) /\ \E p \in old : Alike(q, p)
          /\ \A p \in old : \E q \in new : Alike(q, p)
      BY RequirementsLinked DEF RowsInv
    <3>2. /\ \A p \in rows : \E q \in old : Alike(q, p)
          /\ \A q \in old : \/ \E p \in rows : Alike(q, p)
                            \/ \A p \in rows : <<q.owner, q.code>> # <<p.owner, p.code>>
      BY DEF RowsInv, RequirementsWritten
    <3> HIDE DEF old, new, rows
    <3>3. \A p \in rows : \E q \in new : Alike(q, p)
      BY <3>1, <3>2 DEF Alike
    <3>4. ASSUME NEW q \in new
          PROVE  (\E p \in rows : Alike(q, p)) \/ \A p \in rows : <<q.owner, q.code>> # <<p.owner, p.code>>
      <4>1. PICK o \in old : Alike(q, o)
        BY <3>1
      <4>2. CASE \E p \in rows : Alike(o, p)
        BY <4>1, <4>2 DEF Alike
      <4>3. CASE \A p \in rows : <<o.owner, o.code>> # <<p.owner, p.code>>
        BY <4>1, <4>3 DEF Alike
      <4>4. QED
        BY <3>2, <4>2, <4>3
    <3>5. QED
      BY <3>1, <3>3, <3>4 DEF old, new, rows
  <2>2. \A b : Requirements(b)' = Requirements(b)
    OBVIOUS
  <2>3. QED
    BY <1>1, <1>2, <2>1, <2>2 DEF RequirementsWritten
<1>6. QED
  BY <1>3, <1>4, <1>5 DEF RowsInv
\* What is written over has the new rows, and of their keys no others.
LEMMA UpdatedRows ==
  ASSUME NEW old, NEW new, NEW key, NEW row \in UpdateOrCreate(old, new, key)
  PROVE  row \in new \/ (row \in old /\ \A n \in new : ~Same(n, row, key))
BY DEF UpdateOrCreate

LEMMA ImportWritesRows ==
  ASSUME CatalogueInv, NEW b \in archive.baselines
  PROVE  LET w == Written(b) IN
         /\ Required(b) \subseteq w.components
         /\ \A k \in w.components : k \in Required(b) \/ k.id \notin KeysOf(b, "components")
         /\ b.groups \subseteq w.groups
         /\ \A g \in w.groups : g \in b.groups \/ g.id \notin KeysOf(b, "groups")
         /\ {MembershipRow(b, m) : m \in b.memberships} \subseteq w.memberships
         /\ \A m \in w.memberships :
               \/ m \in {MembershipRow(b, n) : n \in b.memberships}
               \/ \A n \in b.memberships : <<m.course, m.from, m.group>> # <<n.course, b.from, n.group>>
<1> DEFINE w == Written(b)
           old == OldRow(b)
           rows == {MembershipRow(b, m) : m \in b.memberships}
<1>1. /\ w.components = UpdateOrCreate(old.components, Required(b), {"id"})
      /\ w.groups = UpdateOrCreate(old.groups, b.groups, {"id"})
      /\ w.memberships = UpdateOrCreate(old.memberships, rows, {"course", "from", "group"})
  BY WrittenFields
<1> HIDE DEF w, old
<1>2. KeysOf(b, "components") = {k.id : k \in b.components} /\ KeysOf(b, "groups") = {g.id : g \in b.groups}
  BY DEF KeysOf, KeyOf, Rows, Listed
<1>3. ASSUME NEW k \in w.components, k \notin Required(b) PROVE k.id \notin KeysOf(b, "components")
  <2>1. \A n \in Required(b) : n.id # k.id
    BY <1>1, <1>3 DEF UpdateOrCreate, Same
  <2>2. ASSUME NEW n \in b.components PROVE n.id # k.id
    <3>1. [id |-> n.id, required |-> n.required] \in Required(b)
      BY DEF Required
    <3>2. QED
      BY <2>1, <3>1
  <2>3. QED
    BY <1>2, <2>2
<1>4. ASSUME NEW g \in w.groups, g \notin b.groups PROVE g.id \notin KeysOf(b, "groups")
  <2>1. \A n \in b.groups : n.id # g.id
    BY <1>1, <1>4 DEF UpdateOrCreate, Same
  <2>2. QED
    BY <1>2, <2>1
<1>5. ASSUME NEW m \in w.memberships, m \notin rows, NEW n \in b.memberships
      PROVE  <<m.course, m.from, m.group>> # <<n.course, b.from, n.group>>
  <2> DEFINE new == MembershipRow(b, n)
  <2>1. new \in rows /\ new.course = n.course /\ new.from = b.from /\ new.group = n.group
    BY DEF MembershipRow
  <2> HIDE DEF new, rows
  <2>2. ~Same(new, m, {"course", "from", "group"})
    BY <1>1, <1>5, <2>1 DEF UpdateOrCreate
  <2>3. QED
    BY <2>1, <2>2 DEF Same
<1>6. Required(b) \subseteq w.components /\ b.groups \subseteq w.groups /\ rows \subseteq w.memberships
  <2> HIDE DEF rows
  <2>1. QED
    BY <1>1 DEF UpdateOrCreate
<1>7. QED
  BY <1>3, <1>4, <1>5, <1>6 DEF w

LEMMA ImportWritesRequirements ==
  ASSUME CatalogueInv, RequirementsWritten, NEW b \in archive.baselines
  PROVE  LET w == Written(b) IN
         /\ \A q \in w.requirements : IsRequirement(q)
         /\ \A p \in Requirements(b) : \E q \in w.requirements : Alike(q, p)
         /\ \A q \in w.requirements :
               \/ \E p \in Requirements(b) : Alike(q, p)
               \/ \A p \in Requirements(b) : <<q.owner, q.code>> # <<p.owner, p.code>>
<1> DEFINE w == Written(b)
           old == OldRow(b)
           rows == Requirements(b)
<1>1. w.requirements = UpdateOrCreate(old.requirements, rows, RequirementKey)
  BY WrittenFields
<1>2. \A q \in old.requirements : IsRequirement(q)
  <2>1. CASE Key(b) \in Imported
    BY <2>1 DEF OldRow, RequirementsWritten
  <2>2. CASE Key(b) \notin Imported
    BY <2>2 DEF OldRow, NewRevision
  <2>3. QED
    BY <2>1, <2>2
<1>3. \A p \in rows : IsRequirement(p)
  BY FilesAreFiles, RequirementsOfRows
<1> HIDE DEF w, old, rows
<1>4. \A q \in w.requirements : IsRequirement(q)
  BY <1>1, <1>2, <1>3, UpdatedRows
<1>5. \A p \in rows : p \in w.requirements /\ Alike(p, p)
  BY <1>1 DEF UpdateOrCreate, Alike
<1>6. ASSUME NEW q \in w.requirements, q \notin rows, NEW p \in rows
      PROVE  <<q.owner, q.code>> # <<p.owner, p.code>>
  BY <1>1, <1>6 DEF UpdateOrCreate, Same, RequirementKey
<1>7. QED
  BY <1>4, <1>5, <1>6 DEF w, rows

\* Two courses of a file differ in their codes.
LEMMA OneCourseOfCode ==
  ASSUME NEW b, IsFile(b), KeysAreUnique(b), NEW c \in b.courses, NEW d \in b.courses, c.code = d.code
  PROVE  c = d
<1>1. Rows(b, "courses") = b.courses /\ KeyOf("courses", c) = KeyOf("courses", d)
  BY DEF Rows, Listed, KeyOf
<1>2. QED
  BY <1>1, OneRowOfKey

LEMMA ImportKeepsVersions ==
  ASSUME CatalogueInv, VersionsWritten, NEW b \in archive.baselines, Import(b)
  PROVE  VersionsWritten'
<1>1. /\ Imported' = Imported \cup {Key(b)} /\ revisions'[Key(b)] = Written(b) /\ Written(b).payload = b
      /\ \A r \in Imported \ {Key(b)} : revisions'[r] = revisions[r]
  BY ImportKeepsOtherRows, WrittenFields
<1>2. IsFile(b) /\ KeysAreUnique(b)
  BY FilesAreFiles DEF Import, ValidBaseline
<1>3. /\ DOMAIN versions' = VersionsOf(b) \cup DOMAIN versions
      /\ \A v \in VersionsOf(b) : \E c \in b.courses : <<c.code, b.from>> = v /\ versions'[v] = Version(b, c)
      /\ \A v \in DOMAIN versions \ VersionsOf(b) : versions'[v] = versions[v]
  BY ImportedVersion
<1>4. ASSUME NEW c \in b.courses
      PROVE  <<c.code, b.from>> \in DOMAIN versions' /\ versions'[<<c.code, b.from>>].credits = c.credits
  <2>1. <<c.code, b.from>> \in VersionsOf(b)
    BY DEF VersionsOf
  <2>2. PICK d \in b.courses : <<d.code, b.from>> = <<c.code, b.from>> /\ versions'[<<c.code, b.from>>] = Version(b, d)
    BY <1>3, <2>1
  <2>3. d = c
    BY <1>2, <2>2, OneCourseOfCode
  <2>4. QED
    BY <1>3, <2>1, <2>2, <2>3 DEF Version
<1>5. ASSUME NEW r \in Imported \ {Key(b)}, NEW c \in revisions[r].payload.courses
      PROVE  LET v == <<c.code, revisions[r].payload.from>> IN
             /\ v \in DOMAIN versions'
             /\ versions'[v].source = revisions[r].payload.revision /\ (\A s \in Imported' \ {r} : s[2] # r[2]) =>
                   versions'[v].credits = c.credits
  <2> DEFINE f == revisions[r].payload
             v == <<c.code, f.from>>
  <2>1. v \in DOMAIN versions /\ (versions[v].source = f.revision /\ (\A s \in Imported \ {r} : s[2] # r[2]) =>
                                      versions[v].credits = c.credits)
    BY DEF VersionsWritten
  <2>2. r[2] = f.revision
    BY DEF CatalogueInv, RevisionsTyped, Key
  <2>3. Key(b)[2] = b.revision /\ Key(b) \in Imported' \ {r}
    BY <1>1 DEF Key
  <2> HIDE DEF f, v
  <2>4. CASE v \in VersionsOf(b)
    <3>1. versions'[v].source = b.revision
      BY <1>3, <2>4 DEF Version
    <3>2. v \in DOMAIN versions'
      BY <1>3, <2>1
    <3>3. QED
      BY <2>2, <2>3, <3>1, <3>2 DEF f, v
  <2>5. CASE v \notin VersionsOf(b)
    <3>1. versions'[v] = versions[v] /\ v \in DOMAIN versions'
      BY <1>3, <2>1, <2>5
    <3>2. QED
      BY <1>1, <2>1, <3>1 DEF f, v
  <2>6. QED
    BY <2>4, <2>5
<1>6. QED
  BY <1>1, <1>4, <1>5 DEF VersionsWritten

LEMMA ImportKeepsRows ==
  ASSUME CatalogueInv, RowsInv, NEW b \in archive.baselines, Import(b)
  PROVE  RowsInv'
<1>1. /\ Imported' = Imported \cup {Key(b)} /\ revisions'[Key(b)] = Written(b) /\ Written(b).payload = b
      /\ \A r \in Imported \ {Key(b)} : revisions'[r] = revisions[r]
  BY ImportKeepsOtherRows, WrittenFields
<1> DEFINE w == Written(b)
<1>2. RowsWritten'
  <2>1. /\ Required(b) \subseteq w.components
        /\ \A k \in w.components : k \in Required(b) \/ k.id \notin KeysOf(b, "components")
        /\ b.groups \subseteq w.groups
        /\ \A g \in w.groups : g \in b.groups \/ g.id \notin KeysOf(b, "groups")
        /\ {MembershipRow(b, m) : m \in b.memberships} \subseteq w.memberships
        /\ \A m \in w.memberships :
              \/ m \in {MembershipRow(b, n) : n \in b.memberships}
              \/ \A n \in b.memberships : <<m.course, m.from, m.group>> # <<n.course, b.from, n.group>>
    BY ImportWritesRows
  <2> HIDE DEF w
  <2>2. QED
    BY <1>1, <2>1 DEF RowsInv, RowsWritten, w
<1>3. RequirementsWritten'
  <2>1. /\ \A q \in w.requirements : IsRequirement(q)
        /\ \A p \in Requirements(b) : \E q \in w.requirements : Alike(q, p)
        /\ \A q \in w.requirements :
              \/ \E p \in Requirements(b) : Alike(q, p)
              \/ \A p \in Requirements(b) : <<q.owner, q.code>> # <<p.owner, p.code>>
    BY ImportWritesRequirements DEF RowsInv
  <2> HIDE DEF w
  <2>2. QED
    BY <1>1, <2>1 DEF RowsInv, RequirementsWritten, w
<1>4. VersionsWritten'
  BY ImportKeepsVersions DEF RowsInv
<1>5. QED
  BY <1>2, <1>3, <1>4 DEF RowsInv

\* The rows of a revision are those of its last file, and rows of other keys.
THEOREM RowsOfTheLastFile == Spec => []RowsInv
<1>1. Init => RowsInv
  <2>1. ASSUME Init PROVE RowsInv
    <3>1. revisions = <<>> /\ DOMAIN <<>> = {}
      BY <2>1 DEF Init, InitCatalogue
    <3>2. Imported = {}
      BY <3>1 DEF Imported
    <3>3. QED
      BY <3>2 DEF RowsInv, RowsWritten, RequirementsWritten, VersionsWritten
  <2>2. QED
    BY <2>1
<1>2. ASSUME CatalogueInv, RowsInv, [Next]_<<catalogue, offerings>> PROVE RowsInv'
  <2>1. CASE NextCatalogue
    BY <1>2, <2>1, ImportOrQuiet, ImportKeepsRows, QuietKeepsRows
  <2>2. CASE UNCHANGED catalogue
    <3>1. Imported' = Imported /\ revisions' = revisions /\ versions' = versions
      BY <2>2 DEF catalogue, Imported
    <3>2. RowsWritten' /\ RequirementsWritten' /\ VersionsWritten'
      BY <1>2, <3>1 DEF RowsInv, RowsWritten, RequirementsWritten, VersionsWritten
    <3>3. QED
      BY <3>2 DEF RowsInv
  <2>3. QED
    BY <1>2, <2>1, <2>2 DEF Next, catalogue
<1>3. QED
  BY <1>1, <1>2, CatalogueIsTyped, PTL DEF Spec
\* The rows of a revision that is intact are those of its file.
LEMMA IntactRows ==
  ASSUME CatalogueInv, RowsInv, NEW r \in Imported, Intact(r)
  PROVE  LET w == revisions[r]  b == w.payload IN
         /\ w.components = Required(b) /\ w.groups = b.groups
         /\ w.memberships = {MembershipRow(b, m) : m \in b.memberships}
         /\ \A q \in w.requirements : \E p \in Requirements(b) : Alike(q, p)
         /\ \A p \in Requirements(b) : \E q \in w.requirements : Alike(q, p)
         /\ \A c \in b.courses : versions[<<c.code, b.from>>].credits = c.credits
<1> DEFINE w == revisions[r]
           b == w.payload
<1>1. {k.id : k \in w.components} = KeysOf(b, "components") /\ {g.id : g \in w.groups} = KeysOf(b, "groups")
  BY DEF Intact
<1>2. {<<m.course, m.from, m.group>> : m \in w.memberships} = {<<m.course, b.from, m.group>> : m \in b.memberships}
  BY DEF Intact
<1>3. {<<q.owner, q.code>> : q \in w.requirements} = {<<q.owner, q.code>> : q \in Requirements(b)}
  BY DEF Intact
<1>4. (\A c \in b.courses : versions[<<c.code, b.from>>].source = b.revision) /\ \A s \in Imported \ {r} : s[2] # r[2]
  BY DEF Intact, VersionsOf
<1>5. /\ Required(b) \subseteq w.components
      /\ \A k \in w.components : k \in Required(b) \/ k.id \notin KeysOf(b, "components")
      /\ b.groups \subseteq w.groups
      /\ \A g \in w.groups : g \in b.groups \/ g.id \notin KeysOf(b, "groups")
      /\ {MembershipRow(b, m) : m \in b.memberships} \subseteq w.memberships
      /\ \A m \in w.memberships :
            \/ m \in {MembershipRow(b, n) : n \in b.memberships}
            \/ \A n \in b.memberships : <<m.course, m.from, m.group>> # <<n.course, b.from, n.group>>
  BY DEF RowsInv, RowsWritten
<1>6. /\ \A p \in Requirements(b) : \E q \in w.requirements : Alike(q, p)
      /\ \A q \in w.requirements :
            \/ \E p \in Requirements(b) : Alike(q, p)
            \/ \A p \in Requirements(b) : <<q.owner, q.code>> # <<p.owner, p.code>>
  BY DEF RowsInv, RequirementsWritten
<1>7. \A c \in b.courses : versions[<<c.code, b.from>>].credits = c.credits
  BY <1>4 DEF RowsInv, VersionsWritten
<1> HIDE DEF w, b
<1>8. \A k \in w.components : k.id \in KeysOf(b, "components")
  BY <1>1
<1>9. \A g \in w.groups : g.id \in KeysOf(b, "groups")
  BY <1>1
<1>10. \A m \in w.memberships : \E n \in b.memberships : <<m.course, m.from, m.group>> = <<n.course, b.from, n.group>>
  BY <1>2
<1>11. \A q \in w.requirements : \E p \in Requirements(b) : <<q.owner, q.code>> = <<p.owner, p.code>>
  BY <1>3
<1>12. w.components = Required(b) /\ w.groups = b.groups
  BY <1>5, <1>8, <1>9
<1>13. w.memberships = {MembershipRow(b, m) : m \in b.memberships}
  BY <1>5, <1>10
<1>14. \A q \in w.requirements : \E p \in Requirements(b) : Alike(q, p)
  BY <1>6, <1>11
<1>15. QED
  BY <1>6, <1>7, <1>12, <1>13, <1>14 DEF w, b

\* The credits of what is intact add up.
LEMMA IntactAddsUp ==
  ASSUME CatalogueInv, RowsInv, NEW r \in Imported, Intact(r)
  PROVE  LET s == Snapshot(r)  b == revisions[r].payload IN
         /\ Auditable(s)
         /\ \A k \in b.components : Credits({g \in s.groups : g.component = k.id}) = k.required
<1> DEFINE b == revisions[r].payload
<1>1. /\ Snapshot(r).total = b.total /\ Snapshot(r).components = Required(b) /\ Snapshot(r).groups = b.groups
  <2>1. revisions[r].total = b.total
    BY DEF CatalogueInv, RevisionsTyped
  <2>2. revisions[r].components = Required(b) /\ revisions[r].groups = b.groups
    BY IntactRows
  <2>3. QED
    BY <2>1, <2>2 DEF Snapshot
<1>2. CreditsAddUp(b) /\ ReferencesExist(b)
  BY DEF CatalogueInv, RevisionsTyped, ValidBaseline
<1> HIDE DEF b
<1>3. b.total = Credits(Required(b)) /\ \A k \in b.components : Credits({g \in b.groups : g.component = k.id}) = k.required
  BY <1>2 DEF CreditsAddUp, GroupCredits
<1>4. {g.component : g \in b.groups} \subseteq {k.id : k \in Required(b)}
  <2>1. ASSUME NEW g \in b.groups PROVE g.component \in {k.id : k \in Required(b)}
    <3>1. PICK k \in b.components : k.id = g.component
      BY <1>2, <2>1 DEF ReferencesExist, KeysOf, KeyOf, Rows, Listed
    <3>2. [id |-> k.id, required |-> k.required] \in Required(b)
      BY DEF Required
    <3>3. [id |-> k.id, required |-> k.required].id = g.component
      BY <3>1
    <3>4. QED
      BY <3>2, <3>3
  <2>2. QED
    BY <2>1
<1>5. Auditable(Snapshot(r))
  BY <1>1, <1>3, <1>4 DEF Auditable
<1>6. \A k \in b.components : Credits({g \in Snapshot(r).groups : g.component = k.id}) = k.required
  BY <1>1, <1>3
<1>7. QED
  BY <1>5, <1>6 DEF b

\* Its courses count where the file has them, with the credits it gives them.
LEMMA IntactMemberships ==
  ASSUME CatalogueInv, RowsInv, NEW r \in Imported, Intact(r)
  PROVE  LET s == Snapshot(r)  b == revisions[r].payload IN
         /\ \A g \in KeysOf(b, "groups") :
               {m.course : m \in {n \in s.memberships : n.group = g /\ n.role = "MANDATORY"}}
                  = {m.course : m \in {n \in b.memberships : n.group = g /\ n.mandatory}}
         /\ s.credits \subseteq {<<c.code, c.credits>> : c \in b.courses}
<1> DEFINE b == revisions[r].payload
           Row(m) == [course |-> m.course, group |-> m.group, role |-> m.role]
           rows == revisions[r].memberships
<1>1. rows = {MembershipRow(b, m) : m \in b.memberships}
      /\ \A c \in b.courses : versions[<<c.code, b.from>>].credits = c.credits
  BY IntactRows
<1>2. Snapshot(r).memberships = {Row(m) : m \in rows}
      /\ Snapshot(r).credits = {<<m.course, versions[<<m.course, m.from>>].credits>> : m \in rows}
  BY DEF Snapshot
<1>3. \A m : Role(m) = "MANDATORY" <=> m.mandatory
  BY DEF Role
<1>4. ReferencesExist(b)
  BY DEF CatalogueInv, RevisionsTyped, ValidBaseline
<1> DEFINE shown == Snapshot(r).memberships
<1> HIDE DEF b, rows
<1>5. \A m \in b.memberships : Row(MembershipRow(b, m)) = [course |-> m.course, group |-> m.group, role |-> Role(m)]
  BY DEF MembershipRow
<1>6. ASSUME NEW g, NEW c
      PROVE  (\E n \in shown : n.group = g /\ n.role = "MANDATORY" /\ n.course = c)
             <=> \E n \in b.memberships : n.group = g /\ n.mandatory /\ n.course = c
  <2>1. ASSUME NEW n \in shown, n.group = g, n.role = "MANDATORY", n.course = c
        PROVE  \E m \in b.memberships : m.group = g /\ m.mandatory /\ m.course = c
    <3>1. PICK k \in rows : n = Row(k)
      BY <1>2
    <3>2. PICK m \in b.memberships : k = MembershipRow(b, m)
      BY <1>1
    <3>3. n.group = m.group /\ n.course = m.course /\ n.role = Role(m)
      BY <1>5, <3>1, <3>2
    <3> HIDE DEF shown
    <3>4. m.group = g /\ m.course = c /\ Role(m) = "MANDATORY"
      BY <2>1, <3>3
    <3>5. QED
      BY <1>3, <3>4
  <2>2. ASSUME NEW m \in b.memberships, m.group = g, m.mandatory, m.course = c
        PROVE  \E n \in shown : n.group = g /\ n.role = "MANDATORY" /\ n.course = c
    <3>1. MembershipRow(b, m) \in rows
      BY <1>1
    <3>2. [course |-> m.course, group |-> m.group, role |-> Role(m)] \in shown
      BY <1>2, <1>5, <3>1
    <3>3. Role(m) = "MANDATORY"
      BY <1>3, <2>2
    <3>4. QED
      BY <2>2, <3>2, <3>3
  <2>3. QED
    BY <2>1, <2>2
<1>7. ASSUME NEW g
      PROVE  {m.course : m \in {n \in shown : n.group = g /\ n.role = "MANDATORY"}}
                = {m.course : m \in {n \in b.memberships : n.group = g /\ n.mandatory}}
  <2> HIDE DEF shown
  <2>1. \A c : c \in {m.course : m \in {n \in shown : n.group = g /\ n.role = "MANDATORY"}}
               <=> \E n \in shown : n.group = g /\ n.role = "MANDATORY" /\ n.course = c
    OBVIOUS
  <2>2. \A c : c \in {m.course : m \in {n \in b.memberships : n.group = g /\ n.mandatory}}
               <=> \E n \in b.memberships : n.group = g /\ n.mandatory /\ n.course = c
    OBVIOUS
  <2>3. QED
    BY Z3, <1>6, <2>1, <2>2
<1>8. ASSUME NEW m \in rows
      PROVE  <<m.course, versions[<<m.course, m.from>>].credits>> \in {<<c.code, c.credits>> : c \in b.courses}
  <2>1. PICK n \in b.memberships : m = MembershipRow(b, n)
    BY <1>1
  <2>2. m.course = n.course /\ m.from = b.from
    BY <2>1 DEF MembershipRow
  <2>3. PICK c \in b.courses : c.code = n.course
    BY <1>4 DEF ReferencesExist, KeysOf, KeyOf, Rows, Listed
  <2>4. QED
    BY <1>1, <2>2, <2>3
<1>9. QED
  BY <1>2, <1>7, <1>8 DEF b
\* Requirements of a revision that is intact: what the audit is told of them.
LEMMA IntactRequirements ==
  ASSUME CatalogueInv, RowsInv, NEW r \in Imported, Intact(r), NEW q \in revisions[r].requirements
  PROVE  LET b == revisions[r].payload IN
         /\ Parsed(q.rule) /\ Answerable(q.rule, Has(b))
         /\ q.status = "VERIFIED" =>
               \E p \in ToSet(b.enrollment) \cup ToSet(b.graduation) :
                  p.rule = q.rule /\ p.status = "VERIFIED" /\ p.evidence # None
         /\ q.owner # None => \E row \in ToSet(b.enrollment) : row.owner = q.owner /\ row.rule = q.rule
<1> DEFINE b == revisions[r].payload
<1>1. /\ IsFile(b) /\ ValidBaseline(b) /\ Parsable(b) /\ b \in archive.baselines /\ archive \in Archives
  BY FilesAreFiles DEF CatalogueInv, RevisionsTyped
<1>2. PICK p \in Requirements(b) : Alike(q, p)
  BY IntactRows
<1> HIDE DEF b
<1>3. /\ p.rule \in Rules(b)
      /\ \/ \E i \in DOMAIN b.enrollment : p = EnrollmentRow(b.enrollment[i])
         \/ p.owner = None
      /\ p.status = "VERIFIED" =>
            \E row \in ToSet(b.enrollment) \cup ToSet(b.graduation) :
               row.rule = p.rule /\ row.status = "VERIFIED" /\ row.evidence # None
  BY <1>1, RequirementsOfRows
<1>4. q.rule = p.rule /\ q.status = p.status /\ q.owner = p.owner
  BY <1>2 DEF Alike
<1>5. Parsed(p.rule) /\ Answerable(p.rule, Has(b))
  <2>1. Parsed(p.rule) /\ Fits(p.rule, Has(b))
    BY <1>1, <1>3 DEF Parsable, ValidBaseline, ReferencesExist
  <2>2. QED
    BY <1>1, <1>3, <2>1, RuleAssumption
<1>6. ASSUME q.owner # None PROVE \E row \in ToSet(b.enrollment) : row.owner = q.owner /\ row.rule = q.rule
  <2>1. PICK i \in DOMAIN b.enrollment : p = EnrollmentRow(b.enrollment[i])
    BY <1>3, <1>4, <1>6
  <2>2. b.enrollment[i] \in ToSet(b.enrollment)
    BY DEF ToSet
  <2>3. p.owner = b.enrollment[i].owner /\ p.rule = b.enrollment[i].rule
    BY <2>1 DEF EnrollmentRow
  <2>4. QED
    BY <1>4, <2>2, <2>3
<1>7. QED
  BY <1>3, <1>4, <1>5, <1>6 DEF b

\* Of a course that is intact the audit asks no rule but those of its rows; and the rule
\* of its only row, if that is known.
LEMMA IntactAsks ==
  ASSUME CatalogueInv, RowsInv, NEW r \in Imported, Intact(r), NEW c \in KeysOf(revisions[r].payload, "courses")
  PROVE  LET s == Snapshot(r)
             rows == {q \in ToSet(revisions[r].payload.enrollment) : q.owner = c}
         IN /\ Asked(s, c) \subseteq {q.rule : q \in rows}
            /\ Cardinality(rows) = 1 /\ (\A q \in rows : q.status \in {"VERIFIED", "DERIVED"}) =>
                  Asked(s, c) = {q.rule : q \in rows}
<1> DEFINE b == revisions[r].payload
           s == Snapshot(r)
           rows == {q \in ToSet(b.enrollment) : q.owner = c}
           unsure == {"UNKNOWN", "DISPUTED", "SUPERSEDED"}
<1>1. IsFile(b) /\ KeysAreUnique(b) /\ c # None
  <2>1. IsFile(b) /\ ValidBaseline(b)
    BY FilesAreFiles DEF CatalogueInv, RevisionsTyped
  <2>2. QED
    BY <2>1 DEF ValidBaseline, IsFile
<1>2. Asked(s, c) = {q.rule : q \in {p \in revisions[r].requirements : p.owner = c /\ p.status \notin unsure}}
  BY DEF Asked, Snapshot
<1>3. Asked(s, c) \subseteq {q.rule : q \in rows}
  <2>1. ASSUME NEW q \in revisions[r].requirements, q.owner = c PROVE \E row \in rows : row.rule = q.rule
    BY <1>1, <2>1, IntactRequirements
  <2> HIDE DEF rows, s
  <2>2. QED
    BY <1>2, <2>1
<1>4. ASSUME Cardinality(rows) = 1, \A q \in rows : q.status \in {"VERIFIED", "DERIVED"}
      PROVE  {q.rule : q \in rows} \subseteq Asked(s, c)
  <2>1. PICK row : rows = {row}
    <3>1. ToSet(b.enrollment) = Rows(b, "enrollment")
      BY DEF Rows, Listed
    <3>2. IsFiniteSet(Rows(b, "enrollment"))
      BY <1>1, ListedIsFinite DEF Listed
    <3>3. IsFiniteSet(rows)
      <4>1. rows \subseteq ToSet(b.enrollment) /\ IsFiniteSet(ToSet(b.enrollment))
        BY <3>1, <3>2
      <4>2. QED
        BY <4>1, FS_Subset
    <3> HIDE DEF rows
    <3>4. QED
      BY <1>4, <3>3, FS_Singleton
  <2>2. row \in ToSet(b.enrollment) /\ row.owner = c /\ row.status \in {"VERIFIED", "DERIVED"}
    BY <1>4, <2>1
  <2>3. PICK i \in DOMAIN b.enrollment : row = b.enrollment[i]
    BY <2>2 DEF ToSet
  <2>4. \A j \in DOMAIN b.enrollment : b.enrollment[j].owner = c => b.enrollment[j] = row
    <3>1. \A j \in DOMAIN b.enrollment : b.enrollment[j] \in ToSet(b.enrollment)
      BY DEF ToSet
    <3>2. QED
      BY <2>1, <3>1
  <2>5. EnrollmentRow(row) \in Requirements(b)
    BY <1>1, <2>2, <2>3, <2>4, OnlyRowIsWritten
  <2>6. PICK q \in revisions[r].requirements : Alike(q, EnrollmentRow(row))
    BY <2>5, IntactRows
  <2>7. q.owner = c /\ q.rule = row.rule /\ q.status = EnrollmentRow(row).status
    BY <2>2, <2>6 DEF Alike, EnrollmentRow
  <2>8. q.status \notin unsure
    <3>1. Status(row) = row.status
      BY <2>2 DEF Status, SourceStatuses
    <3>2. EnrollmentRow(row).status \in {Status(row), "INFERRED_PENDING_REVIEW"}
      BY DEF EnrollmentRow
    <3>3. QED
      BY <2>2, <2>7, <3>1, <3>2
  <2>9. row.rule \in Asked(s, c)
    <3> HIDE DEF s
    <3>1. QED
      BY <1>2, <2>7, <2>8
  <2>10. QED
    BY <2>1, <2>9
<1>5. QED
  BY <1>3, <1>4

\* Of a revision that is intact the audit reads what its file says.
THEOREM CatalogueReadsBack == Spec => []RowsReadBack
<1>1. CatalogueInv /\ RowsInv => RowsReadBack
  <2>1. ASSUME CatalogueInv, RowsInv, NEW r \in Imported, Intact(r)
        PROVE  LET s == Snapshot(r)  b == revisions[r].payload IN
               /\ Auditable(s)
               /\ \A k \in b.components : Credits({g \in s.groups : g.component = k.id}) = k.required
               /\ \A g \in KeysOf(b, "groups") :
                     {m.course : m \in {n \in s.memberships : n.group = g /\ n.role = "MANDATORY"}}
                        = {m.course : m \in {n \in b.memberships : n.group = g /\ n.mandatory}}
               /\ s.credits \subseteq {<<c.code, c.credits>> : c \in b.courses}
    BY <2>1, IntactAddsUp, IntactMemberships
  <2>2. ASSUME CatalogueInv, RowsInv, NEW r \in Imported, Intact(r)
        PROVE  LET s == Snapshot(r)  b == revisions[r].payload IN
               /\ \A q \in s.requirements : Parsed(q.rule) /\ Answerable(q.rule, Has(b))
               /\ \A q \in s.requirements : q.status = "VERIFIED" =>
                     \E p \in ToSet(b.enrollment) \cup ToSet(b.graduation) :
                        p.rule = q.rule /\ p.status = "VERIFIED" /\ p.evidence # None
    <3>1. Snapshot(r).requirements = revisions[r].requirements
      BY DEF Snapshot
    <3>2. QED
      BY <2>2, <3>1, IntactRequirements
  <2>3. QED
    BY <2>1, <2>2, IntactAsks DEF RowsReadBack
<1>2. QED
  BY <1>1, CatalogueIsTyped, RowsOfTheLastFile, PTL
-----------------------------------------------------------------------------
(* What is offered.                                                        *)

\* Versions are of courses, from a date; and the courses of a revision are finitely many.
CoursesDated ==
    /\ \A v \in DOMAIN versions : v[2] \in Nat /\ v = <<v[1], v[2]>>
    /\ \A r \in Imported : IsFiniteSet(revisions[r].memberships)

\* A term has had its own code, and remains as long as it is referenced; time does not
\* go past the calendar.
TermsKept ==
    /\ referenced \subseteq DOMAIN terms
    /\ \A t \in DOMAIN terms : t \in terms[t].codes
    /\ now \in DOMAIN archive.calendar

\* What an offer says of itself: it was made by its source, for a version there was at
\* the beginning of the term.
MadeBySource(place, offer) ==
    LET o    == offer.source[1]
        said == o.offers[place[1][1]]
    IN /\ o \in archive.offers /\ offer.source # None
       /\ place[1][1] \in DOMAIN o.offers /\ place[1][2] <= o.starts
       /\ said.status \in {None, offer.status}
       /\ \A g \in DOMAIN said.sections : offer.sections[g] = said.sections[g]

\* The term of an offer remains, and has had the code its source knows it by.
OffersMade ==
    \A place \in DOMAIN offered :
        /\ place = <<place[1], place[2]>>
        /\ MadeBySource(place, offered[place])
        /\ offered[place].source \in DOMAIN captured
        /\ place[2] \in DOMAIN terms /\ offered[place].source[1].term \in terms[place[2]].codes

LEMMA WrittenIsFinite ==
  ASSUME CatalogueInv, CoursesDated, NEW b \in archive.baselines
  PROVE  IsFiniteSet(Written(b).memberships)
<1> DEFINE rows == {MembershipRow(b, m) : m \in b.memberships}
           old == OldRow(b).memberships
           f == [m \in b.memberships |-> MembershipRow(b, m)]
<1>1. Written(b).memberships = UpdateOrCreate(old, rows, {"course", "from", "group"})
  BY WrittenFields
<1>2. IsFiniteSet(b.memberships)
  BY FilesAreFiles DEF IsFile, Entities, Listed
<1>3. IsFiniteSet(rows)
  <2>1. f \in Surjection(b.memberships, rows)
    BY DEF Surjection
  <2> HIDE DEF f, rows
  <2>2. QED
    BY <1>2, <2>1, FS_Surjection
<1>4. IsFiniteSet(old)
  <2>1. CASE Key(b) \in Imported
    BY <2>1 DEF OldRow, CoursesDated
  <2>2. CASE Key(b) \notin Imported
    BY <2>2, FS_EmptySet DEF OldRow, NewRevision
  <2>3. QED
    BY <2>1, <2>2
<1> HIDE DEF rows, old
<1>5. Written(b).memberships \subseteq rows \cup old
  BY <1>1 DEF UpdateOrCreate
<1>6. QED
  BY <1>3, <1>4, <1>5, FS_Union, FS_Subset

LEMMA DatesStep ==
  ASSUME CatalogueInv, CoursesDated, NextCatalogue
  PROVE  CoursesDated'
<1>1. CASE Quiet
  <2>1. Imported' = Imported /\ versions' = versions
    BY <1>1 DEF Quiet, Imported
  <2>2. \A r \in Imported : revisions'[r].memberships = revisions[r].memberships
    <3>1. \A r \in Imported : IsRevision(revisions[r])
      BY DEF CatalogueInv, RevisionsTyped
    <3>2. \A r \in Imported : revisions'[r] = [revisions[r] EXCEPT !.status = revisions'[r].status,
                                                !.requirements = revisions'[r].requirements]
      BY <1>1 DEF Quiet
    <3>3. QED
      BY <3>1, <3>2 DEF IsRevision, RevisionFields
  <2>3. QED
    BY <2>1, <2>2 DEF CoursesDated
<1>2. ASSUME NEW b \in archive.baselines, Import(b) PROVE CoursesDated'
  <2>1. /\ Imported' = Imported \cup {Key(b)} /\ revisions'[Key(b)] = Written(b)
        /\ \A r \in Imported \ {Key(b)} : revisions'[r] = revisions[r]
    BY <1>2, ImportKeepsOtherRows
  <2>2. DOMAIN versions' = VersionsOf(b) \cup DOMAIN versions
    BY <1>2, ImportedVersion
  <2>3. \A v \in VersionsOf(b) : v[2] \in Nat /\ v = <<v[1], v[2]>>
    BY FilesAreFiles DEF VersionsOf, IsFile
  <2>4. IsFiniteSet(Written(b).memberships)
    BY WrittenIsFinite
  <2>5. QED
    BY <2>1, <2>2, <2>3, <2>4 DEF CoursesDated
<1>3. QED
  BY <1>1, <1>2, ImportOrQuiet

\* The latest version of a course at a date.
LEMMA LatestVersion ==
  ASSUME CoursesDated, NEW c, NEW date \in Nat, Versions(c, date) # {}
  PROVE  /\ VersionAt(c, date) \in Versions(c, date)
         /\ \A w \in Versions(c, date) : VersionAt(c, date)[2] >= w[2]
<1> DEFINE known == Versions(c, date)
           dates == {v[2] : v \in known}
<1>1. known \subseteq DOMAIN versions /\ \A v \in known : v[2] \in Nat /\ v[2] <= date
  BY DEF Versions, CoursesDated
<1> HIDE DEF known
<1>2. dates \in SUBSET Nat /\ dates # {} /\ \A d \in dates : d <= date
  BY <1>1 DEF known
<1>3. PICK d \in dates : \A e \in dates : e <= d
  BY <1>2, GreatestBelow
<1>4. \E v \in known : \A w \in known : v[2] >= w[2]
  BY <1>1, <1>3
<1>5. QED
  BY <1>4 DEF VersionAt, known

\* An instant of the calendar has a capture.
LEMMA CaptureIsThere ==
  ASSUME archive \in Archives, TermsKept, NEW o \in archive.offers, NEW at \in 1 .. now
  PROVE  Capture(o, at) # None /\ Capture(o, at)[1] = o
<1>1. archive.calendar \in Seq(Nat)
  BY OfferAssumption
<1>2. at \in DOMAIN archive.calendar
  BY <1>1 DEF TermsKept
<1>3. QED
  BY <1>2, OfferAssumption DEF Capture

\* What an import of offers leaves at the places it is about, and elsewhere.
LEMMA OffersWritten ==
  ASSUME CoursesDated, TermsKept, archive \in Archives,
         NEW o \in archive.offers, NEW campus, NEW at \in 1 .. now, ImportOffers(o, campus, at)
  PROVE  /\ Capture(o, at) \in DOMAIN captured' /\ DOMAIN captured \subseteq DOMAIN captured'
         /\ DOMAIN offered' = {<<VersionAt(c, o.starts), o.term>> : c \in DOMAIN o.offers} \cup DOMAIN offered
         /\ \A c \in DOMAIN o.offers :
               LET v == VersionAt(c, o.starts) IN
               /\ v \in Versions(c, o.starts) /\ (\A w \in Versions(c, o.starts) : v[2] >= w[2])
               /\ v[1] = c /\ v[2] \in Nat /\ v[2] <= o.starts
               /\ offered'[<<v, o.term>>] = OfferAfter(o, c, at)
         /\ \A place \in DOMAIN offered :
               \/ \E c \in DOMAIN o.offers : place = <<VersionAt(c, o.starts), o.term>>
               \/ offered'[place] = offered[place]
<1> DEFINE places == {<<VersionAt(c, o.starts), o.term>> : c \in DOMAIN o.offers}
           new == [place \in places |-> OfferAfter(o, place[1][1], at)]
<1>1. o.starts \in Nat
  BY OfferAssumption
<1>2. ASSUME NEW c \in DOMAIN o.offers
      PROVE  LET v == VersionAt(c, o.starts) IN
             /\ v \in Versions(c, o.starts) /\ (\A w \in Versions(c, o.starts) : v[2] >= w[2])
             /\ v[1] = c /\ v[2] \in Nat /\ v[2] <= o.starts
  <2>1. Versions(c, o.starts) # {}
    BY DEF ImportOffers, Readable
  <2>2. /\ VersionAt(c, o.starts) \in Versions(c, o.starts)
        /\ \A w \in Versions(c, o.starts) : VersionAt(c, o.starts)[2] >= w[2]
    BY <1>1, <2>1, LatestVersion
  <2>3. QED
    BY <2>2 DEF Versions, CoursesDated
<1>3. \A c \in DOMAIN o.offers : <<VersionAt(c, o.starts), o.term>> \in places /\
                                 new[<<VersionAt(c, o.starts), o.term>>] = OfferAfter(o, c, at)
  BY <1>2
<1>4. offered' = Over(new, offered) /\ DOMAIN new = places
  BY DEF ImportOffers
<1> HIDE DEF new
<1>5. /\ DOMAIN offered' = places \cup DOMAIN offered /\ (\A place \in places : offered'[place] = new[place])
      /\ \A place \in DOMAIN offered : place \in places \/ offered'[place] = offered[place]
  BY <1>4 DEF Over
<1>6. Capture(o, at) \in DOMAIN captured' /\ DOMAIN captured \subseteq DOMAIN captured'
  BY DEF ImportOffers, Put
<1>7. QED
  BY <1>2, <1>3, <1>5, <1>6

\* The terms after an import: that of the file is there, and no term forgets a code.
LEMMA TermsWritten ==
  ASSUME TermsKept, NEW o, NEW campus, NEW at, ImportOffers(o, campus, at)
  PROVE  /\ DOMAIN terms' = DOMAIN terms \cup {o.term} /\ o.term \in terms'[o.term].codes
         /\ \A t \in DOMAIN terms : terms'[t].codes = terms[t].codes
<1>1. terms' = Put(o.term, TermAfter(o, campus, at), terms)
  BY DEF ImportOffers
<1>2. /\ DOMAIN terms' = DOMAIN terms \cup {o.term} /\ terms'[o.term] = TermAfter(o, campus, at)
      /\ \A t \in DOMAIN terms \ {o.term} : terms'[t] = terms[t]
  BY <1>1 DEF Put
<1>3. TermAfter(o, campus, at).codes = IF o.term \in DOMAIN terms THEN terms[o.term].codes ELSE {o.term}
  <2>1. CASE o.term \in referenced
    BY <2>1 DEF TermAfter, TermsKept
  <2>2. CASE o.term \notin referenced
    BY <2>2 DEF TermAfter, TermOf
  <2>3. QED
    BY <2>1, <2>2
<1>4. QED
  BY <1>2, <1>3 DEF TermsKept

\* An offer after an import is what the file says.
LEMMA OfferAsSaid ==
  ASSUME NEW o, NEW c \in DOMAIN o.offers, NEW at
  PROVE  LET offer == OfferAfter(o, c, at)  said == o.offers[c] IN
         /\ offer.source = Capture(o, at) /\ said.status \in {None, offer.status}
         /\ \A g \in DOMAIN said.sections : offer.sections[g] = said.sections[g]
<1>1. OfferAfter(o, c, at).source = Capture(o, at) /\ o.offers[c].status \in {None, OfferAfter(o, c, at).status}
  BY DEF OfferAfter
<1>2. PICK old : OfferAfter(o, c, at).sections = SectionsAfter(old, o.offers[c].sections)
  BY DEF OfferAfter
<1>3. \A g \in DOMAIN o.offers[c].sections : OfferAfter(o, c, at).sections[g] = o.offers[c].sections[g]
  BY <1>2 DEF SectionsAfter, Over
<1>4. QED
  BY <1>1, <1>3

\* An administrator gives a term another code, or none: its offers follow it.
LEMMA RenamedOffers ==
  ASSUME OffersMade, NEW t \in DOMAIN terms, NEW code, code \notin DOMAIN terms \ {t},
         NEW place \in DOMAIN Renamed(offered, t, code)
  PROVE  \E p \in DOMAIN offered : /\ place = <<p[1], IF p[2] = t THEN code ELSE p[2]>>
                                   /\ Renamed(offered, t, code)[place] = offered[p]
<1>1. PICK p \in DOMAIN offered : place = <<p[1], IF p[2] = t THEN code ELSE p[2]>>
  BY DEF Renamed
<1>2. p = <<p[1], p[2]>> /\ p[2] \in DOMAIN terms
  BY DEF OffersMade
<1>3. Renamed(offered, t, code)[place] = offered[<<place[1], IF place[2] = code THEN t ELSE place[2]>>]
  BY DEF Renamed
<1>4. <<place[1], IF place[2] = code THEN t ELSE place[2]>> = p
  BY <1>1, <1>2
<1>5. QED
  BY <1>1, <1>3, <1>4

LEMMA TermsStep ==
  ASSUME CatalogueInv, TermsKept, NextOfferings, UNCHANGED catalogue
  PROVE  TermsKept'
<1>1. archive' = archive /\ archive \in Archives /\ archive.calendar \in Seq(Nat)
  BY OfferAssumption DEF catalogue, CatalogueInv, RevisionsTyped
<1>2. ASSUME NEW o \in archive.offers, NEW campus, NEW at \in 1 .. now, ImportOffers(o, campus, at) PROVE TermsKept'
  <2>1. /\ DOMAIN terms' = DOMAIN terms \cup {o.term} /\ o.term \in terms'[o.term].codes
        /\ \A t \in DOMAIN terms : terms'[t].codes = terms[t].codes
    BY <1>2, TermsWritten
  <2>2. referenced' = referenced /\ now' = now
    BY <1>2 DEF ImportOffers
  <2>3. QED
    BY <1>1, <2>1, <2>2 DEF TermsKept
<1>3. ASSUME NEW edit, NEW source, CreateTerm(edit, source) PROVE TermsKept'
  <2>1. terms' = Put(edit.code, TermSet(edit, source, {}), terms) /\ referenced' = referenced /\ now' = now
    BY <1>3 DEF CreateTerm
  <2>2. edit.code \in TermSet(edit, source, {}).codes
    BY DEF TermSet
  <2>3. QED
    BY <1>1, <2>1, <2>2 DEF TermsKept, Put
<1>4. ASSUME NEW edit, NEW source, NEW t \in DOMAIN terms, PatchTerm(t, edit, source) PROVE TermsKept'
  <2>1. /\ terms' = Put(edit.code, TermSet(edit, source, terms[t].codes), [u \in DOMAIN terms \ {t} |-> terms[u]])
        /\ referenced' = referenced /\ now' = now /\ t \notin referenced
    BY <1>4 DEF PatchTerm
  <2>2. edit.code \in TermSet(edit, source, terms[t].codes).codes
    BY DEF TermSet
  <2>3. QED
    BY <1>1, <2>1, <2>2 DEF TermsKept, Put
<1>5. ASSUME NEW t \in DOMAIN terms, DeleteTerm(t) PROVE TermsKept'
  BY <1>1, <1>5 DEF DeleteTerm, InUse, TermsKept
<1>6. ASSUME NEW t \in DOMAIN terms, ReferenceTerm(t) PROVE TermsKept'
  BY <1>1, <1>6 DEF ReferenceTerm, TermsKept
<1>7. ASSUME Tick PROVE TermsKept'
  <2>1. now' \in DOMAIN archive.calendar /\ terms' = terms /\ referenced' = referenced
    BY <1>1, <1>7 DEF Tick, TermsKept
  <2>2. QED
    BY <1>1, <2>1 DEF TermsKept
<1>8. QED
  BY <1>2, <1>3, <1>4, <1>5, <1>6, <1>7 DEF NextOfferings

LEMMA OffersStep ==
  ASSUME CatalogueInv, CoursesDated, TermsKept, OffersMade, NextOfferings, UNCHANGED catalogue
  PROVE  OffersMade'
<1>1. archive' = archive /\ archive \in Archives
  BY DEF catalogue, CatalogueInv, RevisionsTyped
<1>2. \A place, offer : MadeBySource(place, offer)' = MadeBySource(place, offer)
  BY <1>1 DEF MadeBySource
<1>3. ASSUME NEW o \in archive.offers, NEW campus, NEW at \in 1 .. now, ImportOffers(o, campus, at) PROVE OffersMade'
  <2>1. /\ Capture(o, at) \in DOMAIN captured' /\ DOMAIN captured \subseteq DOMAIN captured'
        /\ DOMAIN offered' = {<<VersionAt(c, o.starts), o.term>> : c \in DOMAIN o.offers} \cup DOMAIN offered
        /\ \A place \in DOMAIN offered :
              \/ \E c \in DOMAIN o.offers : place = <<VersionAt(c, o.starts), o.term>>
              \/ offered'[place] = offered[place]
    BY <1>1, <1>3, OffersWritten
  <2>2. ASSUME NEW c \in DOMAIN o.offers
        PROVE  LET v == VersionAt(c, o.starts) IN
               v[1] = c /\ v[2] <= o.starts /\ offered'[<<v, o.term>>] = OfferAfter(o, c, at)
    BY <1>1, <1>3, OffersWritten
  <2>3. /\ DOMAIN terms' = DOMAIN terms \cup {o.term} /\ o.term \in terms'[o.term].codes
        /\ \A t \in DOMAIN terms : terms'[t].codes = terms[t].codes
    BY <1>3, TermsWritten
  <2>4. ASSUME NEW c \in DOMAIN o.offers, NEW place, place = <<VersionAt(c, o.starts), o.term>>
        PROVE  /\ MadeBySource(place, offered'[place])
               /\ offered'[place].source = Capture(o, at) /\ Capture(o, at)[1] = o
    <3>1. place[1][1] = c /\ place[1][2] <= o.starts /\ offered'[place] = OfferAfter(o, c, at)
      BY <2>2, <2>4
    <3>2. Capture(o, at) # None /\ Capture(o, at)[1] = o
      BY <1>1, CaptureIsThere
    <3>3. /\ OfferAfter(o, c, at).source = Capture(o, at) /\ o.offers[c].status \in {None, OfferAfter(o, c, at).status}
          /\ \A g \in DOMAIN o.offers[c].sections : OfferAfter(o, c, at).sections[g] = o.offers[c].sections[g]
      BY OfferAsSaid
    <3>4. QED
      BY <3>1, <3>2, <3>3 DEF MadeBySource
  <2>5. ASSUME NEW place \in DOMAIN offered'
        PROVE  /\ place = <<place[1], place[2]>> /\ MadeBySource(place, offered'[place])
               /\ offered'[place].source \in DOMAIN captured'
               /\ place[2] \in DOMAIN terms' /\ offered'[place].source[1].term \in terms'[place[2]].codes
    <3>1. CASE \E c \in DOMAIN o.offers : place = <<VersionAt(c, o.starts), o.term>>
      <4>1. PICK c \in DOMAIN o.offers : place = <<VersionAt(c, o.starts), o.term>>
        BY <3>1
      <4>2. QED
        BY <2>1, <2>3, <2>4, <4>1
    <3>2. CASE place \in DOMAIN offered /\ offered'[place] = offered[place]
      BY <2>1, <2>3, <3>2 DEF OffersMade
    <3>3. QED
      BY <2>1, <3>1, <3>2
  <2>6. QED
    BY <1>2, <2>5 DEF OffersMade
<1>4. ASSUME NEW edit, NEW source, CreateTerm(edit, source) PROVE OffersMade'
  <2>1. /\ DOMAIN terms \subseteq DOMAIN terms' /\ \A t \in DOMAIN terms : terms'[t] = terms[t]
        /\ offered' = offered /\ captured' = captured
    BY <1>4 DEF CreateTerm, Put
  <2>2. QED
    BY <1>2, <2>1 DEF OffersMade
<1>5. ASSUME NEW edit, NEW source, NEW t \in DOMAIN terms, PatchTerm(t, edit, source) PROVE OffersMade'
  <2> DEFINE code == edit.code
  <2>1. /\ terms' = Put(code, TermSet(edit, source, terms[t].codes), [u \in DOMAIN terms \ {t} |-> terms[u]])
        /\ offered' = Renamed(offered, t, code) /\ captured' = captured /\ code \notin DOMAIN terms \ {t}
    BY <1>5 DEF PatchTerm
  <2>2. /\ DOMAIN terms' = (DOMAIN terms \ {t}) \cup {code} /\ terms[t].codes \subseteq terms'[code].codes
        /\ \A u \in DOMAIN terms \ {t} : terms'[u] = terms[u]
    BY <2>1 DEF Put, TermSet
  <2>3. ASSUME NEW place \in DOMAIN offered'
        PROVE  /\ place = <<place[1], place[2]>> /\ MadeBySource(place, offered'[place])
               /\ offered'[place].source \in DOMAIN captured'
               /\ place[2] \in DOMAIN terms' /\ offered'[place].source[1].term \in terms'[place[2]].codes
    <3>1. PICK p \in DOMAIN offered : /\ place = <<p[1], IF p[2] = t THEN code ELSE p[2]>>
                                      /\ offered'[place] = offered[p]
      BY <2>1, RenamedOffers
    <3>2. /\ MadeBySource(p, offered[p]) /\ offered[p].source \in DOMAIN captured
          /\ p[2] \in DOMAIN terms /\ offered[p].source[1].term \in terms[p[2]].codes
      BY DEF OffersMade
    <3>3. MadeBySource(place, offered'[place])
      BY <3>1, <3>2 DEF MadeBySource
    <3>4. place[2] \in DOMAIN terms' /\ terms[p[2]].codes \subseteq terms'[place[2]].codes
      BY <2>2, <3>1, <3>2
    <3>5. QED
      BY <2>1, <3>1, <3>2, <3>3, <3>4
  <2>4. QED
    BY <1>2, <2>3 DEF OffersMade
<1>6. ASSUME NEW t \in DOMAIN terms, DeleteTerm(t) PROVE OffersMade'
  <2>1. /\ DOMAIN terms' = DOMAIN terms \ {t} /\ \A u \in DOMAIN terms \ {t} : terms'[u] = terms[u]
        /\ offered' = offered /\ captured' = captured
    BY <1>6 DEF DeleteTerm
  <2>2. \A place \in DOMAIN offered : place[2] # t
    BY <1>6 DEF DeleteTerm, InUse
  <2>3. QED
    BY <1>2, <2>1, <2>2 DEF OffersMade
<1>7. ASSUME NEW t, ReferenceTerm(t) \/ Tick PROVE OffersMade'
  BY <1>2, <1>7 DEF ReferenceTerm, Tick, OffersMade
<1>8. QED
  BY <1>3, <1>4, <1>5, <1>6, <1>7 DEF NextOfferings

THEOREM OffersOfVersions == Spec => [](CoursesDated /\ TermsKept /\ OffersMade)
<1>1. Init => CoursesDated /\ TermsKept /\ OffersMade
  <2>1. ASSUME Init PROVE CoursesDated /\ TermsKept /\ OffersMade
    <3>1. /\ revisions = <<>> /\ versions = <<>> /\ offered = <<>> /\ terms = <<>> /\ DOMAIN <<>> = {}
          /\ referenced = {} /\ now = 1 /\ archive \in Archives
      BY <2>1 DEF Init, InitCatalogue, InitOfferings
    <3>2. Imported = {} /\ DOMAIN versions = {} /\ DOMAIN offered = {} /\ DOMAIN terms = {}
      BY <3>1 DEF Imported
    <3>3. now \in DOMAIN archive.calendar
      <4>1. archive.calendar \in Seq(Nat) /\ archive.calendar # <<>>
        BY <3>1, OfferAssumption
      <4>2. QED
        BY <3>1, <4>1
    <3>4. QED
      BY <3>1, <3>2, <3>3 DEF CoursesDated, TermsKept, OffersMade
  <2>2. QED
    BY <2>1
<1>2. ASSUME CatalogueInv, CoursesDated, TermsKept, OffersMade, [Next]_<<catalogue, offerings>>
      PROVE  CoursesDated' /\ TermsKept' /\ OffersMade'
  <2>1. ASSUME archive' = archive, UNCHANGED offerings PROVE TermsKept' /\ OffersMade'
    <3>1. \A place, offer : MadeBySource(place, offer)' = MadeBySource(place, offer)
      BY <2>1 DEF MadeBySource
    <3>2. QED
      BY <1>2, <2>1, <3>1 DEF offerings, TermsKept, OffersMade
  <2>2. CASE NextCatalogue /\ UNCHANGED offerings
    <3>1. archive' = archive
      BY <1>2, <2>2, ImportOrQuiet DEF Quiet, Import
    <3>2. QED
      BY <1>2, <2>1, <2>2, <3>1, DatesStep
  <2>3. CASE UNCHANGED catalogue
    <3>1. CoursesDated'
      BY <1>2, <2>3 DEF catalogue, CoursesDated, Imported
    <3>2. CASE NextOfferings
      BY <1>2, <2>3, <3>1, <3>2, TermsStep, OffersStep
    <3>3. CASE UNCHANGED offerings
      BY <2>1, <2>3, <3>1, <3>3 DEF catalogue
    <3>4. QED
      BY <1>2, <2>2, <3>2, <3>3 DEF Next
  <2>4. QED
    BY <1>2, <2>2, <2>3 DEF Next, catalogue
<1>3. QED
  BY <1>1, <1>2, CatalogueIsTyped, PTL DEF Spec

\* An offer is what its source says, for a version of a course the source says it of;
\* its term has had the code the source knows it by, though an administrator may have
\* given it another, and other dates; and what students see is the age of that source,
\* whatever source the term has.
THEOREM OffersAreOfTheirSource == Spec => []OffersTellTheirSource
<1>1. OffersMade => OffersTellTheirSource
  BY DEF OffersMade, MadeBySource, OffersTellTheirSource, ShownSource
<1>2. QED
  BY <1>1, OffersOfVersions, PTL

\* The version that the students of a published revision plan is one that was there
\* before the step.
LEMMA PlannedIsThere ==
  ASSUME CatalogueInv, CoursesDated, [Next]_<<catalogue, offerings>>, NEW r \in Imported, Published(r),
         NEW m \in revisions[r].memberships
  PROVE  \E d \in Nat : VersionPlanned(r, m.course)' = <<m.course, d>> /\ <<m.course, d>> \in DOMAIN versions
<1> DEFINE rows == {n \in revisions[r].memberships : n.course = m.course}
           dates == {n.from : n \in rows}
           known == {terms'[t].starts : t \in DOMAIN terms'}
           valid == {d \in dates : known # {} /\ d <= Min(known)}
           S == IF valid = {} THEN dates ELSE valid
<1>1. revisions'[r].memberships = revisions[r].memberships
  <2>1. CASE NextCatalogue
    BY <2>1, PublishedRowsStand DEF RevisionFields
  <2>2. CASE UNCHANGED catalogue
    BY <2>2 DEF catalogue
  <2>3. QED
    BY <2>1, <2>2 DEF Next, catalogue
<1>2. VersionPlanned(r, m.course)' = <<m.course, Max(S)>>
  BY <1>1 DEF VersionPlanned
<1>3. \A d \in dates : d \in Nat /\ <<m.course, d>> \in DOMAIN versions
  <2>1. ASSUME NEW n \in rows PROVE n.from \in Nat /\ <<m.course, n.from>> \in DOMAIN versions
    BY DEF CatalogueInv, VersionsThere, CoursesDated
  <2>2. QED
    BY <2>1
<1>4. IsFiniteSet(dates) /\ m.from \in dates
  <2> DEFINE f == [n \in rows |-> n.from]
  <2>1. f \in Surjection(rows, dates)
    BY DEF Surjection
  <2>2. IsFiniteSet(revisions[r].memberships) /\ rows \subseteq revisions[r].memberships
    BY DEF CoursesDated
  <2>3. m \in rows
    OBVIOUS
  <2> HIDE DEF f, rows
  <2>4. QED
    BY <2>1, <2>2, <2>3, FS_Subset, FS_Surjection
<1> HIDE DEF dates
<1>5. S \subseteq dates /\ S # {} /\ IsFiniteSet(S)
  <2>1. S \subseteq dates /\ S # {}
    BY <1>4
  <2> HIDE DEF S
  <2>2. QED
    BY <1>4, <2>1, FS_Subset
<1> HIDE DEF S
<1>6. Max(S) \in S
  <2> DEFINE after == {pair \in S \X S : pair[1] > pair[2]}
  <2>1. \A x, y \in S : <<x, y>> \in after <=> x > y
    OBVIOUS
  <2>2. S \subseteq Nat
    BY <1>3, <1>5
  <2>3. /\ after \in SUBSET (S \X S)
        /\ \A x, y, z \in S : <<x, y>> \in after /\ <<y, z>> \in after => <<x, z>> \in after
        /\ \A x \in S : <<x, x>> \notin after
        /\ \A x, y \in S : x # y => <<x, y>> \in after \/ <<y, x>> \in after
    BY <2>1, <2>2
  <2> HIDE DEF after
  <2>4. PICK x \in S : \A y \in S \ {x} : <<x, y>> \in after
    BY <1>5, <2>3, LastExists
  <2>5. ASSUME NEW y \in S PROVE x >= y
    <3>1. x \in Nat /\ y \in Nat
      BY <2>2
    <3>2. x = y \/ x > y
      BY <2>1, <2>4
    <3>3. QED
      BY <3>1, <3>2
  <2>6. QED
    BY <2>5 DEF Max
<1>7. QED
  BY <1>2, <1>3, <1>5, <1>6

\* The students of a published revision are told at once what a file says of their
\* courses, as long as the version they plan is the latest at the beginning of the term.
THEOREM StudentsAreTold == Spec => OffersReachStudents
<1>1. ASSUME CatalogueInv, CoursesDated, TermsKept, [Next]_<<catalogue, offerings>>,
             NEW o \in archive.offers, NEW campus, NEW at \in 1 .. now, ImportOffers(o, campus, at), NEW r, Published(r), NEW m \in revisions[r].memberships, m.course \in DOMAIN o.offers
      PROVE  Told(r, m.course, o)'
  <2>0. PICK c, v : c = m.course /\ v = VersionAt(c, o.starts)
    OBVIOUS
  <2> DEFINE place == <<v, o.term>>
  <2>1. r \in Imported /\ archive \in Archives
    BY <1>1 DEF Published, CatalogueInv, RevisionsTyped
  <2>2. /\ v \in Versions(c, o.starts) /\ (\A w \in Versions(c, o.starts) : v[2] >= w[2])
        /\ v[2] \in Nat /\ v[2] <= o.starts
        /\ offered'[place] = OfferAfter(o, c, at) /\ place \in DOMAIN offered' /\ o.term \in DOMAIN terms'
    <3>1. c \in DOMAIN o.offers
      BY <1>1, <2>0
    <3>2. DOMAIN offered' = {<<VersionAt(x, o.starts), o.term>> : x \in DOMAIN o.offers} \cup DOMAIN offered
          /\ DOMAIN terms' = DOMAIN terms \cup {o.term}
      BY <1>1, <2>1, OffersWritten, TermsWritten
    <3>3. place \in DOMAIN offered'
      BY <2>0, <3>1, <3>2
    <3>4. /\ v \in Versions(c, o.starts) /\ (\A w \in Versions(c, o.starts) : v[2] >= w[2])
          /\ v[2] \in Nat /\ v[2] <= o.starts /\ offered'[place] = OfferAfter(o, c, at)
      BY <1>1, <2>0, <2>1, <3>1, OffersWritten
    <3>5. QED
      BY <3>2, <3>3, <3>4
  <2>3. v = <<c, v[2]>>
    BY <1>1, <2>0, <2>2 DEF Versions, CoursesDated
  <2>4. DOMAIN versions \subseteq DOMAIN versions'
    <3>1. CASE NextCatalogue
      BY <1>1, <3>1, ImportOrQuiet, ImportedVersion DEF Quiet
    <3>2. CASE UNCHANGED catalogue
      BY <3>2 DEF catalogue
    <3>3. QED
      BY <1>1, <3>1, <3>2 DEF Next, catalogue
  <2>5. PICK d \in Nat : VersionPlanned(r, c)' = <<c, d>> /\ <<c, d>> \in DOMAIN versions
    BY <1>1, <2>0, <2>1, PlannedIsThere
  <2>6. o.starts \in Nat /\ Capture(o, at) # None /\ None # "CANCELLED"
    BY <1>1, <2>1, OfferAssumption, CaptureIsThere
  <2>7. ASSUME <<c, d>> \in Versions(c, o.starts)', \A w \in Versions(c, o.starts)' : w[2] <= <<c, d>>[2]
        PROVE  VersionPlanned(r, c)' = v
    <3>1. d <= o.starts
      BY <2>7 DEF Versions
    <3>2. <<c, d>> \in Versions(c, o.starts) /\ v \in Versions(c, o.starts)'
      BY <2>2, <2>3, <2>4, <2>5, <3>1 DEF Versions
    <3>3. v[2] <= d /\ d <= v[2]
      BY <2>2, <2>7, <3>2
    <3>4. v[2] = d
      BY <2>2, <3>3
    <3>5. QED
      BY <2>3, <2>5, <3>4
  <2>8. /\ offered'[place].source = Capture(o, at)
        /\ o.offers[c].status \in {None, offered'[place].status}
    BY <1>1, <2>0, <2>2, OfferAsSaid
  <2>9. MapVersion(c)' = v =>
            MapOffer(c, o.term)' = IF offered'[place].status = "CANCELLED" THEN "NOT_AVAILABLE" ELSE "AVAILABLE"
    BY <2>2 DEF MapOffer
  <2>10. VersionPlanned(r, c)' # v => Told(r, c, o)'
    BY <2>5, <2>7 DEF Told
  <2>11. ASSUME VersionPlanned(r, c)' = v PROVE Told(r, c, o)'
    <3> DEFINE state == OfferingState(<<VersionPlanned(r, c), o.term>>)
    <3>1. state' = IF offered'[place].status = "CANCELLED" THEN "NOT_OFFERED" ELSE "OFFERED"
      BY <2>2, <2>6, <2>8, <2>11 DEF OfferingState, ShownSource
    <3> HIDE DEF place, state
    <3>2. MapAgrees(c, VersionPlanned(r, c), o.term, state)'
      BY <2>9, <2>11, <3>1 DEF MapAgrees
    <3>3. QED
      BY <2>6, <2>8, <3>1, <3>2 DEF Told, state
  <2>12. QED
    BY <2>0, <2>10, <2>11
<1>2. CatalogueInv /\ CoursesDated /\ TermsKept /\ [Next]_<<catalogue, offerings>> =>
         [\A o \in archive.offers, r \in Keys :
             (\E campus \in Campuses \cup {None}, at \in 1..now : ImportOffers(o, campus, at)) /\ Published(r) =>
                \A c \in DOMAIN o.offers \cap {m.course : m \in revisions[r].memberships} : Told(r, c, o)']_<<catalogue, offerings>>
  BY <1>1
<1>3. QED
  BY <1>2, CatalogueIsTyped, OffersOfVersions, PTL DEF Spec, OffersReachStudents
=============================================================================
