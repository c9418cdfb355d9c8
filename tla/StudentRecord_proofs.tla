------------------------- MODULE StudentRecord_proofs -------------------------
(***************************************************************************)
(* Proofs about StudentRecord and StudentPages, for all curricula, records *)
(* and plans.                                                              *)
(***************************************************************************)
EXTENDS StudentPages, FiniteSetTheorems, WellFoundedInduction, TLAPS

-----------------------------------------------------------------------------
(* Numbers.                                                                *)

LEMMA LeastExists ==
  ASSUME NEW S \in SUBSET Nat, S # {}
  PROVE  \E n \in S : \A m \in S : n <= m
<1> DEFINE before == OpToRel(<, Nat)
<1>1. PICK n \in S : \A m \in S : ~(<<m, n>> \in before)
  BY NatLessThanWellFounded, WFMin
<1>2. before = {pair \in Nat \X Nat : pair[1] < pair[2]}
  BY DEF OpToRel
<1>3. ASSUME NEW m \in S PROVE n <= m
  <2>1. ~(m < n)
    BY <1>1, <1>2
  <2>2. QED
    BY <2>1
<1>4. QED
  BY <1>3

\* A finite set of numbers has a greatest one: of the sets that have none, look at
\* one with the fewest elements.
LEMMA GreatestExists ==
  ASSUME NEW S \in SUBSET Nat, IsFiniteSet(S), S # {}
  PROVE  \E n \in S : \A m \in S : m <= n
<1> DEFINE Topped(T) == \E n \in T : \A m \in T : m <= n
           bad == {n \in Nat : \E T \in SUBSET Nat :
                      IsFiniteSet(T) /\ T # {} /\ Cardinality(T) = n /\ ~Topped(T)}
<1>1. SUFFICES ASSUME bad # {} PROVE FALSE
  BY FS_CardinalityType
<1>2. PICK least \in bad : \A m \in bad : least <= m
  BY <1>1, LeastExists
<1>3. PICK T \in SUBSET Nat : IsFiniteSet(T) /\ T # {} /\ Cardinality(T) = least /\ ~Topped(T)
  BY <1>2
<1>4. PICK x \in T : TRUE
  BY <1>3
<1> DEFINE rest == T \ {x}
<1>5. IsFiniteSet(rest) /\ Cardinality(rest) = least - 1
  BY <1>3, <1>4, FS_RemoveElement
<1>6. rest # {}
  <2>1. ASSUME rest = {} PROVE FALSE
    <3>1. T = {x}
      BY <1>4, <2>1
    <3>2. QED
      BY <1>3, <1>4, <3>1
  <2>2. QED
    BY <2>1
<1>7. least - 1 \in Nat /\ least - 1 \notin bad
  <2>1. least \in Nat /\ least - 1 \in Nat
    BY <1>5, FS_CardinalityType
  <2>2. QED
    BY <1>2, <2>1
<1>8. PICK n \in rest : \A m \in rest : m <= n
  BY <1>5, <1>6, <1>7
<1>9. CASE n <= x
  <2>1. \A m \in T : m <= x
    BY <1>3, <1>4, <1>8, <1>9
  <2>2. QED
    BY <1>3, <1>4, <2>1
<1>10. CASE x <= n
  <2>1. \A m \in T : m <= n
    BY <1>3, <1>4, <1>8, <1>10
  <2>2. QED
    BY <1>3, <1>8, <2>1
<1>11. QED
  BY <1>3, <1>4, <1>8, <1>9, <1>10

LEMMA MaxOfTwo ==
  ASSUME NEW a \in Int, NEW b \in Int
  PROVE  Max({a, b}) = IF a <= b THEN b ELSE a
<1> DEFINE m == IF a <= b THEN b ELSE a
<1>1. m \in {a, b} /\ \A y \in {a, b} : m >= y
  OBVIOUS
<1>2. \A x \in {a, b} : (\A y \in {a, b} : x >= y) => x = m
  OBVIOUS
<1>3. QED
  BY <1>1, <1>2 DEF Max

LEMMA MinOfTwo ==
  ASSUME NEW a \in Int, NEW b \in Int
  PROVE  Min({a, b}) = IF a <= b THEN a ELSE b
<1> DEFINE m == IF a <= b THEN a ELSE b
<1>1. m \in {a, b} /\ \A y \in {a, b} : m <= y
  OBVIOUS
<1>2. \A x \in {a, b} : (\A y \in {a, b} : x <= y) => x = m
  OBVIOUS
<1>3. QED
  BY <1>1, <1>2 DEF Min

-----------------------------------------------------------------------------
(* Recursion.  A function whose value at a point depends on its values at  *)
(* points of less depth exists: its approximations, which are right up to  *)
(* some depth, agree where both are.                                       *)

Descends(S, depth, T, step) ==
    /\ depth \in [S -> Nat]
    /\ \A x \in S, g \in [S -> T] : step[x][g] \in T
    /\ \A x \in S, g \in [S -> T], h \in [S -> T] :
          (\A y \in S : depth[y] < depth[x] => g[y] = h[y]) => step[x][g] = step[x][h]

LEMMA RecursionIsSound ==
  ASSUME NEW S, NEW depth, NEW T, NEW t0 \in T, NEW step, Descends(S, depth, T, step)
  PROVE  \E f \in [S -> T] : \A x \in S : f[x] = step[x][f]
<1> USE DEF Descends
<1> DEFINE Right(n, g) == \A x \in S : depth[x] < n => g[x] = step[x][g]
           missing == {n \in Nat : ~\E g \in [S -> T] : Right(n, g)}
<1>1. \A n \in Nat : \E g \in [S -> T] : Right(n, g)
  <2>1. SUFFICES ASSUME missing # {} PROVE FALSE
    OBVIOUS
  <2>2. PICK n \in missing : \A m \in missing : n <= m
    BY <2>1, LeastExists
  <2>3. CASE n = 0
    <3>1. [x \in S |-> t0] \in [S -> T] /\ Right(0, [x \in S |-> t0])
      OBVIOUS
    <3>2. QED
      BY <2>2, <2>3, <3>1
  <2>4. CASE n # 0
    <3>1. n \in Nat /\ n - 1 \in Nat /\ n - 1 \notin missing
      BY <2>2, <2>4
    <3>2. PICK g \in [S -> T] : Right(n - 1, g)
      BY <3>1
    <3> DEFINE h == [x \in S |-> IF depth[x] = n - 1 THEN step[x][g] ELSE g[x]]
    <3>3. h \in [S -> T] /\ \A x \in S : h[x] = IF depth[x] = n - 1 THEN step[x][g] ELSE g[x]
      OBVIOUS
    <3> HIDE DEF h
    <3>4. ASSUME NEW x \in S, depth[x] < n PROVE h[x] = step[x][h]
      <4>1. depth[x] \in Nat /\ depth[x] <= n - 1
        BY <3>1, <3>4
      <4>2. \A y \in S : depth[y] < depth[x] => g[y] = h[y]
        BY <3>1, <3>3, <4>1
      <4>3. step[x][g] = step[x][h]
        BY <3>3, <4>2
      <4>4. h[x] = step[x][g]
        BY <3>1, <3>2, <3>3, <4>1
      <4>5. QED
        BY <4>3, <4>4
    <3>5. QED
      BY <2>2, <3>3, <3>4
  <2>5. QED
    BY <2>3, <2>4
<1>2. ASSUME NEW n \in Nat, NEW m \in Nat, NEW g \in [S -> T], NEW h \in [S -> T],
             Right(n, g), Right(m, h)
      PROVE  \A x \in S : depth[x] < n /\ depth[x] < m => g[x] = h[x]
  <2> DEFINE bad == {k \in Nat : \E x \in S : depth[x] = k /\ k < n /\ k < m /\ g[x] # h[x]}
  <2>1. SUFFICES ASSUME bad # {} PROVE FALSE
    OBVIOUS
  <2>2. PICK k \in bad : \A j \in bad : k <= j
    BY <2>1, LeastExists
  <2>3. PICK x \in S : depth[x] = k /\ k < n /\ k < m /\ g[x] # h[x]
    BY <2>2
  <2>4. ASSUME NEW y \in S, depth[y] < depth[x] PROVE g[y] = h[y]
    <3>1. depth[y] \in Nat /\ depth[y] < k /\ k \in Nat /\ depth[y] \notin bad
      BY <2>2, <2>3, <2>4
    <3>2. QED
      BY <2>3, <3>1
  <2>5. step[x][g] = step[x][h]
    BY <2>4
  <2>6. QED
    BY <1>2, <2>3, <2>5
<1> DEFINE Approximation(x) == CHOOSE g \in [S -> T] : Right(depth[x] + 1, g)
           f == [x \in S |-> Approximation(x)[x]]
<1>3. ASSUME NEW x \in S
      PROVE  Approximation(x) \in [S -> T] /\ Right(depth[x] + 1, Approximation(x))
  <2>1. \E g \in [S -> T] : Right(depth[x] + 1, g)
    <3>1. depth[x] + 1 \in Nat
      OBVIOUS
    <3> HIDE DEF Right
    <3>2. QED
      BY <1>1, <3>1
  <2>2. QED
    BY <2>1, Zenon
<1> HIDE DEF Approximation
<1>4. f \in [S -> T]
  BY <1>3
<1>5. ASSUME NEW x \in S PROVE f[x] = step[x][f]
  <2>1. \A y \in S : depth[y] < depth[x] => Approximation(x)[y] = f[y]
    <3>1. ASSUME NEW y \in S, depth[y] < depth[x] PROVE Approximation(x)[y] = Approximation(y)[y]
      <4>1. depth[y] < depth[x] + 1 /\ depth[y] < depth[y] + 1 /\ depth[x] + 1 \in Nat /\ depth[y] + 1 \in Nat
        BY <3>1
      <4> HIDE DEF Right
      <4>2. QED
        BY SMTT(60), <1>2, <1>3, <4>1
    <3>2. QED
      BY <3>1
  <2>2. step[x][Approximation(x)] = step[x][f]
    BY <1>3, <1>4, <2>1
  <2>3. Approximation(x)[x] = step[x][Approximation(x)]
    BY <1>3
  <2>4. QED
    BY <2>2, <2>3
<1>6. QED
  BY <1>4, <1>5

-----------------------------------------------------------------------------
(* Rules.                                                                  *)

\* What holds of a rule whenever it holds of the rules in it holds of all rules.
LEMMA RulesAreWellFounded ==
  ASSUME NEW Good,
         \A rule \in AuditRule : (\A child \in Children(rule) : child \in Good) => rule \in Good
  PROVE  AuditRule \subseteq Good
<1> DEFINE bad == {n \in Nat : \E rule \in AuditRule : Nesting[rule] = n /\ rule \notin Good}
<1>1. SUFFICES ASSUME NEW rule \in AuditRule, rule \notin Good PROVE FALSE
  OBVIOUS
<1>2. bad # {}
  BY <1>1, RulesAssumption
<1>3. PICK n \in bad : \A m \in bad : n <= m
  BY <1>2, LeastExists
<1>4. PICK least \in AuditRule : Nesting[least] = n /\ least \notin Good
  BY <1>3
<1>5. ASSUME NEW child \in Children(least) PROVE child \in Good
  <2>1. child \in AuditRule /\ Nesting[child] \in Nat /\ Nesting[child] < n
    BY <1>4, RulesAssumption
  <2>2. Nesting[child] \notin bad
    BY <1>3, <2>1
  <2>3. QED
    BY <2>1, <2>2
<1>6. QED
  BY <1>4, <1>5

\* The answer of a rule, given the answers of the rules in it.
Combined(rule, answer, leaf) ==
    CASE rule.kind = "ALL" -> CombineAll({answer[c] : c \in ToSet(rule.children)})
      [] rule.kind = "ANY" -> CombineAny({answer[c] : c \in ToSet(rule.children)})
      [] rule.kind = "NOT" -> Negate(answer[rule.child])
      [] OTHER             -> leaf[rule]

LEMMA AnswersExist ==
  ASSUME NEW leaf
  PROVE  \E answer : answer = [rule \in AuditRule |-> Combined(rule, answer, leaf)]
<1> DEFINE T    == Statuses \cup {leaf[r] : r \in AuditRule}
           step == [r \in AuditRule |-> [g \in [AuditRule -> T] |-> Combined(r, g, leaf)]]
<1>1. ASSUME NEW r \in AuditRule, NEW g \in [AuditRule -> T] PROVE step[r][g] \in T
  <2>1. step[r][g] = Combined(r, g, leaf)
    OBVIOUS
  <2>2. CASE r.kind = "ALL"
    BY <2>1, <2>2 DEF Combined, CombineAll, Statuses
  <2>3. CASE r.kind = "ANY"
    BY <2>1, <2>3 DEF Combined, CombineAny, Statuses
  <2>4. CASE r.kind = "NOT"
    <3>1. r.child \in AuditRule
      BY <2>4, RulesAssumption DEF Children
    <3>2. g[r.child] \in T
      BY <3>1
    <3>3. Negate(g[r.child]) \in T
      BY <3>2 DEF Negate, Statuses
    <3>4. QED
      BY <2>1, <2>4, <3>3 DEF Combined
  <2>5. CASE r.kind \notin {"ALL", "ANY", "NOT"}
    BY <2>1, <2>5 DEF Combined
  <2>6. QED
    BY <2>2, <2>3, <2>4, <2>5
<1>2. ASSUME NEW r \in AuditRule, NEW g \in [AuditRule -> T], NEW h \in [AuditRule -> T],
             \A y \in AuditRule : Nesting[y] < Nesting[r] => g[y] = h[y]
      PROVE  step[r][g] = step[r][h]
  <2>1. step[r][g] = Combined(r, g, leaf) /\ step[r][h] = Combined(r, h, leaf)
    OBVIOUS
  <2>2. \A child \in Children(r) : g[child] = h[child]
    BY <1>2, RulesAssumption
  <2>3. CASE r.kind \in {"ALL", "ANY"}
    <3>1. {g[c] : c \in ToSet(r.children)} = {h[c] : c \in ToSet(r.children)}
      BY <2>2, <2>3 DEF Children
    <3>2. QED
      BY <2>1, <2>3, <3>1 DEF Combined
  <2>4. CASE r.kind = "NOT"
    BY <2>1, <2>2, <2>4 DEF Combined, Children
  <2>5. CASE r.kind \notin {"ALL", "ANY", "NOT"}
    BY <2>1, <2>5 DEF Combined
  <2>6. QED
    BY <2>3, <2>4, <2>5
<1>3. Nesting \in [AuditRule -> Nat] /\ "UNKNOWN" \in T
  BY RulesAssumption DEF Statuses
<1>4. PICK f \in [AuditRule -> T] : \A x \in AuditRule : f[x] = step[x][f]
  <2> HIDE DEF step, T
  <2>3. Descends(AuditRule, Nesting, T, step)
    BY <1>1, <1>2, <1>3 DEF Descends
  <2>4. QED
    BY <1>3, <2>3, RecursionIsSound
<1>5. \A x \in AuditRule : f[x] = Combined(x, f, leaf)
  BY <1>4
<1>6. f = [x \in AuditRule |-> Combined(x, f, leaf)]
  BY <1>5
<1>7. QED
  BY <1>6

\* The audit's evaluator and the validator's answer a rule from the answers of its
\* parts, the same way.
LEMMA AnswersUnfold ==
  ASSUME NEW leaf, NEW answer,
         answer = CHOOSE a : a = [rule \in AuditRule |-> Combined(rule, a, leaf)]
  PROVE  answer = [rule \in AuditRule |-> Combined(rule, answer, leaf)]
BY AnswersExist, Zenon

Asked(facts) == CHOOSE a : a = [rule \in AuditRule |-> Combined(rule, a, [r \in AuditRule |-> Leaf(r, facts)])]

LEMMA EvaluateUnfolds ==
  ASSUME NEW facts
  PROVE  /\ Asked(facts) = [rule \in AuditRule |-> Combined(rule, Asked(facts), [r \in AuditRule |-> Leaf(r, facts)])]
         /\ \A rule : Evaluate(rule, facts) = Asked(facts)[rule]
<1>1. ASSUME NEW a
      PROVE  [rule \in AuditRule |-> Combined(rule, a, [r \in AuditRule |-> Leaf(r, facts)])] =
             [r \in AuditRule |->
                CASE r.kind = "ALL" -> CombineAll({a[c] : c \in ToSet(r.children)})
                  [] r.kind = "ANY" -> CombineAny({a[c] : c \in ToSet(r.children)})
                  [] r.kind = "NOT" -> Negate(a[r.child])
                  [] OTHER          -> Leaf(r, facts)]
  <2>1. ASSUME NEW r \in AuditRule
        PROVE  Combined(r, a, [q \in AuditRule |-> Leaf(q, facts)]) =
                CASE r.kind = "ALL" -> CombineAll({a[c] : c \in ToSet(r.children)})
                  [] r.kind = "ANY" -> CombineAny({a[c] : c \in ToSet(r.children)})
                  [] r.kind = "NOT" -> Negate(a[r.child])
                  [] OTHER          -> Leaf(r, facts)
    BY DEF Combined
  <2>2. QED
    BY <2>1, Zenon
<1>2. Asked(facts) =
        CHOOSE Answer : Answer =
             [r \in AuditRule |->
                CASE r.kind = "ALL" -> CombineAll({Answer[c] : c \in ToSet(r.children)})
                  [] r.kind = "ANY" -> CombineAny({Answer[c] : c \in ToSet(r.children)})
                  [] r.kind = "NOT" -> Negate(Answer[r.child])
                  [] OTHER          -> Leaf(r, facts)]
  BY <1>1, Zenon DEF Asked
<1>3. QED
  BY <1>2, AnswersUnfold, Zenon DEF Evaluate, Asked

\* Two collections of facts which differ in external requirements only, of which the
\* second knows more.
KnowsMore(f, g) ==
    /\ g.passed = f.passed /\ g.inProgress = f.inProgress /\ g.unknown = f.unknown
    /\ g.earned = f.earned /\ g.planTotal = f.planTotal /\ g.group = f.group
    /\ g.component = f.component /\ g.required = f.required /\ g.recognitions = f.recognitions
    /\ \A k \in Externals : f.external[k] # None => g.external[k] = f.external[k]

LEMMA LeafStands ==
  ASSUME NEW f, NEW g, KnowsMore(f, g), NEW rule \in AuditRule,
         rule.kind \notin {"ALL", "ANY", "NOT"}, Leaf(rule, f) # "UNKNOWN"
  PROVE  Leaf(rule, g) = Leaf(rule, f)
<1>1. rule.kind \in Kinds /\ (rule.kind = "EXTERNAL_REQUIREMENT" => rule.key \in Externals)
  BY RulesAssumption, ExternalsAssumption
<1>2. CASE rule.kind = "EXTERNAL_REQUIREMENT"
  <2>1. Leaf(rule, f) = IF f.external[rule.key] = None THEN "UNKNOWN" ELSE f.external[rule.key]
    BY <1>2 DEF Leaf
  <2>2. Leaf(rule, g) = IF g.external[rule.key] = None THEN "UNKNOWN" ELSE g.external[rule.key]
    BY <1>2 DEF Leaf
  <2>3. QED
    BY <1>1, <1>2, <2>1, <2>2 DEF KnowsMore
<1>3. CASE rule.kind # "EXTERNAL_REQUIREMENT"
  BY <1>1, <1>3 DEF Leaf, AboutCourses, AboutCredits, KnowsMore, Kinds
<1>4. QED
  BY <1>2, <1>3

\* What is answered without a missing fact stands when it is known.
LEMMA AnswersStand ==
  ASSUME NEW f, NEW g, KnowsMore(f, g)
  PROVE  \A rule \in AuditRule :
            Evaluate(rule, f) # "UNKNOWN" => Evaluate(rule, g) = Evaluate(rule, f)
<1> DEFINE Good == {rule \in AuditRule : Asked(f)[rule] # "UNKNOWN" => Asked(g)[rule] = Asked(f)[rule]}
           LeavesOf(h) == [r \in AuditRule |-> Leaf(r, h)]
<1>1. ASSUME NEW h, NEW rule \in AuditRule
      PROVE  Asked(h)[rule] = Combined(rule, Asked(h), LeavesOf(h))
  <2> DEFINE answers == Asked(h)
  <2>1. answers = [r \in AuditRule |-> Combined(r, answers, LeavesOf(h))]
    BY EvaluateUnfolds
  <2> HIDE DEF answers
  <2>2. answers[rule] = Combined(rule, answers, LeavesOf(h))
    BY <2>1, Zenon
  <2>3. QED
    BY <2>2 DEF answers
<1>2. ASSUME NEW rule \in AuditRule, \A child \in Children(rule) : child \in Good,
             Asked(f)[rule] # "UNKNOWN"
      PROVE  Asked(g)[rule] = Asked(f)[rule]
  <2>1. \A child \in Children(rule) : Asked(f)[child] # "UNKNOWN" => Asked(g)[child] = Asked(f)[child]
    BY <1>2
  <2>2. /\ Asked(f)[rule] = Combined(rule, Asked(f), LeavesOf(f))
        /\ Asked(g)[rule] = Combined(rule, Asked(g), LeavesOf(g))
    BY <1>1
  <2> DEFINE before == {Asked(f)[c] : c \in ToSet(rule.children)}
             after  == {Asked(g)[c] : c \in ToSet(rule.children)}
  <2>3. ASSUME rule.kind \in {"ALL", "ANY"}
        PROVE  /\ \A s \in before : s # "UNKNOWN" => s \in after
               /\ "UNKNOWN" \notin before => after = before
    <3>1. \A c \in ToSet(rule.children) : Asked(f)[c] # "UNKNOWN" => Asked(g)[c] = Asked(f)[c]
      BY <2>1, <2>3 DEF Children
    <3>2. QED
      BY <3>1
  <2>4. CASE rule.kind = "ALL"
    <3>1. Asked(f)[rule] = CombineAll(before) /\ Asked(g)[rule] = CombineAll(after)
      BY <2>2, <2>4 DEF Combined
    <3>2. "UNSATISFIED" \in before \/ "UNKNOWN" \notin before
      BY <1>2, <3>1 DEF CombineAll
    <3>3. CASE "UNSATISFIED" \in before
      BY <2>3, <2>4, <3>1, <3>3 DEF CombineAll
    <3>4. CASE "UNKNOWN" \notin before
      BY <2>3, <2>4, <3>1, <3>4
    <3>5. QED
      BY <3>2, <3>3, <3>4
  <2>5. CASE rule.kind = "ANY"
    <3>1. Asked(f)[rule] = CombineAny(before) /\ Asked(g)[rule] = CombineAny(after)
      BY <2>2, <2>5 DEF Combined
    <3>2. "SATISFIED" \in before \/ "UNKNOWN" \notin before
      BY <1>2, <3>1 DEF CombineAny
    <3>3. CASE "SATISFIED" \in before
      BY <2>3, <2>5, <3>1, <3>3 DEF CombineAny
    <3>4. CASE "UNKNOWN" \notin before
      BY <2>3, <2>5, <3>1, <3>4
    <3>5. QED
      BY <3>2, <3>3, <3>4
  <2>6. CASE rule.kind = "NOT"
    <3>1. /\ Asked(f)[rule] = Negate(Asked(f)[rule.child])
          /\ Asked(g)[rule] = Negate(Asked(g)[rule.child])
      BY <2>2, <2>6 DEF Combined
    <3>2. Asked(f)[rule.child] # "UNKNOWN"
      BY <1>2, <3>1 DEF Negate
    <3>3. Asked(g)[rule.child] = Asked(f)[rule.child]
      BY <2>1, <2>6, <3>2 DEF Children
    <3>4. QED
      BY <3>1, <3>3
  <2>7. CASE rule.kind \notin {"ALL", "ANY", "NOT"}
    <3>1. Asked(f)[rule] = Leaf(rule, f) /\ Asked(g)[rule] = Leaf(rule, g)
      BY <2>2, <2>7 DEF Combined
    <3>2. QED
      BY <1>2, <2>7, <3>1, LeafStands
  <2>8. QED
    BY <2>4, <2>5, <2>6, <2>7
<1>3. AuditRule \subseteq Good
  <2>1. \A rule \in AuditRule : (\A child \in Children(rule) : child \in Good) => rule \in Good
    BY <1>2
  <2> HIDE DEF Good
  <2>2. QED
    BY <2>1, RulesAreWellFounded
<1>4. QED
  BY <1>3, EvaluateUnfolds

-----------------------------------------------------------------------------
(* The schedule of a term.                                                 *)

\* The effective dates of a meeting are the dates of the term within its own limits.
LEMMA RangeIsCut ==
  ASSUME NEW m, IsMeeting(m), NEW term, IsTerm(term)
  PROVE  LET range == EffectiveRange(m, term) IN
         /\ range.first \in Int /\ range.last \in Int
         /\ \A d \in Int : d \in range.first..range.last <=>
               /\ d \in term.first..term.last
               /\ m.first = None \/ m.first <= d
               /\ m.last = None \/ d <= m.last
<1> DEFINE range == EffectiveRange(m, term)
<1>1. range.first \in Int /\ \A d \in Int : range.first <= d <=> term.first <= d /\ (m.first = None \/ m.first <= d)
  <2>1. CASE m.first = None
    BY <2>1 DEF EffectiveRange, IsTerm
  <2>2. CASE m.first # None
    <3>1. m.first \in Int /\ term.first \in Int
      BY <2>2 DEF IsMeeting, IsTerm
    <3>2. range.first = IF term.first <= m.first THEN m.first ELSE term.first
      BY <2>2, <3>1, MaxOfTwo DEF EffectiveRange
    <3>3. QED
      BY <2>2, <3>1, <3>2
  <2>3. QED
    BY <2>1, <2>2
<1>2. range.last \in Int /\ \A d \in Int : d <= range.last <=> d <= term.last /\ (m.last = None \/ d <= m.last)
  <2>1. CASE m.last = None
    BY <2>1 DEF EffectiveRange, IsTerm
  <2>2. CASE m.last # None
    <3>1. m.last \in Int /\ term.last \in Int
      BY <2>2 DEF IsMeeting, IsTerm
    <3>2. range.last = IF term.last <= m.last THEN term.last ELSE m.last
      BY <2>2, <3>1, MinOfTwo DEF EffectiveRange
    <3>3. QED
      BY <2>2, <3>1, <3>2
  <2>3. QED
    BY <2>1, <2>2
<1>3. term.first \in Int /\ term.last \in Int
  BY DEF IsTerm
<1>4. QED
  BY <1>1, <1>2, <1>3

\* From a date on, every seventh day after the first of its kind is of that day.
LEMMA EverySeventhDay ==
  ASSUME NEW day \in WeekDays, NEW from \in Int, NEW d \in Int
  PROVE  LET cursor == from + ((day - from) % 7) IN
         /\ cursor \in Int
         /\ (cursor <= d /\ (d - cursor) % 7 = 0) <=> (from <= d /\ d % 7 = day)
<1> DEFINE cursor == from + ((day - from) % 7)
<1>1. day \in 0..6
  BY DEF WeekDays
<1>2. cursor \in Int /\ from <= cursor /\ cursor < from + 7 /\ cursor % 7 = day
  BY <1>1
<1>3. ASSUME cursor <= d, (d - cursor) % 7 = 0 PROVE from <= d /\ d % 7 = day
  BY <1>2, <1>3
<1>4. ASSUME from <= d, d % 7 = day PROVE cursor <= d /\ (d - cursor) % 7 = 0
  BY <1>1, <1>2, <1>4
<1>5. QED
  BY <1>2, <1>3, <1>4

\* The occurrences of a meeting are the dates it takes place on.
LEMMA OccursOnItsDays ==
  ASSUME NEW m, IsMeeting(m), NEW term, IsTerm(term)
  PROVE  Occurrences(m, term) =
            {d \in term.first..term.last :
                d % 7 = m.day /\ (m.first = None \/ m.first <= d) /\ (m.last = None \/ d <= m.last)}
<1> DEFINE range == EffectiveRange(m, term)
           cursor == range.first + ((m.day - range.first) % 7)
<1>1. range.first \in Int /\ range.last \in Int /\ m.day \in Int
  BY RangeIsCut DEF IsMeeting
<1>2. \A d \in Int : d \in range.first..range.last <=>
         d \in term.first..term.last /\ (m.first = None \/ m.first <= d) /\ (m.last = None \/ d <= m.last)
  BY RangeIsCut
<1>3. CASE m.day \notin WeekDays
  <2>1. \A d \in Int : d % 7 # m.day
    BY <1>3 DEF WeekDays
  <2>2. Occurrences(m, term) = {}
    BY <1>3 DEF Occurrences
  <2>3. \A d \in term.first..term.last : d \in Int
    BY DEF IsTerm
  <2>4. QED
    BY <2>1, <2>2, <2>3
<1>4. CASE m.day \in WeekDays
  <2>1. Occurrences(m, term) = {d \in cursor..range.last : (d - cursor) % 7 = 0}
    BY <1>4 DEF Occurrences
  <2>2. cursor \in Int
    BY <1>1, <1>4, EverySeventhDay
  <2>3. ASSUME NEW d \in Int
        PROVE  (d \in cursor..range.last /\ (d - cursor) % 7 = 0) <=> (d \in range.first..range.last /\ d % 7 = m.day)
    <3>1. (cursor <= d /\ (d - cursor) % 7 = 0) <=> (range.first <= d /\ d % 7 = m.day)
      BY <1>1, <1>4, EverySeventhDay
    <3>2. (d \in cursor..range.last <=> cursor <= d /\ d <= range.last)
          /\ (d \in range.first..range.last <=> range.first <= d /\ d <= range.last)
      BY <1>1, <2>2
    <3>3. QED
      BY <3>1, <3>2
  <2>4. \A d \in term.first..term.last : d \in Int
    BY DEF IsTerm
  <2>5. \A d \in cursor..range.last : d \in Int
    BY <1>1, <2>2
  <2>6. QED
    BY <1>2, <2>1, <2>3, <2>4, <2>5
<1>5. QED
  BY <1>3, <1>4

\* The meeting of a date is going on at an instant.
Running(m, d, h) == d * Hours + m.starts <= h + m.zone /\ h + m.zone < d * Hours + m.ends

\* Meetings of two dates overlap exactly if there is an instant at which both go on, as
\* long as their zones are no more than a day apart.
LEMMA OverlapIsShared ==
  ASSUME NEW l, IsMeeting(l), l.zone # None, NEW r, IsMeeting(r), r.zone # None,
         l.zone - r.zone <= Hours, r.zone - l.zone <= Hours,
         NEW d \in Int, NEW e \in Int
  PROVE  Overlap(l, r, d, e) <=> \E h \in Int : Running(l, d, h) /\ Running(r, e, h)
<1> DEFINE ls == Instant(d, l.starts, l.zone)  le == Instant(d, l.ends, l.zone)
           rs == Instant(e, r.starts, r.zone)  re == Instant(e, r.ends, r.zone)
<1>1. /\ l.starts \in 0..24 /\ l.ends \in 0..24 /\ l.starts < l.ends /\ l.zone \in Int
      /\ r.starts \in 0..24 /\ r.ends \in 0..24 /\ r.starts < r.ends /\ r.zone \in Int
      /\ l.zone - r.zone <= 24 /\ r.zone - l.zone <= 24
  BY DEF IsMeeting, Hours
<1>2. /\ ls = d * 24 + l.starts - l.zone /\ le = d * 24 + l.ends - l.zone
      /\ rs = e * 24 + r.starts - r.zone /\ re = e * 24 + r.ends - r.zone
  BY DEF Instant, Hours
<1>3. \A h \in Int : /\ Running(l, d, h) <=> ls <= h /\ h < le
                     /\ Running(r, e, h) <=> rs <= h /\ h < re
  BY <1>1, <1>2 DEF Running, Hours
<1>4. ASSUME Overlap(l, r, d, e) PROVE \E h \in Int : Running(l, d, h) /\ Running(r, e, h)
  <2>1. ls < re /\ rs < le
    BY <1>4 DEF Overlap
  <2>2. CASE ls <= rs
    <3>1. rs \in Int /\ ls <= rs /\ rs < le /\ rs <= rs /\ rs < re
      BY <1>1, <1>2, <2>1, <2>2
    <3>2. QED
      BY <1>3, <3>1
  <2>3. CASE rs < ls
    <3>1. ls \in Int /\ ls <= ls /\ ls < le /\ rs <= ls /\ ls < re
      BY <1>1, <1>2, <2>1, <2>3
    <3>2. QED
      BY <1>3, <3>1
  <2>4. QED
    BY <1>1, <1>2, <2>2, <2>3
<1>5. ASSUME NEW h \in Int, Running(l, d, h), Running(r, e, h) PROVE Overlap(l, r, d, e)
  <2>1. ls <= h /\ h < le /\ rs <= h /\ h < re
    BY <1>3, <1>5
  <2>2. ls < re /\ rs < le
    BY SMTT(60), <1>1, <1>2, <2>1
  <2>3. d - e <= 1 /\ e - d <= 1
    BY <1>1, <1>2, <2>1
  <2>4. (IF d < e THEN e - d ELSE d - e) <= 1
    BY <2>3
  <2>5. QED
    BY <2>2, <2>4 DEF Overlap
<1>6. QED
  BY <1>4, <1>5

\* A meeting takes place at an instant if that of one of its occurrences is going on.
LEMMA MeetsOnOccurrence ==
  ASSUME NEW m, IsMeeting(m), NEW term, IsTerm(term), NEW h \in Int
  PROVE  Meets(m, h, term) <=> \E d \in Occurrences(m, term) : Running(m, d, h)
BY OccursOnItsDays DEF Meets, Running

\* The verdict on the schedule of a term says what is: across zones and midnight, for
\* meetings that share some of their weeks only, and if they follow each other.  Zones
\* may be up to a day apart, since dates further apart are not compared.
THEOREM VerdictsAreExact ==
  ASSUME NEW meetings, \A m \in meetings : IsMeeting(m), NEW term, IsTerm(term),
         ZonesClose(meetings)
  PROVE  SaysWhatIs(ScheduleState(meetings, term), meetings, term)
<1> DEFINE hours == ((term.first - 1) * Hours)..((term.last + 2) * Hours)
<1>1. CASE \E m \in meetings : ZoneMissing(m, term)
  BY <1>1 DEF ScheduleState, SaysWhatIs, ZoneMissing
<1>2. CASE ~\E m \in meetings : ZoneMissing(m, term)
  <2>1. ASSUME NEW m \in meetings, NEW d \in Occurrences(m, term)
        PROVE  d \in term.first..term.last /\ d \in Int /\ m.zone # None /\ m.zone \in (-12)..14
    <3>1. /\ d \in term.first..term.last
          /\ d % 7 = m.day /\ (m.first = None \/ m.first <= d) /\ (m.last = None \/ d <= m.last)
      BY <2>1, OccursOnItsDays
    <3>2. d \in Int
      BY <3>1 DEF IsTerm
    <3>3. m.day \in WeekDays
      BY <3>1, <3>2 DEF WeekDays
    <3>4. d \in EffectiveRange(m, term).first..EffectiveRange(m, term).last
      BY <3>1, <3>2, RangeIsCut
    <3>5. EffectiveRange(m, term).first <= EffectiveRange(m, term).last
      BY <3>2, <3>4, RangeIsCut
    <3>6. m.zone # None
      BY <1>2, <3>3, <3>5 DEF ZoneMissing
    <3>7. QED
      BY <3>1, <3>2, <3>6 DEF IsMeeting
  <2>2. ASSUME NEW l \in meetings, NEW r \in meetings, Conflict(l, r, term)
        PROVE  SectionsMeet(meetings, term)
    <3>1. PICK d \in Occurrences(l, term), e \in Occurrences(r, term) : Overlap(l, r, d, e)
      BY <2>2 DEF Conflict
    <3>2. PICK h \in Int : Running(l, d, h) /\ Running(r, e, h)
      BY <2>1, <3>1, OverlapIsShared DEF ZonesClose
    <3>3. h \in hours
      <4>1. /\ d \in Int /\ term.first <= d /\ d <= term.last /\ l.zone \in (-12)..14
            /\ l.starts \in 0..24 /\ l.ends \in 0..24 /\ term.first \in Int /\ term.last \in Int
        BY <2>1 DEF IsTerm, IsMeeting, Hours
      <4>2. d * 24 + l.starts <= h + l.zone /\ h + l.zone < d * 24 + l.ends
        BY <3>2 DEF Running, Hours
      <4>3. (term.first - 1) * 24 <= h /\ h <= (term.last + 2) * 24
        BY <4>1, <4>2
      <4>4. QED
        BY <4>1, <4>3 DEF Hours
    <3>4. Meets(l, h, term) /\ Meets(r, h, term)
      BY <3>1, <3>2, MeetsOnOccurrence
    <3>5. QED
      BY <2>2, <3>3, <3>4 DEF SectionsMeet, Conflict
  <2>3. ASSUME SectionsMeet(meetings, term) PROVE \E l, r \in meetings : Conflict(l, r, term)
    <3>1. PICK h \in hours, l \in meetings, r \in meetings :
             l.section # r.section /\ Meets(l, h, term) /\ Meets(r, h, term)
      BY <2>3 DEF SectionsMeet
    <3>2. h \in Int
      BY DEF IsTerm, Hours
    <3>3. PICK d \in Occurrences(l, term) : Running(l, d, h)
      BY <3>1, <3>2, MeetsOnOccurrence
    <3>4. PICK e \in Occurrences(r, term) : Running(r, e, h)
      BY <3>1, <3>2, MeetsOnOccurrence
    <3>5. Overlap(l, r, d, e)
      BY <2>1, <3>2, <3>3, <3>4, OverlapIsShared DEF ZonesClose
    <3>6. QED
      BY <3>1, <3>5 DEF Conflict
  <2>4. QED
    BY <1>2, <2>2, <2>3 DEF ScheduleState, SaysWhatIs
<1>3. QED
  BY <1>1, <1>2

-----------------------------------------------------------------------------
(* Types.                                                                  *)

LEMMA StudyIsSound ==
  ASSUME study \in Studies
  PROVE  /\ IsRevision(revision) /\ study.attempts \subseteq Attempts
         /\ study.recognitions \subseteq [course : Courses, credits : Nat]
         /\ study.externals \subseteq Externals
         /\ study.exceptions \subseteq [groups : SUBSET Groups, courses : SUBSET Courses]
BY StudiesAssumption DEF revision

LEMMA RecordStep ==
  ASSUME TypeOK, [Next]_vars
  PROVE  TypeOK' /\ study' = study
<1> USE DEF TypeOK
<1>1. CASE UNCHANGED vars
  BY <1>1 DEF vars, Records
<1>2. ASSUME NEW a \in study.attempts, RecordAttempt(a) PROVE TypeOK' /\ study' = study
  <2>1. a \in Attempts
    BY StudyIsSound
  <2>2. student' = [student EXCEPT !.attempts = @ \cup {a}] /\ study' = study /\ plan' = plan
    BY <1>2 DEF RecordAttempt
  <2>3. student' \in Records /\ student'.attempts = student.attempts \cup {a}
    BY <2>1, <2>2 DEF Records
  <2>4. IsFiniteSet(student'.attempts)
    BY <2>3, FS_AddElement
  <2>5. QED
    BY <2>2, <2>3, <2>4
<1>3. ASSUME NEW a \in student.attempts, PassAttempt(a) PROVE TypeOK' /\ study' = study
  <2> DEFINE passed == [a EXCEPT !.status = "PASSED"]
  <2>1. student' = [student EXCEPT !.attempts = (@ \ {a}) \cup {passed}] /\ study' = study /\ plan' = plan
    BY <1>3 DEF PassAttempt
  <2>2. a \in Attempts /\ passed \in Attempts
    <3>1. a \in Attempts
      BY DEF Records
    <3>2. QED
      BY <3>1 DEF Attempts, AttemptStatuses, AcceptedStatuses
  <2> HIDE DEF passed
  <2>3. student' \in Records /\ student'.attempts = (student.attempts \ {a}) \cup {passed}
    <3> DEFINE attempts == (student.attempts \ {a}) \cup {passed}
    <3>1. attempts \subseteq Attempts
      <4>1. student.attempts \subseteq Attempts
        BY DEF Records
      <4>2. QED
        BY <2>2, <4>1
    <3>2. student' = [student EXCEPT !.attempts = attempts]
      BY <2>1
    <3> HIDE DEF attempts
    <3>3. student' \in Records /\ student'.attempts = attempts
      BY <3>1, <3>2 DEF Records
    <3>4. QED
      BY <3>3 DEF attempts
  <2>4. IsFiniteSet(student'.attempts)
    <3>1. IsFiniteSet(student.attempts \ {a})
      BY FS_RemoveElement
    <3>2. IsFiniteSet((student.attempts \ {a}) \cup {passed})
      BY <3>1, FS_AddElement
    <3>3. QED
      BY <2>3, <3>2
  <2>5. QED
    BY <2>1, <2>3, <2>4
<1>4. ASSUME NEW r \in study.recognitions, Recognize(r.course, r.credits) PROVE TypeOK' /\ study' = study
  <2> DEFINE credits == Max({Known(student.recognition[r.course]), r.credits})
  <2>1. r.course \in Courses /\ r.credits \in Nat
    BY StudyIsSound
  <2>2. student' = [student EXCEPT !.recognition[r.course] = credits] /\ study' = study /\ plan' = plan
    BY <1>4 DEF Recognize
  <2>3. Known(student.recognition[r.course]) \in Nat
    BY <2>1 DEF Records, Known
  <2>4. credits \in Nat
    BY <2>1, <2>3, MaxOfTwo
  <2> HIDE DEF credits
  <2>5. student' \in Records /\ student'.attempts = student.attempts
    BY <2>1, <2>2, <2>4 DEF Records
  <2>6. QED
    BY <2>2, <2>5
<1>5. ASSUME NEW k \in study.externals, NEW s \in Statuses \ {"UNKNOWN"}, StateExternal(k, s)
      PROVE  TypeOK' /\ study' = study
  <2>1. k \in Externals
    BY StudyIsSound
  <2>2. student' = [student EXCEPT !.external[k] = s] /\ study' = study /\ plan' = plan
    BY <1>5 DEF StateExternal
  <2>3. student' \in Records /\ student'.attempts = student.attempts
    BY <2>1, <2>2 DEF Records
  <2>4. QED
    BY <2>2, <2>3
<1>6. ASSUME NEW scope \in study.exceptions, ApproveException(scope) PROVE TypeOK' /\ study' = study
  <2>1. scope \in [groups : SUBSET Groups, courses : SUBSET Courses]
    BY StudyIsSound
  <2> DEFINE waived == [groups  |-> student.waived.groups \cup scope.groups,
                        courses |-> student.waived.courses \cup scope.courses]
  <2>2. student' = [student EXCEPT !.waived = waived] /\ study' = study /\ plan' = plan
    BY <1>6 DEF ApproveException
  <2>3. waived \in [groups : SUBSET Groups, courses : SUBSET Courses]
    BY <2>1 DEF Records
  <2> HIDE DEF waived
  <2>4. student' \in Records /\ student'.attempts = student.attempts
    BY <2>2, <2>3 DEF Records
  <2>5. QED
    BY <2>2, <2>4
<1>7. ASSUME NEW item \in study.items, PlanCourse(item) PROVE TypeOK' /\ study' = study
  BY <1>7 DEF PlanCourse, Records
<1>8. ASSUME NEW item \in plan, UnplanCourse(item) PROVE TypeOK' /\ study' = study
  BY <1>8 DEF UnplanCourse, Records
<1>9. QED
  BY <1>1, <1>2, <1>3, <1>4, <1>5, <1>6, <1>7, <1>8 DEF Next

\* Every record and every plan is one of the study, well typed and finite.
THEOREM TypeCorrect == Spec => []TypeOK
<1>1. ASSUME Init PROVE TypeOK
  <2>1. NewStudent \in Records /\ IsFiniteSet(NewStudent.attempts)
    BY FS_EmptySet DEF NewStudent, Records
  <2>2. QED
    BY <1>1, <2>1 DEF Init, TypeOK
<1>2. TypeOK /\ [Next]_vars => TypeOK'
  BY RecordStep
<1>3. QED
  BY <1>1, <1>2, PTL DEF Spec

\* The plan is warned of exactly the clashes there are.
THEOREM ClashesReal == Spec => []ClashesAreReal
<1>1. ASSUME TypeOK PROVE ClashesAreReal
  <2>1. ASSUME NEW term \in DOMAIN study.calendar
        PROVE  SaysWhatIs(TermSchedule(plan, term, study.calendar),
                          UNION {item.meetings : item \in {i \in plan : i.term = term}},
                          study.calendar[term])
    <3> DEFINE meetings == UNION {item.meetings : item \in {i \in plan : i.term = term}}
    <3>1. study \in Studies /\ plan \subseteq study.items
      BY <1>1 DEF TypeOK
    <3>2. /\ IsTerm(study.calendar[term]) /\ ZonesClose(UNION {i.meetings : i \in study.items})
          /\ \A i \in study.items : \A m \in i.meetings : IsMeeting(m)
      BY <2>1, <3>1, StudiesAssumption DEF IsItem
    <3>3. \A m \in meetings : m \in UNION {i.meetings : i \in study.items} /\ IsMeeting(m)
      BY <3>1, <3>2
    <3>4. ZonesClose(meetings)
      BY <3>2, <3>3 DEF ZonesClose
    <3> HIDE DEF meetings
    <3>5. SaysWhatIs(ScheduleState(meetings, study.calendar[term]), meetings, study.calendar[term])
      BY <3>2, <3>3, <3>4, VerdictsAreExact
    <3>6. QED
      BY <3>5 DEF TermSchedule, meetings
  <2>2. QED
    BY <2>1 DEF ClashesAreReal
<1>2. QED
  BY <1>1, TypeCorrect, PTL

-----------------------------------------------------------------------------
(* The validator and the audit.                                            *)

Forecast(courses, term, history, total) ==
    CHOOSE a : a = [rule \in AuditRule |->
        Combined(rule, a, [r \in AuditRule |-> ExpectLeaf(r, courses, term, history, total)])]

LEMMA ExpectUnfolds ==
  ASSUME NEW courses, NEW term, NEW history, NEW total
  PROVE  /\ Forecast(courses, term, history, total) =
               [rule \in AuditRule |->
                  Combined(rule, Forecast(courses, term, history, total),
                           [r \in AuditRule |-> ExpectLeaf(r, courses, term, history, total)])]
         /\ \A rule : Expect(rule, courses, term, history, total) = Forecast(courses, term, history, total)[rule]
<1>1. ASSUME NEW a
      PROVE  [rule \in AuditRule |->
                 Combined(rule, a, [r \in AuditRule |-> ExpectLeaf(r, courses, term, history, total)])] =
             [r \in AuditRule |->
                CASE r.kind = "ALL" -> CombineAll({a[c] : c \in ToSet(r.children)})
                  [] r.kind = "ANY" -> CombineAny({a[c] : c \in ToSet(r.children)})
                  [] r.kind = "NOT" -> Negate(a[r.child])
                  [] OTHER          -> ExpectLeaf(r, courses, term, history, total)]
  <2>1. ASSUME NEW r \in AuditRule
        PROVE  Combined(r, a, [q \in AuditRule |-> ExpectLeaf(q, courses, term, history, total)]) =
                CASE r.kind = "ALL" -> CombineAll({a[c] : c \in ToSet(r.children)})
                  [] r.kind = "ANY" -> CombineAny({a[c] : c \in ToSet(r.children)})
                  [] r.kind = "NOT" -> Negate(a[r.child])
                  [] OTHER          -> ExpectLeaf(r, courses, term, history, total)
    BY DEF Combined
  <2>2. QED
    BY <2>1, Zenon
<1>2. Forecast(courses, term, history, total) =
        CHOOSE Answer : Answer =
             [r \in AuditRule |->
                CASE r.kind = "ALL" -> CombineAll({Answer[c] : c \in ToSet(r.children)})
                  [] r.kind = "ANY" -> CombineAny({Answer[c] : c \in ToSet(r.children)})
                  [] r.kind = "NOT" -> Negate(Answer[r.child])
                  [] OTHER          -> ExpectLeaf(r, courses, term, history, total)]
  BY <1>1, Zenon DEF Forecast
<1>3. QED
  BY <1>2, AnswersUnfold, Zenon DEF Expect, Forecast

\* The kinds of leaves that are about courses alone.
CourseKinds == {"COURSE_PASSED", "COURSE_PASSED_OR_IN_PROGRESS", "COREQUISITE",
                "MANDATORY_COURSES_COMPLETED", "UNKNOWN"}

OnlyStep(rule, only) ==
    CASE rule.kind \in {"ALL", "ANY", "NOT"} -> \A c \in Children(rule) : only[c]
      [] OTHER -> rule.kind \in CourseKinds

LEMMA OnlyIsBoolean ==
  ASSUME NEW rule, NEW only
  PROVE  OnlyStep(rule, only) \in BOOLEAN
<1>1. CASE rule.kind \in {"ALL", "ANY", "NOT"}
  <2>1. OnlyStep(rule, only) = (\A c \in Children(rule) : only[c])
    BY <1>1, Zenon DEF OnlyStep
  <2>2. (\A c \in Children(rule) : only[c]) \in BOOLEAN
    OBVIOUS
  <2>3. QED
    BY <2>1, <2>2, Zenon
<1>2. CASE rule.kind \notin {"ALL", "ANY", "NOT"}
  <2>1. OnlyStep(rule, only) = (rule.kind \in CourseKinds)
    BY <1>2, Zenon DEF OnlyStep
  <2>2. (rule.kind \in CourseKinds) \in BOOLEAN
    OBVIOUS
  <2>3. QED
    BY <2>1, <2>2, Zenon
<1>3. QED
  BY <1>1, <1>2, Zenon

LEMMA OnlyUnfolds ==
  \E only \in [AuditRule -> BOOLEAN] :
     /\ \A rule \in AuditRule : only[rule] = OnlyStep(rule, only)
     /\ \A rule : AboutCoursesOnly(rule) = only[rule]
<1> DEFINE Said(g) == [r \in AuditRule |-> g[r] = "yes"]
           step == [r \in AuditRule |-> [g \in [AuditRule -> {"yes", "no"}] |->
                       IF OnlyStep(r, Said(g)) THEN "yes" ELSE "no"]]
           body(g) == [r \in AuditRule |->
                          CASE r.kind \in {"ALL", "ANY", "NOT"} -> \A c \in Children(r) : g[c]
                            [] OTHER -> r.kind \in {"COURSE_PASSED", "COURSE_PASSED_OR_IN_PROGRESS", "COREQUISITE",
                                                   "MANDATORY_COURSES_COMPLETED", "UNKNOWN"}]
           only == CHOOSE g : g = body(g)
<1>1. ASSUME NEW r \in AuditRule, NEW g \in [AuditRule -> {"yes", "no"}]
      PROVE  step[r][g] = (IF OnlyStep(r, Said(g)) THEN "yes" ELSE "no") /\ step[r][g] \in {"yes", "no"}
  OBVIOUS
<1>2. ASSUME NEW r \in AuditRule, NEW g \in [AuditRule -> {"yes", "no"}],
             NEW h \in [AuditRule -> {"yes", "no"}],
             \A y \in AuditRule : Nesting[y] < Nesting[r] => g[y] = h[y]
      PROVE  step[r][g] = step[r][h]
  <2>1. \A c \in Children(r) : Said(g)[c] = Said(h)[c]
    BY <1>2, RulesAssumption
  <2> HIDE DEF Said
  <2>2. OnlyStep(r, Said(g)) = OnlyStep(r, Said(h))
    BY <2>1, Zenon DEF OnlyStep
  <2>3. QED
    BY <1>1, <2>2
<1> HIDE DEF step
<1>3. PICK answer \in [AuditRule -> {"yes", "no"}] : \A r \in AuditRule : answer[r] = step[r][answer]
  <2>1. Descends(AuditRule, Nesting, {"yes", "no"}, step)
    BY <1>1, <1>2, RulesAssumption DEF Descends
  <2>2. QED
    BY <2>1, RecursionIsSound
<1> DEFINE f == Said(answer)
<1>4. ASSUME NEW g, NEW r \in AuditRule PROVE body(g)[r] = OnlyStep(r, g)
  BY Zenon DEF OnlyStep, CourseKinds
<1>5. f = body(f)
  <2>1. ASSUME NEW r \in AuditRule PROVE f[r] = body(f)[r]
    <3>1. f[r] = (answer[r] = "yes")
      BY Zenon
    <3> HIDE DEF f
    <3>2. (answer[r] = "yes") = OnlyStep(r, f)
      <4>1. answer[r] = IF OnlyStep(r, f) THEN "yes" ELSE "no"
        BY <1>1, <1>3 DEF f
      <4>2. "yes" # "no" /\ OnlyStep(r, f) \in BOOLEAN
        BY OnlyIsBoolean, Zenon
      <4>3. CASE OnlyStep(r, f)
        BY <4>1, <4>2, <4>3, Zenon
      <4>4. CASE ~OnlyStep(r, f)
        BY <4>1, <4>2, <4>4, Zenon
      <4>5. QED
        BY <4>3, <4>4
    <3>3. body(f)[r] = OnlyStep(r, f)
      BY <1>4
    <3>4. QED
      BY <3>1, <3>2, <3>3, Zenon
  <2>2. QED
    BY <2>1
<1>6. only = body(only)
  BY <1>5, Zenon
<1>7. \A r \in AuditRule : only[r] = OnlyStep(r, only)
  BY <1>4, <1>6, Zenon
<1>8. only \in [AuditRule -> BOOLEAN]
  <2>1. \A r \in AuditRule : body(only)[r] \in BOOLEAN
    <3>1. \A r \in AuditRule : OnlyStep(r, only) \in BOOLEAN
      BY OnlyIsBoolean, Zenon
    <3>2. QED
      BY <1>4, <3>1, Zenon
  <2>2. body(only) = [r \in AuditRule |-> body(only)[r]]
    BY Zenon
  <2> HIDE DEF body
  <2>3. QED
    BY <1>6, <2>1, <2>2
<1>9. \A rule : AboutCoursesOnly(rule) = only[rule]
  BY Zenon DEF AboutCoursesOnly
<1>10. QED
  BY <1>7, <1>8, <1>9, Zenon

-----------------------------------------------------------------------------
(* The ledger.                                                             *)

LEMMA MinInSet ==
  ASSUME NEW S \in SUBSET Nat, S # {}
  PROVE  Min(S) \in S /\ \A m \in S : Min(S) <= m
<1>1. PICK n \in S : \A m \in S : n <= m
  BY LeastExists
<1>2. QED
  BY <1>1, Zenon DEF Min

LEMMA MaxInSet ==
  ASSUME NEW S \in SUBSET Nat, IsFiniteSet(S), S # {}
  PROVE  Max(S) \in S
<1>1. PICK n \in S : \A m \in S : m <= n
  BY GreatestExists
<1>2. \A m \in S : n >= m
  BY <1>1
<1>3. QED
  BY <1>2, Zenon DEF Max

\* What a course counts for.
WorthOf(r, s, c) == IF c \in Passed(s) THEN Known(EarnedCredits(r, s, c)) ELSE 0

LEMMA WorthIsNat ==
  ASSUME NEW r, IsRevision(r), NEW s, IsRecord(s), NEW c \in Courses
  PROVE  WorthOf(r, s, c) \in Nat /\ Known(EarnedCredits(r, s, c)) \in Nat
<1> DEFINE accepted == Accepted(s, c)
           credits  == {Known(a.credits) : a \in accepted}
           of       == [a \in accepted |-> Known(a.credits)]
<1>1. accepted \subseteq s.attempts /\ s.attempts \subseteq Attempts
  BY DEF Accepted, IsRecord, Records
<1>2. \A a \in accepted : Known(a.credits) \in Nat
  BY <1>1 DEF Attempts, Known
<1>3. IsFiniteSet(accepted)
  BY <1>1, FS_Subset DEF IsRecord
<1>4. of \in Surjection(accepted, credits)
  BY DEF Surjection
<1>5. IsFiniteSet(credits)
  BY <1>3, <1>4, FS_Surjection
<1>6. credits \in SUBSET Nat
  BY <1>2
<1> HIDE DEF credits
<1>7. IsFiniteSet(credits \cup {0}) /\ credits \cup {0} \in SUBSET Nat /\ credits \cup {0} # {}
  BY <1>5, <1>6, FS_AddElement
<1>8. {0} \cup credits = credits \cup {0}
  OBVIOUS
<1>9. BestCredits(s, c) \in Nat
  BY <1>7, <1>8, MaxInSet DEF BestCredits, credits
<1>10. r.credits[c] \in Nat \cup {None} /\ s.recognition[c] \in Nat \cup {None}
  BY DEF IsRevision, IsRecord, Records
<1>11. EarnedCredits(r, s, c) \in Nat \cup {None}
  BY <1>9, <1>10 DEF EarnedCredits
<1>12. QED
  BY <1>11 DEF WorthOf, Known

Ledgers(r) == {a \in [Groups -> Nat] : \A g \in Groups : a[g] <= r.groups[g].required}

\* A course of some worth is added to the ledger.
Added(r, a, c, worth) ==
    IF Candidates(r, a, c) = {} THEN a
    ELSE [a EXCEPT ![Min(Candidates(r, a, c))] =
             @ + Min({worth, r.groups[Min(Candidates(r, a, c))].required - a[Min(Candidates(r, a, c))]})]

LEMMA CandidatesAreGroups ==
  ASSUME NEW r, IsRevision(r), NEW a, NEW c
  PROVE  Candidates(r, a, c) \subseteq Groups
BY DEF Candidates, MandatoryGroups, Needing, GroupsOf, IsRevision, IsMembership

LEMMA AddedTo ==
  ASSUME NEW r, IsRevision(r), NEW a \in Ledgers(r), NEW c, NEW worth \in Nat
  PROVE  /\ Added(r, a, c, worth) \in Ledgers(r)
         /\ \A g \in Groups :
               /\ Added(r, a, c, worth)[g] >= a[g]
               /\ Candidates(r, a, c) = {} \/ g # Min(Candidates(r, a, c)) => Added(r, a, c, worth)[g] = a[g]
               /\ Candidates(r, a, c) # {} /\ g = Min(Candidates(r, a, c)) =>
                     Added(r, a, c, worth)[g] = IF a[g] + worth <= r.groups[g].required THEN a[g] + worth
                                                ELSE r.groups[g].required
         /\ worth = 0 => Added(r, a, c, worth) = a
<1> DEFINE K == Candidates(r, a, c)
           m == Min(K)
<1>1. a \in [Groups -> Nat] /\ \A g \in Groups : a[g] <= r.groups[g].required /\ r.groups[g].required \in Nat
  BY DEF Ledgers, IsRevision
<1>2. CASE K = {}
  <2>1. Added(r, a, c, worth) = a
    BY <1>2 DEF Added
  <2>2. QED
    BY <1>1, <1>2, <2>1
<1>3. CASE K # {}
  <2>1. m \in Groups
    <3>1. K \subseteq Nat /\ K \subseteq Groups
      BY CandidatesAreGroups, NumbersAssumption DEF Groups
    <3> HIDE DEF K
    <3>2. QED
      BY <1>3, <3>1, MinInSet
  <2> DEFINE room == r.groups[m].required - a[m]
             most == Min({worth, room})
  <2>2. room \in Nat
    BY <1>1, <2>1
  <2>3. most = IF worth <= room THEN worth ELSE room
    BY <2>2, MinOfTwo
  <2>4. Added(r, a, c, worth) = [a EXCEPT ![m] = a[m] + most]
    BY <1>3, Zenon DEF Added
  <2> HIDE DEF K, m, most
  <2>5. most \in Nat /\ a[m] + most \in Nat
        /\ a[m] + most = IF a[m] + worth <= r.groups[m].required THEN a[m] + worth ELSE r.groups[m].required
    BY <1>1, <2>1, <2>2, <2>3
  <2>6. Added(r, a, c, worth) \in [Groups -> Nat]
        /\ \A g \in Groups : Added(r, a, c, worth)[g] = IF g = m THEN a[m] + most ELSE a[g]
    BY <1>1, <2>1, <2>4, <2>5
  <2>7. Added(r, a, c, worth) \in Ledgers(r)
    BY <1>1, <2>1, <2>5, <2>6 DEF Ledgers
  <2>8. worth = 0 => Added(r, a, c, worth) = a
    BY <1>1, <2>1, <2>2, <2>3, <2>6
  <2>9. \A g \in Groups :
               /\ Added(r, a, c, worth)[g] >= a[g]
               /\ K = {} \/ g # m => Added(r, a, c, worth)[g] = a[g]
               /\ K # {} /\ g = m =>
                     Added(r, a, c, worth)[g] = IF a[g] + worth <= r.groups[g].required THEN a[g] + worth
                                                ELSE r.groups[g].required
    BY <1>1, <1>3, <2>1, <2>5, <2>6
  <2>10. QED
    BY <2>7, <2>8, <2>9 DEF K, m
<1>4. QED
  BY <1>2, <1>3

\* The group that a course with less behind it counts for is full already, or counts
\* the course with more behind it as well.
LEMMA SameGroup ==
  ASSUME NEW r, IsRevision(r), NEW a \in Ledgers(r), NEW b \in Ledgers(r), NEW c,
         \A g \in Groups : a[g] <= b[g],
         Candidates(r, a, c) # {}, b[Min(Candidates(r, a, c))] < r.groups[Min(Candidates(r, a, c))].required
  PROVE  Candidates(r, b, c) # {} /\ Min(Candidates(r, b, c)) = Min(Candidates(r, a, c))
<1> DEFINE J == Candidates(r, a, c)
           K == Candidates(r, b, c)
           g == Min(J)
<1>1. J \subseteq Groups /\ K \subseteq Groups /\ Groups \subseteq Nat
  BY CandidatesAreGroups, NumbersAssumption DEF Groups
<1>2. /\ \A h \in Groups : a[h] \in Nat /\ b[h] \in Nat /\ a[h] <= b[h] /\ r.groups[h].required \in Nat
      /\ GroupsOf(r, c) \subseteq Groups
  BY DEF Ledgers, IsRevision, IsMembership, GroupsOf
<1>3. g \in J /\ \A h \in J : g <= h
  <2> HIDE DEF J
  <2>1. QED
    BY <1>1, MinInSet DEF J
<1>4. ASSUME NEW S \in SUBSET Groups
      PROVE  /\ Needing(r, b, S) \subseteq Needing(r, a, S)
             /\ g \in Needing(r, a, S) => g \in Needing(r, b, S)
  BY <1>2 DEF Needing
<1>5. K \subseteq J /\ g \in K
  <2> DEFINE open == {h \in Groups : r.groups[h].open}
  <2> HIDE DEF g
  <2>1. CASE MandatoryGroups(r, c) # {}
    BY <1>3, <2>1 DEF Candidates
  <2>2. CASE MandatoryGroups(r, c) = {} /\ Needing(r, a, GroupsOf(r, c)) # {}
    <3>1. J = Needing(r, a, GroupsOf(r, c))
      BY <2>2 DEF Candidates
    <3>2. g \in Needing(r, b, GroupsOf(r, c))
      BY <1>2, <1>3, <1>4, <3>1
    <3>3. K = Needing(r, b, GroupsOf(r, c))
      BY <2>2, <3>2 DEF Candidates
    <3>4. QED
      BY <1>2, <1>4, <3>1, <3>2, <3>3
  <2>3. CASE MandatoryGroups(r, c) = {} /\ Needing(r, a, GroupsOf(r, c)) = {}
    <3>1. J = Needing(r, a, open)
      BY <2>3 DEF Candidates
    <3>2. Needing(r, b, GroupsOf(r, c)) = {}
      BY <1>2, <1>4, <2>3
    <3>3. K = Needing(r, b, open)
      BY <2>3, <3>2 DEF Candidates
    <3>4. open \in SUBSET Groups
      OBVIOUS
    <3> HIDE DEF open
    <3>5. QED
      BY <1>3, <1>4, <3>1, <3>3, <3>4
  <2>4. QED
    BY <2>1, <2>2, <2>3
<1>6. Min(K) = g
  <2> HIDE DEF J, K, g
  <2>1. Min(K) \in K /\ \A h \in K : Min(K) <= h
    BY <1>1, <1>5, MinInSet
  <2>2. Min(K) \in Nat /\ g \in Nat
    BY <1>1, <1>3, <2>1
  <2>3. g <= Min(K) /\ Min(K) <= g
    BY <1>3, <1>5, <2>1
  <2>4. QED
    BY <2>2, <2>3
<1>7. QED
  BY <1>5, <1>6

LEMMA AddedGrows ==
  ASSUME NEW r, IsRevision(r), NEW a \in Ledgers(r), NEW b \in Ledgers(r), NEW c,
         NEW v \in Nat, NEW w \in Nat, v <= w, \A g \in Groups : a[g] <= b[g]
  PROVE  \A g \in Groups : Added(r, a, c, v)[g] <= Added(r, b, c, w)[g]
<1> DEFINE J == Candidates(r, a, c)
<1>1. SUFFICES ASSUME NEW g \in Groups PROVE Added(r, a, c, v)[g] <= Added(r, b, c, w)[g]
  OBVIOUS
<1>2. /\ a[g] \in Nat /\ b[g] \in Nat /\ r.groups[g].required \in Nat /\ a[g] <= r.groups[g].required
      /\ Added(r, a, c, v)[g] \in Nat /\ Added(r, b, c, w)[g] \in Nat
      /\ Added(r, a, c, v)[g] <= r.groups[g].required
  BY AddedTo DEF Ledgers, IsRevision
<1>3. Added(r, b, c, w)[g] >= b[g]
  BY AddedTo
<1>4. CASE J = {} \/ g # Min(J)
  <2>1. Added(r, a, c, v)[g] = a[g]
    BY <1>4, AddedTo
  <2>2. QED
    BY <1>2, <1>3, <2>1
<1>5. CASE J # {} /\ g = Min(J) /\ b[g] >= r.groups[g].required
  BY <1>2, <1>3, <1>5
<1>6. CASE J # {} /\ g = Min(J) /\ ~(b[g] >= r.groups[g].required)
  <2>1. b[g] < r.groups[g].required
    BY <1>2, <1>6
  <2>2. Candidates(r, b, c) # {} /\ g = Min(Candidates(r, b, c))
    BY <1>6, <2>1, SameGroup
  <2>3. Added(r, a, c, v)[g] = IF a[g] + v <= r.groups[g].required THEN a[g] + v ELSE r.groups[g].required
    BY <1>6, AddedTo
  <2>4. Added(r, b, c, w)[g] = IF b[g] + w <= r.groups[g].required THEN b[g] + w ELSE r.groups[g].required
    BY <2>2, AddedTo
  <2>5. QED
    BY <1>2, <2>3, <2>4
<1>7. QED
  BY <1>4, <1>5, <1>6

Untouched == [g \in Groups |-> 0]

LedgerStep(r, s, n, before) ==
    IF n = 0 THEN Untouched ELSE IF n \in Passed(s) THEN Allocate(r, s, before, n) ELSE before

\* The ledger after each course.
AfterCourse(r, s) == CHOOSE A : A = [n \in 0..NumCourses |-> LedgerStep(r, s, n, A[n - 1])]

LEMMA StepAdds ==
  ASSUME NEW r, IsRevision(r), NEW s, IsRecord(s), NEW a \in Ledgers(r), NEW n \in Courses
  PROVE  LedgerStep(r, s, n, a) = Added(r, a, n, WorthOf(r, s, n)) /\ LedgerStep(r, s, n, a) \in Ledgers(r)
<1>1. n # 0 /\ n \in Nat
  BY NumbersAssumption DEF Courses
<1>2. WorthOf(r, s, n) \in Nat
  BY WorthIsNat
<1>3. CASE n \in Passed(s)
  <2>1. WorthOf(r, s, n) = Known(EarnedCredits(r, s, n))
    BY <1>3 DEF WorthOf
  <2>2. LedgerStep(r, s, n, a) = Allocate(r, s, a, n)
    BY <1>1, <1>3 DEF LedgerStep
  <2>3. Allocate(r, s, a, n) = Added(r, a, n, Known(EarnedCredits(r, s, n)))
    BY Zenon DEF Allocate, Added
  <2>4. QED
    BY <1>2, <2>1, <2>2, <2>3, AddedTo
<1>4. CASE n \notin Passed(s)
  <2>1. WorthOf(r, s, n) = 0
    BY <1>4 DEF WorthOf
  <2>2. LedgerStep(r, s, n, a) = a
    BY <1>1, <1>4 DEF LedgerStep
  <2>3. QED
    BY <1>2, <2>1, <2>2, AddedTo
<1>5. QED
  BY <1>3, <1>4

LEMMA LedgerExists ==
  ASSUME NEW r, IsRevision(r), NEW s, IsRecord(s)
  PROVE  \E f : f = [n \in 0..NumCourses |-> LedgerStep(r, s, n, f[n - 1])]
<1> DEFINE S     == 0..NumCourses
           depth == [n \in S |-> n]
           step  == [n \in S |-> [g \in [S -> Ledgers(r)] |-> LedgerStep(r, s, n, g[n - 1])]]
<1>1. Untouched \in Ledgers(r)
  BY DEF Untouched, Ledgers, IsRevision
<1>2. \A n \in S : n \in Nat /\ (n # 0 => n - 1 \in S /\ n \in Courses /\ depth[n - 1] < depth[n])
  BY NumbersAssumption DEF Courses
<1>3. ASSUME NEW n \in S, NEW g \in [S -> Ledgers(r)] PROVE step[n][g] \in Ledgers(r)
  <2>1. step[n][g] = LedgerStep(r, s, n, g[n - 1])
    OBVIOUS
  <2>2. CASE n = 0
    BY <1>1, <2>1, <2>2 DEF LedgerStep
  <2>3. CASE n # 0
    <3>1. g[n - 1] \in Ledgers(r) /\ n \in Courses
      BY <1>2, <2>3
    <3>2. QED
      BY <2>1, <3>1, StepAdds
  <2>4. QED
    BY <2>2, <2>3
<1>4. ASSUME NEW n \in S, NEW g \in [S -> Ledgers(r)], NEW h \in [S -> Ledgers(r)],
             \A m \in S : depth[m] < depth[n] => g[m] = h[m]
      PROVE  step[n][g] = step[n][h]
  <2>1. step[n][g] = LedgerStep(r, s, n, g[n - 1]) /\ step[n][h] = LedgerStep(r, s, n, h[n - 1])
    OBVIOUS
  <2>2. CASE n = 0
    BY <2>1, <2>2 DEF LedgerStep
  <2>3. CASE n # 0
    <3>1. g[n - 1] = h[n - 1]
      BY <1>2, <1>4, <2>3
    <3>2. QED
      BY <2>1, <3>1
  <2>4. QED
    BY <2>2, <2>3
<1>5. depth \in [S -> Nat]
  BY <1>2
<1>6. PICK f \in [S -> Ledgers(r)] : \A n \in S : f[n] = step[n][f]
  <2> HIDE DEF S, depth, step
  <2>1. Descends(S, depth, Ledgers(r), step)
    BY <1>3, <1>4, <1>5 DEF Descends
  <2>2. QED
    BY <1>1, <2>1, RecursionIsSound
<1>7. f = [n \in S |-> LedgerStep(r, s, n, f[n - 1])]
  BY <1>6
<1>8. QED
  BY <1>7

LEMMA LedgerUnfolds ==
  ASSUME NEW r, IsRevision(r), NEW s, IsRecord(s)
  PROVE  /\ AfterCourse(r, s) \in [0..NumCourses -> Ledgers(r)]
         /\ AfterCourse(r, s)[0] = Untouched
         /\ \A n \in Courses : AfterCourse(r, s)[n] = Added(r, AfterCourse(r, s)[n - 1], n, WorthOf(r, s, n))
         /\ GroupApplied(r, s) = AfterCourse(r, s)[NumCourses]
<1> DEFINE A == AfterCourse(r, s)
<1>1. A = [n \in 0..NumCourses |-> LedgerStep(r, s, n, A[n - 1])]
  <2>1. \E f : f = [n \in 0..NumCourses |-> LedgerStep(r, s, n, f[n - 1])]
    BY LedgerExists
  <2>2. QED
    BY <2>1, Zenon DEF AfterCourse
<1>2. GroupApplied(r, s) = A[NumCourses]
  BY Zenon DEF GroupApplied, AfterCourse, LedgerStep, Untouched
<1> HIDE DEF A
<1>3. \A n \in 0..NumCourses : A[n] = LedgerStep(r, s, n, A[n - 1])
  BY <1>1, Zenon
<1>4. A[0] = Untouched
  <2>1. 0 \in 0..NumCourses
    BY NumbersAssumption
  <2>2. QED
    BY <1>3, <2>1, Zenon DEF LedgerStep
<1>5. Untouched \in Ledgers(r)
  BY DEF Untouched, Ledgers, IsRevision
<1>6. \A n \in 0..NumCourses : A[n] \in Ledgers(r)
  <2> DEFINE bad == {n \in 0..NumCourses : A[n] \notin Ledgers(r)}
  <2>1. SUFFICES ASSUME bad # {} PROVE FALSE
    OBVIOUS
  <2>2. bad \in SUBSET Nat
    BY NumbersAssumption
  <2>3. PICK n \in bad : \A m \in bad : n <= m
    BY <2>1, <2>2, LeastExists
  <2>4. n # 0
    BY <1>4, <1>5, <2>3
  <2>5. n \in Courses /\ n - 1 \in 0..NumCourses /\ n - 1 \notin bad /\ n \in 0..NumCourses
    BY <2>3, <2>4, NumbersAssumption DEF Courses
  <2>6. A[n - 1] \in Ledgers(r)
    BY <2>5
  <2>7. LedgerStep(r, s, n, A[n - 1]) \in Ledgers(r)
    BY <2>5, <2>6, StepAdds
  <2>8. QED
    BY <1>3, <2>3, <2>5, <2>7
<1>7. \A n \in Courses : A[n] = Added(r, A[n - 1], n, WorthOf(r, s, n))
  <2>1. ASSUME NEW n \in Courses PROVE A[n] = Added(r, A[n - 1], n, WorthOf(r, s, n))
    <3>1. n \in 0..NumCourses /\ n - 1 \in 0..NumCourses
      BY NumbersAssumption DEF Courses
    <3>2. QED
      BY <1>3, <1>6, <3>1, StepAdds
  <2>2. QED
    BY <2>1
<1>8. A \in [0..NumCourses -> Ledgers(r)]
  BY <1>1, <1>6
<1>9. QED
  BY <1>2, <1>4, <1>7, <1>8 DEF A

\* If no course is worth less, no group has fewer credits.
LEMMA LedgerGrows ==
  ASSUME NEW r, IsRevision(r), NEW s, IsRecord(s), NEW t, IsRecord(t),
         \A c \in Courses : WorthOf(r, s, c) <= WorthOf(r, t, c)
  PROVE  \A g \in Groups : GroupApplied(r, s)[g] <= GroupApplied(r, t)[g]
<1> DEFINE A == AfterCourse(r, s)
           B == AfterCourse(r, t)
           Below(n) == \A g \in Groups : A[n][g] <= B[n][g]
           bad == {n \in 0..NumCourses : ~Below(n)}
<1>1. /\ A \in [0..NumCourses -> Ledgers(r)] /\ A[0] = Untouched
      /\ \A n \in Courses : A[n] = Added(r, A[n - 1], n, WorthOf(r, s, n))
      /\ GroupApplied(r, s) = A[NumCourses]
  BY LedgerUnfolds
<1>2. /\ B \in [0..NumCourses -> Ledgers(r)] /\ B[0] = Untouched
      /\ \A n \in Courses : B[n] = Added(r, B[n - 1], n, WorthOf(r, t, n))
      /\ GroupApplied(r, t) = B[NumCourses]
  BY LedgerUnfolds
<1> HIDE DEF A, B
<1>3. bad = {}
  <2>1. SUFFICES ASSUME bad # {} PROVE FALSE
    OBVIOUS
  <2>2. bad \in SUBSET Nat
    BY NumbersAssumption
  <2> HIDE DEF bad
  <2>3. PICK n \in bad : \A m \in bad : n <= m
    BY <2>1, <2>2, LeastExists
  <2> USE DEF bad
  <2>4. n # 0
    BY <1>1, <1>2, <2>3 DEF Untouched
  <2>5. n \in Courses /\ n - 1 \in 0..NumCourses /\ n - 1 \notin bad
    BY <2>3, <2>4, NumbersAssumption DEF Courses
  <2>6. Below(n - 1) /\ A[n - 1] \in Ledgers(r) /\ B[n - 1] \in Ledgers(r)
    BY <1>1, <1>2, <2>5
  <2>7. WorthOf(r, s, n) \in Nat /\ WorthOf(r, t, n) \in Nat /\ WorthOf(r, s, n) <= WorthOf(r, t, n)
    BY <2>5, WorthIsNat
  <2>8. \A g \in Groups : Added(r, A[n - 1], n, WorthOf(r, s, n))[g] <= Added(r, B[n - 1], n, WorthOf(r, t, n))[g]
    BY <2>6, <2>7, AddedGrows
  <2>9. Below(n)
    BY <1>1, <1>2, <2>5, <2>8
  <2>10. QED
    BY <2>3, <2>9
<1>4. NumCourses \in 0..NumCourses
  BY NumbersAssumption
<1>5. QED
  BY <1>1, <1>2, <1>3, <1>4

\* As long as no course loses credits, no group does, although one course may push
\* another out of its group.
THEOREM CreditsGrow == Spec => CreditsOnlyGrow
<1> DEFINE Grows ==
       LET before == GroupApplied(revision, student)
           after  == GroupApplied(revision, student')
       IN student' # student /\ (\A c \in Courses : Worth(c)' >= Worth(c)) =>
             \A g \in Groups : after[g] >= before[g]
<1>1. ASSUME TypeOK, [Next]_vars PROVE Grows
  <2>1. SUFFICES ASSUME \A c \in Courses : Worth(c)' >= Worth(c)
                 PROVE  \A g \in Groups : GroupApplied(revision, student')[g] >= GroupApplied(revision, student)[g]
    OBVIOUS
  <2>2. TypeOK' /\ study' = study
    BY <1>1, RecordStep
  <2>3. IsRevision(revision) /\ IsRecord(student) /\ IsRecord(student')
    BY <1>1, <2>2, StudyIsSound DEF TypeOK, IsRecord
  <2>4. \A c \in Courses : Worth(c) = WorthOf(revision, student, c) /\ Worth(c)' = WorthOf(revision, student', c)
    BY <2>2, Zenon DEF Worth, WorthOf, revision
  <2>5. \A c \in Courses : WorthOf(revision, student, c) <= WorthOf(revision, student', c)
    BY <2>1, <2>3, <2>4, WorthIsNat
  <2>6. /\ \A g \in Groups : GroupApplied(revision, student)[g] <= GroupApplied(revision, student')[g]
    BY <2>3, <2>5, LedgerGrows
  <2>7. QED
    <3>1. ASSUME NEW g \in Groups
          PROVE  GroupApplied(revision, student)[g] \in Nat /\ GroupApplied(revision, student')[g] \in Nat
      <4>1. NumCourses \in 0..NumCourses
        BY NumbersAssumption
      <4>2. GroupApplied(revision, student) \in Ledgers(revision) /\ GroupApplied(revision, student') \in Ledgers(revision)
        BY <2>3, <4>1, LedgerUnfolds
      <4>3. QED
        BY <4>2 DEF Ledgers
    <3>2. QED
      BY <2>6, <3>1
<1>2. QED
  BY <1>1, TypeCorrect, PTL DEF Spec, CreditsOnlyGrow

-----------------------------------------------------------------------------
(* What becomes known.                                                     *)

\* Records that differ in nothing but external requirements.
SameHistory(s, t) ==
    t.attempts = s.attempts /\ t.recognition = s.recognition /\ t.waived = s.waived

ComponentSums(r, applied) ==
    [k \in Components(r) |-> MapThenSumSet(LAMBDA g : applied[g], {g \in Groups : r.groups[g].component = k})]

RequiredOf(r) == [g \in Groups |-> r.groups[g].required]

Recognitions(recognition) == [c \in Courses |-> IF recognition[c] = None THEN None ELSE {}]

\* How the credits of some courses are added up.
SumStep(r, s, T, sum) ==
    IF T = {} THEN 0
    ELSE Known(EarnedCredits(r, s, CHOOSE x \in T : TRUE)) + sum[T \ {CHOOSE x \in T : TRUE}]

SumOver(S, r, s) == CHOOSE sum : sum = [T \in SUBSET S |-> SumStep(r, s, T, sum)]

LEMMA FactsByHistory ==
  ASSUME NEW r, IsRevision(r), NEW s, IsRecord(s), NEW t, IsRecord(t), SameHistory(s, t)
  PROVE  /\ Passed(t) = Passed(s) /\ GroupApplied(r, t) = GroupApplied(r, s)
         /\ \A c : EarnedCredits(r, t, c) = EarnedCredits(r, s, c)
         /\ InProgress(t) = InProgress(s) /\ CreditsUnknown(r, t) = CreditsUnknown(r, s)
         /\ TotalEarned(r, t) = TotalEarned(r, s)
<1>1. \A c : Accepted(t, c) = Accepted(s, c)
  BY DEF Accepted, SameHistory
<1>2. Selected(t) = Selected(s) /\ Recognized(t) = Recognized(s) /\ InProgress(t) = InProgress(s)
  BY <1>1 DEF Selected, Recognized, InProgress, SameHistory
<1>3. Passed(t) = Passed(s)
  BY <1>2 DEF Passed
<1>4. ASSUME NEW c PROVE EarnedCredits(r, t, c) = EarnedCredits(r, s, c)
  <2>1. BestCredits(t, c) = BestCredits(s, c)
    BY <1>1, Zenon DEF BestCredits
  <2>2. QED
    BY <2>1 DEF EarnedCredits, SameHistory
<1>5. CreditsUnknown(r, t) = CreditsUnknown(r, s)
  BY <1>3, <1>4 DEF CreditsUnknown
<1>6. \A c \in Courses : WorthOf(r, t, c) = WorthOf(r, s, c) /\ WorthOf(r, s, c) \in Nat
  BY <1>3, <1>4, WorthIsNat DEF WorthOf
<1>7. GroupApplied(r, t) = GroupApplied(r, s)
  <2>1. NumCourses \in 0..NumCourses
    BY NumbersAssumption
  <2>2. GroupApplied(r, t) \in Ledgers(r) /\ GroupApplied(r, s) \in Ledgers(r)
    BY <2>1, LedgerUnfolds
  <2>3. \A g \in Groups : GroupApplied(r, t)[g] <= GroupApplied(r, s)[g]
    BY <1>6, LedgerGrows
  <2>4. \A g \in Groups : GroupApplied(r, s)[g] <= GroupApplied(r, t)[g]
    BY <1>6, LedgerGrows
  <2>5. QED
    BY <2>2, <2>3, <2>4 DEF Ledgers
<1>8. TotalEarned(r, t) = TotalEarned(r, s)
  <2>1. ASSUME NEW u PROVE TotalEarned(r, u) = SumOver(Passed(u), r, u)[Passed(u)]
    BY Zenon DEF TotalEarned, SumOver, SumStep, MapThenSumSet, MapThenFoldSet
  <2>2. ASSUME NEW sum, NEW T PROVE SumStep(r, t, T, sum) = SumStep(r, s, T, sum)
    <3>1. \A c : Known(EarnedCredits(r, t, c)) = Known(EarnedCredits(r, s, c))
      BY <1>4
    <3>2. QED
      BY <3>1 DEF SumStep
  <2>3. SumOver(Passed(s), r, t) = SumOver(Passed(s), r, s)
    <3>1. \A sum : [T \in SUBSET Passed(s) |-> SumStep(r, t, T, sum)] = [T \in SUBSET Passed(s) |-> SumStep(r, s, T, sum)]
      BY <2>2
    <3>2. QED
      BY <3>1, Zenon DEF SumOver
  <2>4. QED
    BY <1>3, <2>1, <2>3, Zenon
<1>9. QED
  BY <1>2, <1>3, <1>4, <1>5, <1>7, <1>8

LEMMA FactsKnown ==
  ASSUME NEW r, NEW s
  PROVE  /\ Facts(r, s).passed = Passed(s) /\ Facts(r, s).inProgress = InProgress(s)
         /\ Facts(r, s).unknown = CreditsUnknown(r, s)
         /\ Facts(r, s).earned = TotalEarned(r, s) /\ Facts(r, s).planTotal = r.total
         /\ Facts(r, s).group = GroupApplied(r, s)
         /\ Facts(r, s).component = ComponentSums(r, GroupApplied(r, s))
         /\ Facts(r, s).required = RequiredOf(r)
         /\ Facts(r, s).external = s.external
         /\ Facts(r, s).recognitions = Recognitions(s.recognition)
BY Zenon DEF Facts, ComponentSums, RequiredOf, Recognitions

LEMMA MoreIsKnown ==
  ASSUME NEW r, IsRevision(r), NEW s, IsRecord(s), NEW t, IsRecord(t), SameHistory(s, t),
         \A k \in Externals : s.external[k] # None => t.external[k] = s.external[k]
  PROVE  KnowsMore(Facts(r, s), Facts(r, t))
<1>1. /\ Facts(r, t).passed = Facts(r, s).passed /\ Facts(r, t).inProgress = Facts(r, s).inProgress
      /\ Facts(r, t).unknown = Facts(r, s).unknown /\ Facts(r, t).earned = Facts(r, s).earned
      /\ Facts(r, t).group = Facts(r, s).group
  BY FactsByHistory, FactsKnown
<1>2. Facts(r, t).planTotal = Facts(r, s).planTotal /\ Facts(r, t).required = Facts(r, s).required
  BY FactsKnown
<1>3. Facts(r, t).component = Facts(r, s).component
  BY FactsByHistory, FactsKnown
<1>4. Facts(r, t).recognitions = Facts(r, s).recognitions
  BY FactsKnown DEF SameHistory
<1>5. Facts(r, t).external = t.external /\ Facts(r, s).external = s.external
  BY FactsKnown
<1>6. QED
  BY <1>1, <1>2, <1>3, <1>4, <1>5 DEF KnowsMore

\* An answer or a verdict given without a fact stands when the fact is known.
LEMMA VerdictStands ==
  ASSUME NEW r, IsRevision(r), NEW s, IsRecord(s), NEW t, IsRecord(t), SameHistory(s, t),
         \A k \in Externals : s.external[k] # None => t.external[k] = s.external[k]
  PROVE  /\ \A q \in r.requirements :
               RequirementStatus(q, Facts(r, s)) # "UNKNOWN" =>
                  RequirementStatus(q, Facts(r, t)) = RequirementStatus(q, Facts(r, s))
         /\ Overall(r, s) \in Decided => Overall(r, t) = Overall(r, s)
<1> DEFINE f == Facts(r, s)
           g == Facts(r, t)
           groups(u, h) == {GroupStatus(r, u, h.group, k) : k \in Groups}
           Answers(h, R) == {RequirementStatus(q, h) : q \in R}
           graduation == {q \in r.requirements : q.owner = None}
           material   == {q \in r.requirements : Material(r, q)}
<1>1. KnowsMore(f, g)
  BY MoreIsKnown
<1>2. ASSUME NEW q \in r.requirements, RequirementStatus(q, f) # "UNKNOWN"
      PROVE  RequirementStatus(q, g) = RequirementStatus(q, f)
  <2>1. q.rule \in AuditRule
    BY DEF IsRevision
  <2> HIDE DEF f, g
  <2>2. QED
    BY <1>1, <1>2, <2>1, AnswersStand DEF RequirementStatus
<1>3. groups(t, g) = groups(s, f)
  <2>1. g.group = f.group /\ t.waived = s.waived /\ Passed(t) = Passed(s)
    BY <1>1, FactsByHistory DEF KnowsMore, SameHistory
  <2> HIDE DEF f, g
  <2>2. \A k \in Groups : GroupStatus(r, t, g.group, k) = GroupStatus(r, s, f.group, k)
    BY <2>1 DEF GroupStatus
  <2>3. QED
    BY <2>2
<1>4. g.unknown = f.unknown
  BY <1>1 DEF KnowsMore
<1>5. ASSUME NEW u, NEW h, h = Facts(r, u)
      PROVE  Overall(r, u) =
                CASE "UNSATISFIED" \in groups(u, h) \cup Answers(h, graduation) -> "UNSATISFIED"
                  [] /\ "UNSATISFIED" \notin groups(u, h) \cup Answers(h, graduation)
                     /\ h.unknown # {} \/ "UNKNOWN" \in Answers(h, material) -> "UNKNOWN"
                  [] OTHER -> "SATISFIED"
  BY <1>5, Zenon DEF Overall
<1>6. graduation \subseteq material /\ material \subseteq r.requirements
  BY DEF Material
<1> DEFINE verdictOf(u, h) ==
         CASE "UNSATISFIED" \in groups(u, h) \cup Answers(h, graduation) -> "UNSATISFIED"
           [] /\ "UNSATISFIED" \notin groups(u, h) \cup Answers(h, graduation)
              /\ h.unknown # {} \/ "UNKNOWN" \in Answers(h, material) -> "UNKNOWN"
           [] OTHER -> "SATISFIED"
<1>7. Overall(r, s) = verdictOf(s, f) /\ Overall(r, t) = verdictOf(t, g)
  BY <1>5, Zenon
<1> HIDE DEF f, g, groups, graduation, material
<1>8. ASSUME verdictOf(s, f) \in Decided PROVE verdictOf(t, g) = verdictOf(s, f)
  <2>1. CASE "UNSATISFIED" \in groups(s, f) \cup Answers(f, graduation)
    <3>1. "UNSATISFIED" \in groups(t, g) \cup Answers(g, graduation)
      BY <1>2, <1>3, <1>6, <2>1
    <3>2. QED
      BY <2>1, <3>1
  <2>2. CASE "UNSATISFIED" \notin groups(s, f) \cup Answers(f, graduation)
    <3>1. f.unknown = {} /\ "UNKNOWN" \notin Answers(f, material)
      BY <1>8, <2>2 DEF Decided
    <3>2. \A q \in material : RequirementStatus(q, g) = RequirementStatus(q, f)
      BY <1>2, <1>6, <3>1
    <3>3. Answers(g, material) = Answers(f, material) /\ Answers(g, graduation) = Answers(f, graduation)
      BY <1>6, <3>2
    <3>4. QED
      BY <1>3, <1>4, <2>2, <3>1, <3>3
  <2>3. QED
    BY <2>1, <2>2
<1>9. QED
  BY <1>2, <1>7, <1>8 DEF f, g

\* A step that changes what is known of external requirements changes nothing else.
LEMMA ExternalStep ==
  ASSUME TypeOK, [Next]_vars, student'.external # student.external
  PROVE  /\ SameHistory(student, student')
         /\ \A k \in Externals : student.external[k] # None => student'.external[k] = student.external[k]
<1>1. student \in Records
  BY DEF TypeOK
<1>2. CASE UNCHANGED vars
  BY <1>2 DEF vars
<1>3. ASSUME NEW a \in study.attempts, RecordAttempt(a) PROVE FALSE
  BY <1>1, <1>3 DEF RecordAttempt, Records
<1>4. ASSUME NEW a \in student.attempts, PassAttempt(a) PROVE FALSE
  <2> DEFINE attempts == (student.attempts \ {a}) \cup {[a EXCEPT !.status = "PASSED"]}
  <2>1. student' = [student EXCEPT !.attempts = attempts]
    BY <1>4 DEF PassAttempt
  <2> HIDE DEF attempts
  <2>2. QED
    BY <1>1, <2>1 DEF Records
<1>5. ASSUME NEW q \in study.recognitions, Recognize(q.course, q.credits) PROVE FALSE
  <2> DEFINE credits == Max({Known(student.recognition[q.course]), q.credits})
  <2>1. student' = [student EXCEPT !.recognition[q.course] = credits]
    BY <1>5 DEF Recognize
  <2> HIDE DEF credits
  <2>2. QED
    BY <1>1, <2>1 DEF Records
<1>6. ASSUME NEW k \in study.externals, NEW s \in Statuses \ {"UNKNOWN"}, StateExternal(k, s)
      PROVE  /\ SameHistory(student, student')
             /\ \A e \in Externals : student.external[e] # None => student'.external[e] = student.external[e]
  BY <1>1, <1>6 DEF StateExternal, SameHistory, Records
<1>7. ASSUME NEW scope \in study.exceptions, ApproveException(scope) PROVE FALSE
  <2> DEFINE waived == [groups  |-> student.waived.groups \cup scope.groups,
                        courses |-> student.waived.courses \cup scope.courses]
  <2>1. student' = [student EXCEPT !.waived = waived]
    BY <1>7 DEF ApproveException
  <2> HIDE DEF waived
  <2>2. QED
    BY <1>1, <2>1 DEF Records
<1>8. ASSUME NEW item \in study.items, PlanCourse(item) PROVE FALSE
  BY <1>8 DEF PlanCourse
<1>9. ASSUME NEW item \in plan, UnplanCourse(item) PROVE FALSE
  BY <1>9 DEF UnplanCourse
<1>10. QED
  BY <1>2, <1>3, <1>4, <1>5, <1>6, <1>7, <1>8, <1>9 DEF Next

\* What was answered while an external requirement was unknown remains when it is known.
THEOREM KnowledgeKeepsAnswers == Spec => AnswersSurviveKnowledge
<1> DEFINE Survives ==
       student'.external # student.external =>
          LET before == Facts(revision, student)
              after  == Facts(revision, student')
          IN /\ Overall(revision, student) \in Decided =>
                   Overall(revision, student') = Overall(revision, student)
             /\ \A r \in revision.requirements :
                   RequirementStatus(r, before) \in Decided =>
                      RequirementStatus(r, after) = RequirementStatus(r, before)
<1>1. ASSUME TypeOK, [Next]_vars PROVE Survives
  <2>1. SUFFICES ASSUME student'.external # student.external PROVE Survives
    OBVIOUS
  <2>2. IsRevision(revision) /\ IsRecord(student) /\ IsRecord(student')
    <3>1. TypeOK'
      BY <1>1, RecordStep
    <3>2. QED
      BY <1>1, <3>1, StudyIsSound DEF TypeOK, IsRecord
  <2>3. /\ SameHistory(student, student')
        /\ \A k \in Externals : student.external[k] # None => student'.external[k] = student.external[k]
    BY <1>1, <2>1, ExternalStep
  <2>4. \A q \in revision.requirements :
           RequirementStatus(q, Facts(revision, student)) # "UNKNOWN" =>
              RequirementStatus(q, Facts(revision, student')) = RequirementStatus(q, Facts(revision, student))
    BY <2>2, <2>3, VerdictStands
  <2>5. Overall(revision, student) \in Decided => Overall(revision, student') = Overall(revision, student)
    BY <2>2, <2>3, VerdictStands
  <2>6. "UNKNOWN" \notin Decided
    BY DEF Decided
  <2>7. QED
    BY <2>4, <2>5, <2>6
<1>2. QED
  BY <1>1, TypeCorrect, PTL DEF Spec, AnswersSurviveKnowledge

-----------------------------------------------------------------------------
(* The dependency graph.                                                   *)

\* The parts of a rule, given the parts of the rules in it.
PartsStep(r, all) ==
    {[path |-> <<>>, rule |-> r]} \cup
    (CASE r.kind \in {"ALL", "ANY"} -> UNION {Under(all[r.children[i]], i) : i \in DOMAIN r.children}
       [] r.kind = "NOT"            -> Under(all[r.child], 1)
       [] OTHER                     -> {})

LEMMA PartsExist ==
  \E all : all = [r \in AuditRule |-> PartsStep(r, all)]
<1> DEFINE Steps == {1} \cup UNION {DOMAIN r.children : r \in AuditRule}
           T     == SUBSET [path : Seq(Steps), rule : AuditRule]
           step  == [r \in AuditRule |-> [g \in [AuditRule -> T] |-> PartsStep(r, g)]]
<1>1. ASSUME NEW r \in AuditRule, NEW g \in [AuditRule -> T] PROVE step[r][g] \in T
  <2>1. step[r][g] = PartsStep(r, g)
    OBVIOUS
  <2>2. [path |-> <<>>, rule |-> r] \in [path : Seq(Steps), rule : AuditRule]
    OBVIOUS
  <2>3. ASSUME NEW parts \in T, NEW i \in Steps PROVE Under(parts, i) \in T
    <3> HIDE DEF Steps
    <3>1. ASSUME NEW part \in parts
          PROVE  [path |-> <<i>> \o part.path, rule |-> part.rule] \in [path : Seq(Steps), rule : AuditRule]
      <4>1. part.path \in Seq(Steps) /\ part.rule \in AuditRule /\ <<i>> \in Seq(Steps)
        OBVIOUS
      <4>2. <<i>> \o part.path \in Seq(Steps)
        BY <4>1
      <4>3. QED
        BY <4>1, <4>2, Zenon
    <3>2. QED
      BY <3>1, Zenon DEF Under
  <2>4. CASE r.kind \in {"ALL", "ANY"}
    <3>1. ASSUME NEW i \in DOMAIN r.children PROVE Under(g[r.children[i]], i) \in T
      <4>1. r.children[i] \in AuditRule
        BY <2>4, RulesAssumption DEF Children, ToSet
      <4>2. i \in Steps /\ g[r.children[i]] \in T
        BY <4>1
      <4> HIDE DEF T, Steps
      <4>3. QED
        BY <2>3, <4>2
    <3>2. UNION {Under(g[r.children[i]], i) : i \in DOMAIN r.children} \in T
      BY <3>1
    <3>3. QED
      BY <2>1, <2>2, <2>4, <3>2 DEF PartsStep
  <2>5. CASE r.kind = "NOT"
    <3>1. r.child \in AuditRule
      BY <2>5, RulesAssumption DEF Children
    <3>2. g[r.child] \in T /\ 1 \in Steps
      BY <3>1
    <3>3. Under(g[r.child], 1) \in T
      BY <2>3, <3>2
    <3>4. QED
      BY <2>1, <2>2, <2>5, <3>3 DEF PartsStep
  <2>6. CASE r.kind \notin {"ALL", "ANY", "NOT"}
    BY <2>1, <2>2, <2>6 DEF PartsStep
  <2>7. QED
    BY <2>4, <2>5, <2>6
<1>2. ASSUME NEW r \in AuditRule, NEW g \in [AuditRule -> T], NEW h \in [AuditRule -> T],
             \A y \in AuditRule : Nesting[y] < Nesting[r] => g[y] = h[y]
      PROVE  step[r][g] = step[r][h]
  <2>1. step[r][g] = PartsStep(r, g) /\ step[r][h] = PartsStep(r, h)
    OBVIOUS
  <2>2. \A child \in Children(r) : g[child] = h[child]
    BY <1>2, RulesAssumption
  <2>3. CASE r.kind \in {"ALL", "ANY"}
    <3>1. \A i \in DOMAIN r.children : g[r.children[i]] = h[r.children[i]]
      BY <2>2, <2>3 DEF Children, ToSet
    <3>2. {Under(g[r.children[i]], i) : i \in DOMAIN r.children} = {Under(h[r.children[i]], i) : i \in DOMAIN r.children}
      BY <3>1
    <3>3. QED
      BY <2>1, <2>3, <3>2 DEF PartsStep
  <2>4. CASE r.kind = "NOT"
    BY <2>1, <2>2, <2>4 DEF PartsStep, Children
  <2>5. CASE r.kind \notin {"ALL", "ANY", "NOT"}
    BY <2>1, <2>5 DEF PartsStep
  <2>6. QED
    BY <2>3, <2>4, <2>5
<1>3. Nesting \in [AuditRule -> Nat] /\ {} \in T
  BY RulesAssumption
<1>4. PICK f \in [AuditRule -> T] : \A x \in AuditRule : f[x] = step[x][f]
  <2> HIDE DEF step, T
  <2>1. Descends(AuditRule, Nesting, T, step)
    BY <1>1, <1>2, <1>3 DEF Descends
  <2>2. QED
    BY <1>3, <2>1, RecursionIsSound
<1>5. \A x \in AuditRule : f[x] = PartsStep(x, f)
  BY <1>4
<1>6. f = [x \in AuditRule |-> PartsStep(x, f)]
  BY <1>5
<1>7. QED
  BY <1>6

\* A rule is among its own parts, and what is a part of a rule in it is one, too.
LEMMA PartsAreThere ==
  ASSUME NEW rule \in AuditRule
  PROVE  /\ \E part \in Parts(rule) : part.rule = rule
         /\ \A child \in Children(rule) : \A inner \in Parts(child) : \E part \in Parts(rule) : part.rule = inner.rule
<1> DEFINE all == CHOOSE a : a = [r \in AuditRule |-> PartsStep(r, a)]
<1>1. \A r : Parts(r) = all[r]
  BY Zenon DEF Parts, PartsStep
<1>2. all = [r \in AuditRule |-> PartsStep(r, all)]
  BY PartsExist, Zenon
<1> HIDE DEF all
<1>3. Parts(rule) = PartsStep(rule, all)
  BY <1>1, <1>2, Zenon
<1>4. [path |-> <<>>, rule |-> rule] \in Parts(rule)
  BY <1>3 DEF PartsStep
<1>5. ASSUME NEW child \in Children(rule), NEW inner \in Parts(child)
      PROVE  \E part \in Parts(rule) : part.rule = inner.rule
  <2>1. CASE rule.kind \in {"ALL", "ANY"}
    <3>1. PICK i \in DOMAIN rule.children : child = rule.children[i]
      BY <2>1 DEF Children, ToSet
    <3>2. Under(Parts(child), i) \subseteq Parts(rule)
      BY <1>1, <1>3, <2>1, <3>1 DEF PartsStep
    <3> DEFINE part == [path |-> <<i>> \o inner.path, rule |-> inner.rule]
    <3>3. part \in Under(Parts(child), i) /\ part.rule = inner.rule
      BY Zenon DEF Under
    <3>4. QED
      BY <3>2, <3>3, Zenon
  <2>2. CASE rule.kind = "NOT"
    <3>1. Under(Parts(child), 1) \subseteq Parts(rule)
      BY <1>1, <1>3, <2>2 DEF PartsStep, Children
    <3> DEFINE part == [path |-> <<1>> \o inner.path, rule |-> inner.rule]
    <3>2. part \in Under(Parts(child), 1) /\ part.rule = inner.rule
      BY Zenon DEF Under
    <3>3. QED
      BY <3>1, <3>2, Zenon
  <2>3. QED
    BY <2>1, <2>2 DEF Children
<1>6. QED
  BY <1>4, <1>5

\* Two collections of facts that differ in credits, and in what they say of some courses.
DifferIn(f, g, touched) ==
    /\ \A c : c \notin touched => /\ c \in g.passed <=> c \in f.passed
                                  /\ c \in g.inProgress <=> c \in f.inProgress
                                  /\ c \in g.unknown <=> c \in f.unknown
    /\ g.external = f.external /\ g.recognitions = f.recognitions
    /\ \A c \in Courses : f.recognitions[c] \in {None, {}}

LEMMA LeafUntouched ==
  ASSUME NEW f, NEW g, NEW touched, DifferIn(f, g, touched),
         NEW rule \in AuditRule, rule.kind \notin {"ALL", "ANY", "NOT"},
         Named(rule) \cap touched = {}, ~AsksForCredits(rule)
  PROVE  Leaf(rule, g) = Leaf(rule, f)
<1>1. rule.kind \in Kinds
  BY RulesAssumption
<1>2. rule.kind \notin {"CREDITS_IN_GROUP", "CREDITS_IN_COMPONENT", "TOTAL_CREDITS", "GROUP_COMPLETED",
                      "PERCENTAGE_OF_PLAN"}
  BY PartsAreThere DEF AsksForCredits
<1>3. ASSUME rule.kind \in {"COURSE_PASSED", "COURSE_IN_PROGRESS", "COURSE_PASSED_OR_IN_PROGRESS", "COREQUISITE"}
      PROVE  Leaf(rule, g) = Leaf(rule, f)
  <2>1. rule.course \notin touched
    BY <1>3 DEF Named, NamesCourse
  <2>2. QED
    BY <1>3, <2>1 DEF Leaf, AboutCourses, DifferIn
<1>4. ASSUME rule.kind = "MANDATORY_COURSES_COMPLETED" PROVE Leaf(rule, g) = Leaf(rule, f)
  <2>1. rule.courses \cap touched = {}
    BY <1>4 DEF Named, NamesCourse
  <2>2. /\ rule.courses \cap g.unknown = {} <=> rule.courses \cap f.unknown = {}
        /\ rule.courses \subseteq g.passed <=> rule.courses \subseteq f.passed
    BY <2>1 DEF DifferIn
  <2>3. QED
    BY <1>4, <2>2 DEF Leaf, AboutCourses, Decide
<1>5. ASSUME rule.kind = "EQUIVALENT_COURSE_PASSED" PROVE Leaf(rule, g) = Leaf(rule, f)
  <2>1. rule.courses \cap touched = {} /\ rule.key \in Courses
    BY <1>5, KeysAssumption DEF Named, NamesCourse
  <2> DEFINE recognized == f.recognitions[rule.key]
  <2>2. recognized \in {None, {}} /\ g.recognitions[rule.key] = recognized
    BY <2>1 DEF DifferIn
  <2>3. ASSUME NEW h, h.recognitions[rule.key] = recognized
        PROVE  Leaf(rule, h) =
                  IF recognized = None THEN "UNKNOWN"
                  ELSE AboutCourses(rule.courses \cup recognized, h, (rule.courses \cup recognized) \cap h.passed # {})
    BY <1>5, <2>3 DEF Leaf
  <2>4. CASE recognized = None
    BY <2>2, <2>3, <2>4
  <2>5. CASE recognized = {}
    <3>1. rule.courses \cup recognized = rule.courses
      BY <2>5
    <3>2. /\ rule.courses \cap g.unknown = {} <=> rule.courses \cap f.unknown = {}
          /\ rule.courses \cap g.passed = {} <=> rule.courses \cap f.passed = {}
      BY <2>1 DEF DifferIn
    <3> HIDE DEF recognized
    <3>3. AboutCourses(rule.courses, g, rule.courses \cap g.passed # {}) =
             AboutCourses(rule.courses, f, rule.courses \cap f.passed # {})
      BY <3>2 DEF AboutCourses, Decide
    <3>4. QED
      BY <2>2, <2>3, <3>1, <3>3 DEF recognized
  <2>6. QED
    BY <2>2, <2>4, <2>5
<1>6. ASSUME rule.kind \in {"EXTERNAL_REQUIREMENT", "MINIMUM_GRADE", "UNKNOWN"} PROVE Leaf(rule, g) = Leaf(rule, f)
  BY <1>6 DEF Leaf, DifferIn
<1>7. QED
  BY <1>1, <1>2, <1>3, <1>4, <1>5, <1>6 DEF Kinds

\* A rule that asks for no credits, and names no course of which something else is
\* said, answers the same.
LEMMA AnswersUntouched ==
  ASSUME NEW f, NEW g, NEW touched, DifferIn(f, g, touched)
  PROVE  \A rule \in AuditRule :
            ~AsksForCredits(rule) /\ (\A part \in Parts(rule) : Named(part.rule) \cap touched = {}) =>
               Evaluate(rule, g) = Evaluate(rule, f)
<1> DEFINE Apart(rule) == ~AsksForCredits(rule) /\ \A part \in Parts(rule) : Named(part.rule) \cap touched = {}
           Good == {rule \in AuditRule : Apart(rule) => Asked(g)[rule] = Asked(f)[rule]}
           LeavesOf(h) == [r \in AuditRule |-> Leaf(r, h)]
<1>1. ASSUME NEW h, NEW rule \in AuditRule
      PROVE  Asked(h)[rule] = Combined(rule, Asked(h), LeavesOf(h))
  <2> DEFINE answers == Asked(h)
  <2>1. answers = [r \in AuditRule |-> Combined(r, answers, LeavesOf(h))]
    BY EvaluateUnfolds
  <2> HIDE DEF answers
  <2>2. answers[rule] = Combined(rule, answers, LeavesOf(h))
    BY <2>1, Zenon
  <2>3. QED
    BY <2>2 DEF answers
<1>2. ASSUME NEW rule \in AuditRule, Apart(rule), NEW child \in Children(rule) PROVE Apart(child)
  <2>1. \A inner \in Parts(child) : \E part \in Parts(rule) : part.rule = inner.rule
    BY PartsAreThere
  <2>2. QED
    BY <1>2, <2>1, Zenon DEF AsksForCredits
<1>3. ASSUME NEW rule \in AuditRule, \A child \in Children(rule) : child \in Good, Apart(rule)
      PROVE  Asked(g)[rule] = Asked(f)[rule]
  <2>1. \A child \in Children(rule) : Asked(g)[child] = Asked(f)[child]
    <3>1. ASSUME NEW child \in Children(rule) PROVE Asked(g)[child] = Asked(f)[child]
      <4>1. Apart(child) /\ child \in Good
        BY <1>2, <1>3
      <4> HIDE DEF Apart
      <4>2. QED
        BY <4>1
    <3>2. QED
      BY <3>1
  <2>2. /\ Asked(f)[rule] = Combined(rule, Asked(f), LeavesOf(f))
        /\ Asked(g)[rule] = Combined(rule, Asked(g), LeavesOf(g))
    BY <1>1
  <2>3. CASE rule.kind \in {"ALL", "ANY"}
    <3>1. {Asked(g)[c] : c \in ToSet(rule.children)} = {Asked(f)[c] : c \in ToSet(rule.children)}
      BY <2>1, <2>3 DEF Children
    <3>2. QED
      BY <2>2, <2>3, <3>1 DEF Combined
  <2>4. CASE rule.kind = "NOT"
    BY <2>1, <2>2, <2>4 DEF Combined, Children
  <2>5. CASE rule.kind \notin {"ALL", "ANY", "NOT"}
    <3>1. PICK part \in Parts(rule) : part.rule = rule
      BY PartsAreThere
    <3>2. Named(rule) \cap touched = {} /\ ~AsksForCredits(rule)
      BY <1>3, <3>1, Zenon
    <3>3. Leaf(rule, g) = Leaf(rule, f)
      BY <2>5, <3>2, LeafUntouched
    <3>4. Asked(f)[rule] = Leaf(rule, f) /\ Asked(g)[rule] = Leaf(rule, g)
      BY <2>2, <2>5 DEF Combined
    <3>5. QED
      BY <3>3, <3>4
  <2>6. QED
    BY <2>3, <2>4, <2>5
<1>4. AuditRule \subseteq Good
  <2>1. \A rule \in AuditRule : (\A child \in Children(rule) : child \in Good) => rule \in Good
    BY <1>3
  <2> HIDE DEF Good
  <2>2. QED
    BY <2>1, RulesAreWellFounded
<1>5. QED
  BY <1>4, EvaluateUnfolds

\* The courses with an attempt that is in one of two histories only.
TouchedBetween(s, t) == {a.course : a \in (t.attempts \ s.attempts) \cup (s.attempts \ t.attempts)}

LEMMA FactsUntouched ==
  ASSUME NEW r, NEW s, NEW t, t.recognition = s.recognition, t.external = s.external
  PROVE  DifferIn(Facts(r, s), Facts(r, t), TouchedBetween(s, t))
<1> DEFINE touched == TouchedBetween(s, t)
<1>1. ASSUME NEW c, c \notin touched
      PROVE  /\ c \in Passed(t) <=> c \in Passed(s)
             /\ c \in InProgress(t) <=> c \in InProgress(s)
             /\ c \in CreditsUnknown(r, t) <=> c \in CreditsUnknown(r, s)
  <2>1. \A a : a.course = c => (a \in t.attempts <=> a \in s.attempts)
    BY <1>1 DEF TouchedBetween
  <2>2. Accepted(t, c) = Accepted(s, c)
    BY <2>1 DEF Accepted
  <2>3. EarnedCredits(r, t, c) = EarnedCredits(r, s, c)
    <3>1. BestCredits(t, c) = BestCredits(s, c)
      BY <2>2, Zenon DEF BestCredits
    <3>2. QED
      BY <3>1 DEF EarnedCredits
  <2>4. c \in Selected(t) <=> c \in Selected(s)
    BY <2>2 DEF Selected
  <2>5. c \in Passed(t) <=> c \in Passed(s)
    BY <2>4 DEF Passed, Recognized
  <2>6. c \in InProgress(t) <=> c \in InProgress(s)
    BY <2>1, <2>4 DEF InProgress
  <2>7. QED
    BY <2>3, <2>5, <2>6 DEF CreditsUnknown
<1>2. Recognitions(t.recognition) = Recognitions(s.recognition)
  OBVIOUS
<1>3. \A c \in Courses : Recognitions(s.recognition)[c] \in {None, {}}
  BY DEF Recognitions
<1> HIDE DEF touched
<1>4. QED
  BY <1>1, <1>2, <1>3, FactsKnown DEF DifferIn, touched

\* A step that changes the history changes nothing else.
LEMMA HistoryStep ==
  ASSUME TypeOK, [Next]_vars, student'.attempts # student.attempts
  PROVE  student'.recognition = student.recognition /\ student'.external = student.external
<1>1. student \in Records
  BY DEF TypeOK
<1>2. CASE UNCHANGED vars
  BY <1>2 DEF vars
<1>3. ASSUME NEW a \in study.attempts, RecordAttempt(a)
      PROVE  student'.recognition = student.recognition /\ student'.external = student.external
  <2> DEFINE attempts == student.attempts \cup {a}
  <2>1. student' = [student EXCEPT !.attempts = attempts]
    BY <1>3 DEF RecordAttempt
  <2> HIDE DEF attempts
  <2>2. QED
    BY <1>1, <2>1 DEF Records
<1>4. ASSUME NEW a \in student.attempts, PassAttempt(a)
      PROVE  student'.recognition = student.recognition /\ student'.external = student.external
  <2> DEFINE attempts == (student.attempts \ {a}) \cup {[a EXCEPT !.status = "PASSED"]}
  <2>1. student' = [student EXCEPT !.attempts = attempts]
    BY <1>4 DEF PassAttempt
  <2> HIDE DEF attempts
  <2>2. QED
    BY <1>1, <2>1 DEF Records
<1>5. ASSUME NEW q \in study.recognitions, Recognize(q.course, q.credits) PROVE FALSE
  <2> DEFINE credits == Max({Known(student.recognition[q.course]), q.credits})
  <2>1. student' = [student EXCEPT !.recognition[q.course] = credits]
    BY <1>5 DEF Recognize
  <2> HIDE DEF credits
  <2>2. QED
    BY <1>1, <2>1 DEF Records
<1>6. ASSUME NEW k \in study.externals, NEW status \in Statuses \ {"UNKNOWN"}, StateExternal(k, status) PROVE FALSE
  <2>1. student' = [student EXCEPT !.external[k] = status]
    BY <1>6 DEF StateExternal
  <2>2. QED
    BY <1>1, <2>1 DEF Records
<1>7. ASSUME NEW scope \in study.exceptions, ApproveException(scope) PROVE FALSE
  <2> DEFINE waived == [groups  |-> student.waived.groups \cup scope.groups,
                        courses |-> student.waived.courses \cup scope.courses]
  <2>1. student' = [student EXCEPT !.waived = waived]
    BY <1>7 DEF ApproveException
  <2> HIDE DEF waived
  <2>2. QED
    BY <1>1, <2>1 DEF Records
<1>8. ASSUME NEW item \in study.items, PlanCourse(item) PROVE FALSE
  BY <1>8 DEF PlanCourse
<1>9. ASSUME NEW item \in plan, UnplanCourse(item) PROVE FALSE
  BY <1>9 DEF UnplanCourse
<1>10. QED
  BY <1>2, <1>3, <1>4, <1>5, <1>6, <1>7, <1>8, <1>9 DEF Next

\* A new attempt changes the answer to a requirement only if the graph joins its course
\* to the owner, or the requirement asks for credits.
THEOREM GraphShows == Spec => GraphShowsWhatMatters
<1> DEFINE Shows ==
       student'.attempts # student.attempts =>
          LET before  == Facts(revision, student)
              after   == Facts(revision, student')
              touched == {a.course : a \in (student'.attempts \ student.attempts) \cup
                                            (student.attempts \ student'.attempts)}
          IN \A r \in {q \in revision.requirements : q.owner # None} :
                RequirementStatus(r, after) # RequirementStatus(r, before) =>
                   \/ AsksForCredits(r.rule)
                   \/ \E e \in Relations({r}) : e.source \in touched /\ e.target = r.owner
<1>1. ASSUME TypeOK, [Next]_vars PROVE Shows
  <2> DEFINE before  == Facts(revision, student)
             after   == Facts(revision, student')
             touched == TouchedBetween(student, student')
  <2>1. SUFFICES ASSUME student'.attempts # student.attempts,
                        NEW r \in revision.requirements,
                        RequirementStatus(r, after) # RequirementStatus(r, before),
                        ~AsksForCredits(r.rule)
                 PROVE  \E e \in Relations({r}) : e.source \in touched /\ e.target = r.owner
    BY Zenon DEF TouchedBetween
  <2>2. DifferIn(before, after, touched)
    BY <1>1, <2>1, HistoryStep, FactsUntouched
  <2>3. r.rule \in AuditRule
    BY <1>1, StudyIsSound DEF TypeOK, IsRevision
  <2> HIDE DEF before, after, touched
  <2>4. Evaluate(r.rule, after) # Evaluate(r.rule, before)
    BY <2>1 DEF RequirementStatus
  <2>5. PICK part \in Parts(r.rule) : Named(part.rule) \cap touched # {}
    BY <2>1, <2>2, <2>3, <2>4, AnswersUntouched
  <2>6. PICK c \in Named(part.rule) : c \in touched
    BY <2>5
  <2> DEFINE e == Edge(c, r.owner, RelationKind(part))
  <2>7. e \in Relations({r})
    <3>1. e \in {Edge(d, r.owner, RelationKind(part)) : d \in Named(part.rule)}
      BY <2>6
    <3> HIDE DEF e
    <3>2. e \in RelationsOf(r)
      BY <2>5, <3>1 DEF RelationsOf
    <3>3. QED
      BY <3>2 DEF Relations
  <2>8. e.source = c /\ e.target = r.owner
    BY DEF Edge
  <2>9. QED
    BY <2>6, <2>7, <2>8
<1>2. QED
  BY <1>1, TypeCorrect, PTL DEF Spec, GraphShowsWhatMatters

-----------------------------------------------------------------------------
(* The plan and the audit.                                                 *)

TakenBefore(term) == {i.course : i \in {j \in plan : j.term < term}}
TakenIn(term) == {i.course : i \in {j \in plan : j.term = term}}

LEMMA AttendedAre ==
  ASSUME NEW items, NEW mark
  PROVE  /\ \A c : (\E a \in Attended(items, mark) : a.course = c) <=> \E i \in items : i.course = c
         /\ \A a \in Attended(items, mark) : a.status = mark
<1>1. ASSUME NEW i \in items
      PROVE  \E a \in Attended(items, mark) : a.course = i.course
  <2> DEFINE a == [course |-> i.course, status |-> mark, credits |-> i.credits]
  <2>1. a \in Attended(items, mark)
    BY Zenon DEF Attended
  <2>2. a.course = i.course
    OBVIOUS
  <2> HIDE DEF a
  <2>3. QED
    BY <2>1, <2>2
<1>2. \A a \in Attended(items, mark) : a.status = mark /\ \E i \in items : a.course = i.course
  BY DEF Attended
<1>3. QED
  BY <1>1, <1>2

\* The facts of a term to come, as far as the rules about courses look.
LEMMA FactsOfTerm ==
  ASSUME TypeOK, Recognized(student) = {}, NEW term
  PROVE  /\ FactsAt(term).passed = Selected(student) \cup InProgress(student) \cup TakenBefore(term)
         /\ FactsAt(term).passed \cup FactsAt(term).inProgress
               = Selected(student) \cup InProgress(student) \cup TakenBefore(term) \cup TakenIn(term)
<1> DEFINE s == StudentAt(term)
           Moved(a) == IF a.status \in InProgressStatuses THEN [a EXCEPT !.status = "PASSED"] ELSE a
           sooner == {i \in plan : i.term < term}
           then   == {i \in plan : i.term = term}
           past   == Attended(sooner, "PASSED")
           now    == Attended(then, "ENROLLED")
<1>1. student \in Records /\ student.attempts \subseteq Attempts
  BY DEF TypeOK, Records
<1>2. s.attempts = {Moved(a) : a \in student.attempts} \cup past \cup now /\ s.recognition = student.recognition
  BY <1>1 DEF StudentAt, Records
<1>3. \A i \in plan : i.course \in Courses
  BY StudiesAssumption DEF TypeOK, IsItem
<1>4. \A a \in student.attempts : /\ Moved(a).course = a.course /\ a.course \in Courses
                                  /\ a.status \in InProgressStatuses => Moved(a).status = "PASSED"
                                  /\ a.status \notin InProgressStatuses => Moved(a).status = a.status
  BY <1>1 DEF Attempts
<1>5. AcceptedStatuses \cap InProgressStatuses = {} /\ "PASSED" \in AcceptedStatuses /\ "ENROLLED" \in InProgressStatuses
  BY DEF AcceptedStatuses, InProgressStatuses
<1>6. /\ \A c : c \in TakenBefore(term) <=> \E a \in past : a.course = c
      /\ \A c : c \in TakenIn(term) <=> \E a \in now : a.course = c
      /\ (\A a \in past : a.status = "PASSED") /\ \A a \in now : a.status = "ENROLLED"
  <2>1. /\ \A c : c \in TakenBefore(term) <=> \E i \in {j \in plan : j.term < term} : i.course = c
        /\ \A c : c \in TakenIn(term) <=> \E i \in {j \in plan : j.term = term} : i.course = c
    BY DEF TakenBefore, TakenIn
  <2>2. /\ \A c : (\E a \in past : a.course = c) <=> \E i \in sooner : i.course = c
        /\ \A a \in past : a.status = "PASSED"
    <3> HIDE DEF sooner
    <3>1. QED
      BY AttendedAre, Zenon
  <2>3. /\ \A c : (\E a \in now : a.course = c) <=> \E i \in then : i.course = c
        /\ \A a \in now : a.status = "ENROLLED"
    <3> HIDE DEF then
    <3>1. QED
      BY AttendedAre, Zenon
  <2> HIDE DEF past, now
  <2>4. QED
    BY <2>1, <2>2, <2>3
<1>7. TakenBefore(term) \subseteq Courses /\ TakenIn(term) \subseteq Courses
  BY <1>3 DEF TakenBefore, TakenIn
<1> HIDE DEF s, past, now, Moved
<1>8. ASSUME NEW c \in Courses
      PROVE  c \in Selected(s) <=> c \in Selected(student) \cup InProgress(student) \cup TakenBefore(term)
  <2>1. c \in Selected(s) <=> \E a \in s.attempts : a.course = c /\ a.status \in AcceptedStatuses
    BY DEF Selected, Accepted
  <2>2. c \in Selected(student) <=> \E a \in student.attempts : a.course = c /\ a.status \in AcceptedStatuses
    BY DEF Selected, Accepted
  <2>3. c \in InProgress(student) <=>
           c \notin Selected(student) /\ \E a \in student.attempts : a.course = c /\ a.status \in InProgressStatuses
    BY DEF InProgress
  <2>4. (\E a \in student.attempts : Moved(a).course = c /\ Moved(a).status \in AcceptedStatuses)
           <=> \E a \in student.attempts : a.course = c /\ a.status \in AcceptedStatuses \cup InProgressStatuses
    BY <1>4, <1>5
  <2>5. (\E a \in s.attempts : a.course = c /\ a.status \in AcceptedStatuses) <=>
           \/ \E a \in student.attempts : Moved(a).course = c /\ Moved(a).status \in AcceptedStatuses
           \/ \E a \in past : a.course = c
    BY <1>2, <1>5, <1>6
  <2>6. QED
    BY <1>6, <2>1, <2>2, <2>3, <2>4, <2>5
<1>9. ASSUME NEW c \in Courses
      PROVE  c \in InProgress(s) <=> c \notin Selected(s) /\ c \in TakenIn(term)
  <2>1. c \in InProgress(s) <=>
           c \notin Selected(s) /\ \E a \in s.attempts : a.course = c /\ a.status \in InProgressStatuses
    BY DEF InProgress
  <2>2. \A a \in student.attempts : Moved(a).status \notin InProgressStatuses
    BY <1>4, <1>5
  <2>3. (\E a \in s.attempts : a.course = c /\ a.status \in InProgressStatuses) <=> \E a \in now : a.course = c
    BY <1>2, <1>5, <1>6, <2>2
  <2>4. QED
    BY <1>6, <2>1, <2>3
<1>10. Selected(s) \subseteq Courses /\ InProgress(s) \subseteq Courses
       /\ Selected(student) \subseteq Courses /\ InProgress(student) \subseteq Courses
  BY DEF Selected, InProgress
<1>11. Passed(s) = Selected(s)
  <2>1. Recognized(s) = {}
    BY <1>2 DEF Recognized
  <2>2. QED
    BY <2>1 DEF Passed
<1>12. FactsAt(term).passed = Selected(s) /\ FactsAt(term).inProgress = InProgress(s)
  BY <1>11, FactsKnown DEF FactsAt, s
<1>13. Selected(s) = Selected(student) \cup InProgress(student) \cup TakenBefore(term)
  BY <1>7, <1>8, <1>10
<1>14. Selected(s) \cup InProgress(s) = Selected(s) \cup TakenIn(term)
  BY <1>7, <1>9, <1>10
<1>15. QED
  BY <1>12, <1>13, <1>14

\* One answer is another, or is open as a course is passed with unknown credits.
OpenOr(answer, expected, names, unknown) ==
    \/ answer = expected
    \/ answer = "UNKNOWN" /\ names \cap unknown # {}

LEMMA LeafAgrees ==
  ASSUME TypeOK, Recognized(student) = {}, NEW term \in Nat, \A item \in plan : item.term \in Nat,
         NEW rule \in AuditRule, rule.kind \in CourseKinds
  PROVE  OpenOr(Leaf(rule, FactsAt(term)), ExpectLeaf(rule, plan, term, History, revision.total),
                Named(rule), FactsAt(term).unknown)
<1> DEFINE facts == FactsAt(term)
           done == Selected(student) \cup InProgress(student)
<1>1. facts.passed = done \cup TakenBefore(term) /\ facts.passed \cup facts.inProgress = done \cup TakenBefore(term) \cup TakenIn(term)
  BY FactsOfTerm
<1>2. \A c : PlannedBefore(plan, c, term) <=> c \in TakenBefore(term)
  BY DEF PlannedBefore, Planned, TakenBefore
<1>3. \A c : PlannedBy(plan, c, term) <=> c \in TakenBefore(term) \cup TakenIn(term)
  <2>1. \A c : PlannedBy(plan, c, term) <=> \E j \in plan : j.course = c /\ j.term <= term
    BY DEF PlannedBy, Planned
  <2>2. \A j \in plan : j.term <= term <=> j.term < term \/ j.term = term
    OBVIOUS
  <2>3. QED
    BY <2>1, <2>2 DEF TakenBefore, TakenIn
<1> HIDE DEF facts
<1>4. ASSUME NEW c
      PROVE  /\ CourseAnswer(c, FALSE, plan, term, History) = Decide(c \in facts.passed)
             /\ CourseAnswer(c, TRUE, plan, term, History) = Decide(c \in facts.passed \cup facts.inProgress)
  BY <1>1, <1>2, <1>3 DEF CourseAnswer, History, Decide
<1>5. ASSUME NEW codes, NEW holds
      PROVE  OpenOr(AboutCourses(codes, facts, holds), Decide(holds), codes, facts.unknown)
  BY Zenon DEF OpenOr, AboutCourses
<1>6. CASE rule.kind = "COURSE_PASSED"
  <2>1. ExpectLeaf(rule, plan, term, History, revision.total) = CourseAnswer(rule.course, FALSE, plan, term, History)
    BY <1>6 DEF ExpectLeaf
  <2>2. Leaf(rule, facts) = AboutCourses({rule.course}, facts, rule.course \in facts.passed)
    BY <1>6, Zenon DEF Leaf
  <2>3. Named(rule) = {rule.course}
    BY <1>6 DEF Named, NamesCourse
  <2>4. QED
    BY <1>4, <1>5, <2>1, <2>2, <2>3, Zenon DEF facts
<1>7. CASE rule.kind \in {"COURSE_PASSED_OR_IN_PROGRESS", "COREQUISITE"}
  <2>1. ExpectLeaf(rule, plan, term, History, revision.total) = CourseAnswer(rule.course, TRUE, plan, term, History)
    BY <1>7 DEF ExpectLeaf
  <2>2. Leaf(rule, facts) = AboutCourses({rule.course}, facts, rule.course \in facts.passed \cup facts.inProgress)
    BY <1>7 DEF Leaf
  <2>3. Named(rule) = {rule.course}
    BY <1>7 DEF Named, NamesCourse
  <2>4. QED
    BY <1>4, <1>5, <2>1, <2>2, <2>3, Zenon DEF facts
<1>8. CASE rule.kind = "MANDATORY_COURSES_COMPLETED"
  <2>1. ExpectLeaf(rule, plan, term, History, revision.total) =
           CombineAll({CourseAnswer(c, FALSE, plan, term, History) : c \in rule.courses})
    BY <1>8 DEF ExpectLeaf
  <2>2. {CourseAnswer(c, FALSE, plan, term, History) : c \in rule.courses} =
           {Decide(c \in facts.passed) : c \in rule.courses}
    BY <1>4
  <2>3. CombineAll({Decide(c \in facts.passed) : c \in rule.courses}) = Decide(rule.courses \subseteq facts.passed)
    BY DEF CombineAll, Decide
  <2>4. Leaf(rule, facts) = AboutCourses(rule.courses, facts, rule.courses \subseteq facts.passed)
    BY <1>8 DEF Leaf
  <2>5. Named(rule) = rule.courses
    BY <1>8 DEF Named, NamesCourse
  <2>6. QED
    BY <1>5, <2>1, <2>2, <2>3, <2>4, <2>5, Zenon DEF facts
<1>9. CASE rule.kind = "UNKNOWN"
  BY <1>9 DEF ExpectLeaf, Leaf, OpenOr
<1>10. QED
  BY <1>6, <1>7, <1>8, <1>9 DEF CourseKinds

\* The courses named in a rule, or in one inside of it.
NamedIn(rule) == UNION {Named(part.rule) : part \in Parts(rule)}

LEMMA NamedInside ==
  ASSUME NEW rule \in AuditRule
  PROVE  Named(rule) \subseteq NamedIn(rule) /\ \A child \in Children(rule) : NamedIn(child) \subseteq NamedIn(rule)
<1>1. Named(rule) \subseteq NamedIn(rule)
  BY PartsAreThere DEF NamedIn
<1>2. ASSUME NEW child \in Children(rule), NEW inner \in Parts(child)
      PROVE  Named(inner.rule) \subseteq NamedIn(rule)
  <2>1. PICK part \in Parts(rule) : part.rule = inner.rule
    BY PartsAreThere
  <2>2. QED
    BY <2>1 DEF NamedIn
<1>3. QED
  BY <1>1, <1>2 DEF NamedIn

\* Answers that are all expected, or one of which is open where they are not.
LEMMA CombinedAgree ==
  ASSUME NEW given, NEW due, NEW names, NEW unknown,
         \/ given = due
         \/ /\ names \cap unknown # {} /\ "UNKNOWN" \in given
            /\ \A a \in given : a = "UNKNOWN" \/ a \in due
  PROVE  /\ OpenOr(CombineAll(given), CombineAll(due), names, unknown)
         /\ OpenOr(CombineAny(given), CombineAny(due), names, unknown)
  BY DEF CombineAll, CombineAny, OpenOr

LEMMA WiderNames ==
  ASSUME NEW answer, NEW expected, NEW names, NEW wider, NEW unknown, names \subseteq wider,
         OpenOr(answer, expected, names, unknown)
  PROVE  OpenOr(answer, expected, wider, unknown)
  BY DEF OpenOr

LEMMA RulesAgree ==
  ASSUME TypeOK, Recognized(student) = {}, NEW term \in Nat, \A item \in plan : item.term \in Nat,
         NEW rule \in AuditRule, AboutCoursesOnly(rule)
  PROVE  OpenOr(Evaluate(rule, FactsAt(term)), Expect(rule, plan, term, History, revision.total),
                NamedIn(rule), FactsAt(term).unknown)
<1> DEFINE expected == Forecast(plan, term, History, revision.total)
           asked    == Asked(FactsAt(term))
           ahead    == [r \in AuditRule |-> ExpectLeaf(r, plan, term, History, revision.total)]
           LeavesOf(f) == [r \in AuditRule |-> Leaf(r, f)]
           leaf     == LeavesOf(FactsAt(term))
           unknown  == FactsAt(term).unknown
<1>1. PICK only \in [AuditRule -> BOOLEAN] :
         /\ \A r \in AuditRule : only[r] = OnlyStep(r, only)
         /\ \A r : AboutCoursesOnly(r) = only[r]
  BY OnlyUnfolds
<1>2. ASSUME NEW r \in AuditRule
      PROVE  expected[r] = Combined(r, expected, ahead) /\ asked[r] = Combined(r, asked, leaf)
  <2>1. expected = [q \in AuditRule |-> Combined(q, expected, ahead)]
    <3> DEFINE history == History
               total   == revision.total
    <3> HIDE DEF history, total
    <3>1. Forecast(plan, term, history, total) =
             [q \in AuditRule |-> Combined(q, Forecast(plan, term, history, total),
                                    [s \in AuditRule |-> ExpectLeaf(s, plan, term, history, total)])]
      BY ExpectUnfolds
    <3>2. QED
      BY <3>1 DEF history, total
  <2>2. asked = [q \in AuditRule |-> Combined(q, asked, leaf)]
    <3> DEFINE facts == FactsAt(term)
    <3> HIDE DEF facts
    <3>1. Asked(facts) = [q \in AuditRule |-> Combined(q, Asked(facts), LeavesOf(facts))]
      BY EvaluateUnfolds
    <3>2. QED
      BY <3>1 DEF facts
  <2> HIDE DEF expected, asked
  <2>3. QED
    BY <2>1, <2>2, Zenon
<1>3. \A r \in AuditRule : r.kind \in CourseKinds => OpenOr(leaf[r], ahead[r], Named(r), unknown)
  BY LeafAgrees
<1> HIDE DEF expected, asked, ahead, leaf, unknown
<1> DEFINE Good == {r \in AuditRule : only[r] => OpenOr(asked[r], expected[r], NamedIn(r), unknown)}
<1>4. ASSUME NEW r \in AuditRule, \A child \in Children(r) : child \in Good, only[r]
      PROVE  OpenOr(asked[r], expected[r], NamedIn(r), unknown)
  <2>1. CASE r.kind \in {"ALL", "ANY", "NOT"}
    <3>1. \A c \in Children(r) : only[c]
      BY <1>1, <1>4, <2>1, Zenon DEF OnlyStep
    <3>2. \A c \in Children(r) : OpenOr(asked[c], expected[c], NamedIn(c), unknown)
      BY <1>4, <3>1
    <3>3. \A c \in Children(r) : OpenOr(asked[c], expected[c], NamedIn(r), unknown)
      BY <3>2, NamedInside, WiderNames
    <3>4. CASE r.kind \in {"ALL", "ANY"}
      <4>1. \A c \in ToSet(r.children) : OpenOr(asked[c], expected[c], NamedIn(r), unknown)
        BY <3>3, <3>4 DEF Children
      <4> DEFINE given == {asked[c] : c \in ToSet(r.children)}
                 due   == {expected[c] : c \in ToSet(r.children)}
      <4>2. /\ OpenOr(CombineAll(given), CombineAll(due), NamedIn(r), unknown)
            /\ OpenOr(CombineAny(given), CombineAny(due), NamedIn(r), unknown)
        <5>1. \A a \in given : \E c \in ToSet(r.children) : a = asked[c]
          OBVIOUS
        <5>2. \A c \in ToSet(r.children) : asked[c] \in given /\ expected[c] \in due
          OBVIOUS
        <5>3. \A a \in given : a = "UNKNOWN" \/ a \in due
          BY <4>1, <5>1, <5>2 DEF OpenOr
        <5>4. ASSUME given # due
              PROVE  NamedIn(r) \cap unknown # {} /\ "UNKNOWN" \in given
          <6>1. PICK c \in ToSet(r.children) : asked[c] # expected[c]
            BY <5>4
          <6>2. QED
            BY <4>1, <5>2, <6>1 DEF OpenOr
        <5> HIDE DEF given, due
        <5>5. QED
          BY <5>3, <5>4, CombinedAgree
      <4>3. \/ asked[r] = CombineAll(given) /\ expected[r] = CombineAll(due)
            \/ asked[r] = CombineAny(given) /\ expected[r] = CombineAny(due)
        BY <1>2, <3>4 DEF Combined
      <4> HIDE DEF given, due
      <4>4. QED
        BY <4>2, <4>3
    <3>5. CASE r.kind = "NOT"
      <4>1. OpenOr(asked[r.child], expected[r.child], NamedIn(r), unknown)
        BY <3>3, <3>5 DEF Children
      <4>2. expected[r] = Negate(expected[r.child]) /\ asked[r] = Negate(asked[r.child])
        BY <1>2, <3>5 DEF Combined
      <4>3. Negate("UNKNOWN") = "UNKNOWN"
        BY DEF Negate
      <4>4. QED
        BY <4>1, <4>2, <4>3 DEF OpenOr
    <3>6. QED
      BY <2>1, <3>4, <3>5
  <2>2. CASE r.kind \notin {"ALL", "ANY", "NOT"}
    <3>1. r.kind \in CourseKinds
      BY <1>1, <1>4, <2>2, Zenon DEF OnlyStep
    <3>2. expected[r] = ahead[r] /\ asked[r] = leaf[r]
      BY <1>2, <2>2 DEF Combined
    <3>3. OpenOr(leaf[r], ahead[r], Named(r), unknown)
      BY <1>3, <3>1
    <3>4. QED
      BY <3>2, <3>3, NamedInside, WiderNames
  <2>3. QED
    BY <2>1, <2>2
<1>5. AuditRule \subseteq Good
  <2>1. \A r \in AuditRule : (\A child \in Children(r) : child \in Good) => r \in Good
    BY <1>4
  <2> HIDE DEF Good
  <2>2. QED
    BY <2>1, RulesAreWellFounded
<1>6. only[rule]
  BY <1>1
<1>7. OpenOr(asked[rule], expected[rule], NamedIn(rule), unknown)
  BY <1>5, <1>6
<1>8. QED
  BY <1>7, ExpectUnfolds, EvaluateUnfolds DEF expected, asked, unknown

\* What the validator says of a planned course is what the audit will say in its term,
\* unless the credits of a course that a rule names are unknown.
THEOREM PlanAgrees == Spec => []PlanAgreesWithAudit
<1>1. ASSUME TypeOK PROVE PlanAgreesWithAudit
  <2> DEFINE asked(item) == {r \in Requirements(item.course) : r.verified}
             said(item)  == CombineAll({Evaluate(r.rule, FactsAt(item.term)) : r \in asked(item)})
             ahead(item) == PrerequisiteState(item, [c \in Courses |-> Requirements(c)], plan, History, revision.total)
  <2>1. SUFFICES ASSUME Recognized(student) = {}, NEW item \in plan,
                        asked(item) # {}, \A r \in asked(item) : AboutCoursesOnly(r.rule)
                 PROVE  \/ said(item) = ahead(item)
                        \/ /\ said(item) = "UNKNOWN"
                           /\ \E r \in asked(item), c \in FactsAt(item.term).unknown : Names(r.rule, c)
    BY Zenon DEF PlanAgreesWithAudit
  <2>2. study \in Studies /\ plan \subseteq study.items
    BY <1>1 DEF TypeOK
  <2>3. \A i \in plan : i.term \in Nat /\ i.course \in Courses
    <3>1. \A i \in plan : i.course \in Courses /\ i.term \in DOMAIN study.calendar
      BY <2>2, StudiesAssumption DEF IsItem
    <3>2. DOMAIN study.calendar = 1..Len(study.calendar) /\ Len(study.calendar) \in Nat
      BY <2>2, StudiesAssumption
    <3>3. QED
      BY <3>1, <3>2
  <2>4. \A r \in revision.requirements : r.rule \in AuditRule /\ r.rule # None
    BY <2>2, StudyIsSound, RulesAssumption DEF IsRevision
  <2> DEFINE asking == {r \in [c \in Courses |-> Requirements(c)][item.course] : r.verified /\ r.rule # None}
  <2>5. asking = asked(item)
    BY <2>3, <2>4 DEF Requirements
  <2> DEFINE named   == UNION {NamedIn(r.rule) : r \in asked(item)}
             unknown == FactsAt(item.term).unknown
             answer  == [r \in asked(item) |-> Evaluate(r.rule, FactsAt(item.term))]
             due     == [r \in asked(item) |-> Expect(r.rule, plan, item.term, History, revision.total)]
  <2>6. \A r \in asked(item) : OpenOr(answer[r], due[r], named, unknown)
    <3>1. \A r \in asked(item) : OpenOr(answer[r], due[r], NamedIn(r.rule), unknown)
      BY <1>1, <2>1, <2>3, <2>4, RulesAgree DEF Requirements
    <3>2. \A r \in asked(item) : NamedIn(r.rule) \subseteq named
      OBVIOUS
    <3> HIDE DEF named, unknown, answer, due, asked
    <3>3. QED
      BY <3>1, <3>2, WiderNames
  <2>7. ahead(item) = IF asking = {} THEN "UNKNOWN"
                      ELSE CombineAll({Expect(r.rule, plan, item.term, History, revision.total) : r \in asking})
    BY Zenon DEF PrerequisiteState
  <2> HIDE DEF asking, asked, ahead
  <2>8. OpenOr(CombineAll({answer[r] : r \in asked(item)}), CombineAll({due[r] : r \in asked(item)}), named, unknown)
    <3> DEFINE given    == {answer[r] : r \in asked(item)}
               expected == {due[r] : r \in asked(item)}
    <3>1. \A a \in given : \E r \in asked(item) : a = answer[r]
      OBVIOUS
    <3>2. \A r \in asked(item) : answer[r] \in given /\ due[r] \in expected
      OBVIOUS
    <3> HIDE DEF named, unknown, answer, due
    <3>3. \A a \in given : a = "UNKNOWN" \/ a \in expected
      BY <2>6, <3>1, <3>2 DEF OpenOr
    <3>4. ASSUME given # expected
          PROVE  named \cap unknown # {} /\ "UNKNOWN" \in given
      <4>1. PICK r \in asked(item) : answer[r] # due[r]
        BY <3>4
      <4>2. QED
        BY <2>6, <3>2, <4>1 DEF OpenOr
    <3> HIDE DEF given, expected
    <3>5. OpenOr(CombineAll(given), CombineAll(expected), named, unknown)
      BY <3>3, <3>4, CombinedAgree
    <3>6. QED
      BY <3>5 DEF given, expected
  <2>9. /\ {answer[r] : r \in asked(item)} = {Evaluate(r.rule, FactsAt(item.term)) : r \in asked(item)}
        /\ {due[r] : r \in asked(item)} = {Expect(r.rule, plan, item.term, History, revision.total) : r \in asked(item)}
    OBVIOUS
  <2>10. OpenOr(said(item), ahead(item), named, unknown)
    BY <2>1, <2>5, <2>7, <2>8, <2>9
  <2>11. named \cap unknown # {} => \E r \in asked(item), c \in unknown : Names(r.rule, c)
    BY DEF NamedIn, Names
  <2> HIDE DEF said, named, unknown
  <2>12. QED
    BY <2>10, <2>11 DEF OpenOr, unknown
<1>2. QED
  BY <1>1, TypeCorrect, PTL

-----------------------------------------------------------------------------
(* Sums.                                                                   *)

\* The sum over a set, given the sums over the smaller ones.
TakenFrom(w, T, sum) ==
    IF T = {} THEN 0 ELSE w[CHOOSE a \in T : TRUE] + sum[T \ {CHOOSE a \in T : TRUE}]

Sums(w, S) == CHOOSE sum : sum = [T \in SUBSET S |-> TakenFrom(w, T, sum)]

LEMMA SumsUnfold ==
  ASSUME NEW S, IsFiniteSet(S), NEW w \in [S -> Nat]
  PROVE  /\ Sums(w, S) \in [SUBSET S -> Nat]
         /\ \A T \in SUBSET S : Sums(w, S)[T] = TakenFrom(w, T, Sums(w, S))
<1> DEFINE depth == [T \in SUBSET S |-> Cardinality(T)]
           step  == [T \in SUBSET S |-> [g \in [SUBSET S -> Nat] |-> TakenFrom(w, T, g)]]
<1>1. depth \in [SUBSET S -> Nat]
  BY FS_Subset, FS_CardinalityType
<1>2. ASSUME NEW T \in SUBSET S, T # {}
      PROVE  /\ (CHOOSE a \in T : TRUE) \in T
             /\ T \ {CHOOSE a \in T : TRUE} \in SUBSET S
             /\ depth[T \ {CHOOSE a \in T : TRUE}] < depth[T]
  <2> DEFINE y    == CHOOSE a \in T : TRUE
             rest == T \ {y}
  <2>1. y \in T
    BY <1>2
  <2> HIDE DEF y
  <2>2. IsFiniteSet(T) /\ Cardinality(T) \in Nat
    BY FS_Subset, FS_CardinalityType
  <2>3. Cardinality(rest) = Cardinality(T) - 1
    BY <2>1, <2>2, FS_RemoveElement
  <2>4. rest \in SUBSET S
    OBVIOUS
  <2>5. QED
    BY <2>1, <2>2, <2>3, <2>4 DEF y
<1>3. ASSUME NEW T \in SUBSET S, NEW g \in [SUBSET S -> Nat] PROVE step[T][g] = TakenFrom(w, T, g) /\ step[T][g] \in Nat
  BY <1>2 DEF TakenFrom
<1>4. ASSUME NEW T \in SUBSET S, NEW g \in [SUBSET S -> Nat], NEW h \in [SUBSET S -> Nat],
             \A U \in SUBSET S : depth[U] < depth[T] => g[U] = h[U]
      PROVE  step[T][g] = step[T][h]
  <2>1. step[T][g] = TakenFrom(w, T, g) /\ step[T][h] = TakenFrom(w, T, h)
    BY <1>3
  <2>2. CASE T = {}
    BY <2>1, <2>2 DEF TakenFrom
  <2>3. CASE T # {}
    <3> DEFINE rest == T \ {CHOOSE a \in T : TRUE}
    <3>1. g[rest] = h[rest]
      BY <1>2, <1>4, <2>3
    <3>2. QED
      BY <2>1, <2>3, <3>1 DEF TakenFrom
  <2>4. QED
    BY <2>2, <2>3
<1> HIDE DEF depth, step
<1>5. PICK f \in [SUBSET S -> Nat] : \A T \in SUBSET S : f[T] = step[T][f]
  <2>1. Descends(SUBSET S, depth, Nat, step)
    BY <1>1, <1>3, <1>4 DEF Descends
  <2> DEFINE parts == SUBSET S
             terms == Nat
  <2>2. 0 \in terms /\ Descends(parts, depth, terms, step)
    BY <2>1
  <2> HIDE DEF parts, terms
  <2>3. \E g \in [parts -> terms] : \A T \in parts : g[T] = step[T][g]
    BY <2>2, RecursionIsSound
  <2>4. QED
    BY <2>3 DEF parts, terms
<1>6. f = [T \in SUBSET S |-> TakenFrom(w, T, f)]
  BY <1>3, <1>5
<1> DEFINE sum == Sums(w, S)
<1>7. sum = [T \in SUBSET S |-> TakenFrom(w, T, sum)]
  BY <1>6, Zenon DEF Sums
<1> HIDE DEF sum
<1>8. \A T \in SUBSET S : sum[T] = TakenFrom(w, T, sum)
  BY <1>7, Zenon
<1>9. ASSUME NEW T \in SUBSET S PROVE sum[T] = f[T]
  <2> DEFINE bad == {n \in Nat : \E U \in SUBSET S : depth[U] = n /\ sum[U] # f[U]}
  <2>1. SUFFICES ASSUME bad # {} PROVE FALSE
    BY <1>1
  <2>2. PICK n \in bad : \A m \in bad : n <= m
    BY <2>1, LeastExists
  <2>3. PICK U \in SUBSET S : depth[U] = n /\ sum[U] # f[U]
    BY <2>2
  <2>4. CASE U = {}
    <3>1. f[U] = TakenFrom(w, U, f) /\ sum[U] = TakenFrom(w, U, sum)
      BY <1>3, <1>5, <1>8
    <3>2. TakenFrom(w, U, f) = 0 /\ TakenFrom(w, U, sum) = 0
      BY <2>4 DEF TakenFrom
    <3>3. QED
      BY <2>3, <3>1, <3>2
  <2>5. CASE U # {}
    <3> DEFINE rest == U \ {CHOOSE a \in U : TRUE}
    <3>1. rest \in SUBSET S /\ depth[rest] < n /\ depth[rest] \in Nat
      BY <1>1, <1>2, <2>3, <2>5
    <3>2. sum[rest] = f[rest]
      BY <2>2, <3>1
    <3>3. TakenFrom(w, U, sum) = TakenFrom(w, U, f)
      BY <2>5, <3>2 DEF TakenFrom
    <3>4. f[U] = TakenFrom(w, U, f) /\ sum[U] = TakenFrom(w, U, sum)
      BY <1>3, <1>5, <1>8
    <3>5. QED
      BY <2>3, <3>3, <3>4
  <2>6. QED
    BY <2>4, <2>5
<1>10. sum \in [SUBSET S -> Nat]
  <2>1. \A T \in SUBSET S : TakenFrom(w, T, sum) \in Nat
    BY <1>8, <1>9
  <2>2. QED
    BY <1>7, <2>1
<1>11. QED
  BY <1>8, <1>10 DEF sum

\* Whatever is taken away first, the sum is the same.
LEMMA SumTakes ==
  ASSUME NEW S, IsFiniteSet(S), NEW w \in [S -> Nat], NEW part \in SUBSET S, NEW first \in part
  PROVE  Sums(w, S)[part] = w[first] + Sums(w, S)[part \ {first}]
<1> DEFINE sum == Sums(w, S)
           Takes(T) == \A x \in T : sum[T] = w[x] + sum[T \ {x}]
           bad == {n \in Nat : \E T \in SUBSET S : Cardinality(T) = n /\ ~Takes(T)}
<1>1. sum \in [SUBSET S -> Nat] /\ \A T \in SUBSET S : sum[T] = TakenFrom(w, T, sum)
  BY SumsUnfold
<1> HIDE DEF sum
<1>2. \A T \in SUBSET S : IsFiniteSet(T) /\ Cardinality(T) \in Nat
  BY FS_Subset, FS_CardinalityType
<1>3. SUFFICES ASSUME bad # {} PROVE FALSE
  <2>1. Cardinality(part) \in Nat
    BY <1>2
  <2>2. QED
    BY <2>1 DEF sum
<1>4. PICK n \in bad : \A m \in bad : n <= m
  BY <1>3, LeastExists
<1>5. PICK T \in SUBSET S : Cardinality(T) = n /\ ~Takes(T)
  BY <1>4
<1>6. PICK x \in T : sum[T] # w[x] + sum[T \ {x}]
  BY <1>5
<1> DEFINE y == CHOOSE a \in T : TRUE
<1>7. y \in T /\ sum[T] = w[y] + sum[T \ {y}]
  BY <1>1, <1>6 DEF TakenFrom
<1> HIDE DEF y
<1>8. ASSUME NEW z \in T PROVE Takes(T \ {z})
  <2>1. Cardinality(T \ {z}) = n - 1 /\ T \ {z} \in SUBSET S
    BY <1>2, <1>5, FS_RemoveElement
  <2>2. n - 1 \in Nat /\ n - 1 \notin bad
    BY <1>2, <1>4, <2>1
  <2> HIDE DEF Takes
  <2>3. QED
    BY <2>1, <2>2
<1>9. y # x
  BY <1>6, <1>7
<1>10. sum[T \ {y}] = w[x] + sum[(T \ {y}) \ {x}] /\ sum[T \ {x}] = w[y] + sum[(T \ {x}) \ {y}]
  BY <1>7, <1>8, <1>9
<1>11. (T \ {y}) \ {x} = (T \ {x}) \ {y}
  OBVIOUS
<1> DEFINE left == sum[(T \ {x}) \ {y}]
<1>12. w[x] \in Nat /\ w[y] \in Nat /\ left \in Nat
  BY <1>1, <1>7
<1> HIDE DEF left
<1>13. sum[T] = w[y] + (w[x] + left) /\ sum[T \ {x}] = w[y] + left
  BY <1>7, <1>10, <1>11 DEF left
<1>14. QED
  BY <1>6, <1>12, <1>13

\* Of two sums, that one is no less in which every term of the other one has a term
\* of its own.
LEMMA SumsInto ==
  ASSUME NEW A, IsFiniteSet(A), NEW v \in [A -> Nat], NEW C, IsFiniteSet(C), NEW w \in [C -> Nat],
         NEW h \in [A -> C], \A a \in A : v[a] = w[h[a]], \A a \in A, b \in A : h[a] = h[b] => a = b
  PROVE  Sums(v, A)[A] <= Sums(w, C)[C]
<1> DEFINE Less(T, D) == Sums(v, A)[T] <= Sums(w, C)[D]
           bad == {n \in Nat : \E T \in SUBSET A, D \in SUBSET C :
                      Cardinality(T) = n /\ (\A a \in T : h[a] \in D) /\ ~Less(T, D)}
<1>1. /\ Sums(v, A) \in [SUBSET A -> Nat]
      /\ \A T \in SUBSET A : Sums(v, A)[T] = TakenFrom(v, T, Sums(v, A))
      /\ \A T \in SUBSET A : \A x \in T : Sums(v, A)[T] = v[x] + Sums(v, A)[T \ {x}]
  <2>1. /\ Sums(v, A) \in [SUBSET A -> Nat]
        /\ \A T \in SUBSET A : Sums(v, A)[T] = TakenFrom(v, T, Sums(v, A))
    BY SumsUnfold, Zenon
  <2>2. ASSUME NEW T \in SUBSET A, NEW x \in T PROVE Sums(v, A)[T] = v[x] + Sums(v, A)[T \ {x}]
    BY Z3, SumTakes
  <2>3. QED
    BY <2>1, <2>2
<1>2. /\ Sums(w, C) \in [SUBSET C -> Nat]
      /\ \A D \in SUBSET C : \A x \in D : Sums(w, C)[D] = w[x] + Sums(w, C)[D \ {x}]
  <2>1. Sums(w, C) \in [SUBSET C -> Nat]
    BY SumsUnfold, Zenon
  <2>2. ASSUME NEW D \in SUBSET C, NEW x \in D PROVE Sums(w, C)[D] = w[x] + Sums(w, C)[D \ {x}]
    BY Z3, SumTakes
  <2>3. QED
    BY <2>1, <2>2
<1>3. \A T \in SUBSET A : IsFiniteSet(T) /\ Cardinality(T) \in Nat
  BY FS_Subset, FS_CardinalityType
<1>4. SUFFICES ASSUME bad # {} PROVE FALSE
  BY <1>3
<1>5. PICK n \in bad : \A m \in bad : n <= m
  BY <1>4, LeastExists
<1>6. PICK T \in SUBSET A, D \in SUBSET C : Cardinality(T) = n /\ (\A a \in T : h[a] \in D) /\ ~Less(T, D)
  BY <1>5
<1>7. CASE T = {}
  <2>1. Sums(v, A)[T] = 0
    BY <1>1, <1>7 DEF TakenFrom
  <2>2. Sums(w, C)[D] \in Nat
    BY <1>2
  <2>3. QED
    BY <1>6, <2>1, <2>2
<1>8. CASE T # {}
  <2>1. PICK a \in T : TRUE
    BY <1>8
  <2> DEFINE rest == T \ {a}
             room == D \ {h[a]}
  <2>2. rest \in SUBSET A /\ room \in SUBSET C /\ \A b \in rest : h[b] \in room
    BY <1>6, <2>1
  <2>3. Cardinality(rest) = n - 1
    BY <1>3, <1>6, <2>1, FS_RemoveElement
  <2>4. n - 1 \in Nat /\ n - 1 \notin bad
    BY <1>3, <1>5, <2>2, <2>3
  <2>5. Less(rest, room)
    <3> HIDE DEF Less
    <3>1. QED
      BY <2>2, <2>3, <2>4
  <2>6. Sums(v, A)[T] = v[a] + Sums(v, A)[rest]
    BY <1>1, <2>1
  <2>7. Sums(w, C)[D] = w[h[a]] + Sums(w, C)[room]
    BY <1>2, <1>6, <2>1
  <2>8. v[a] = w[h[a]] /\ v[a] \in Nat /\ Sums(v, A)[rest] \in Nat /\ Sums(w, C)[room] \in Nat
    BY <1>1, <1>2, <2>1, <2>2
  <2>9. QED
    BY <1>6, <2>5, <2>6, <2>7, <2>8
<1>9. QED
  BY <1>7, <1>8

-----------------------------------------------------------------------------
(* The input of the optimizer.                                             *)

Keys(input) == {<<k.course, k.term>> : k \in input.candidates}

IsSound(input) ==
    /\ input.courses \subseteq Courses /\ input.credits \in [Courses -> Nat \cup {None}]
    /\ Len(input.terms) \in Nat /\ DOMAIN input.terms = 1..Len(input.terms)
    /\ \A k \in input.candidates :
          /\ k.course \in input.courses /\ k.term \in DOMAIN input.terms
          /\ k.meetings # {} => k.section # None
    /\ \A k \in input.candidates, l \in input.candidates : k.course = l.course /\ k.term = l.term => k = l
    /\ \A g \in DOMAIN input.groups : input.groups[g] \in Int
    /\ input.preferences.target \in Nat \cup {None}
    /\ PreferencesValid(input.preferences)

\* Each choice of a selection is open, not passed, and the only one of its course.
LEMMA ChoicesAreOpen ==
  ASSUME NEW input, IsSound(input), NEW x \in Selections(input)
  PROVE  /\ IsFiniteSet(x)
         /\ \A choice \in x : \E k \in input.candidates :
               /\ choice = <<k.course, k.term>> /\ k.course \notin input.passed /\ ~Blocked(input, k)
         /\ \A p \in x, q \in x : p[1] = q[1] => p = q
<1>1. /\ x \subseteq Keys(input) /\ OncePerCourse(input, x) /\ NothingBlocked(input, x)
  BY DEF Selections, Keys
<1>2. IsFiniteSet(x)
  <2>1. IsFiniteSet(Courses) /\ IsFiniteSet(DOMAIN input.terms)
    <3>1. IsFiniteSet(Courses)
      BY FS_Interval, NumbersAssumption DEF Courses
    <3>2. DOMAIN input.terms = 1..Len(input.terms) /\ Len(input.terms) \in Int
      BY DEF IsSound
    <3>3. \A n \in Int : IsFiniteSet(1..n)
      BY FS_Interval
    <3>4. QED
      BY <3>1, <3>2, <3>3
  <2>2. IsFiniteSet(Courses \X DOMAIN input.terms)
    BY <2>1, FS_Product
  <2>3. x \in SUBSET (Courses \X DOMAIN input.terms)
    BY <1>1 DEF Keys, IsSound
  <2>4. QED
    BY <2>2, <2>3, FS_Subset
<1>3. ASSUME NEW choice \in x
      PROVE  \E k \in input.candidates :
                choice = <<k.course, k.term>> /\ k.course \notin input.passed /\ ~Blocked(input, k)
  <2>1. PICK k \in input.candidates : choice = <<k.course, k.term>>
    BY <1>1 DEF Keys
  <2>2. k.course \notin input.passed /\ ~Blocked(input, k)
    BY <1>1, <2>1 DEF NothingBlocked
  <2>3. QED
    BY <2>1, <2>2
<1>4. ASSUME NEW p \in x, NEW q \in x, p[1] = q[1], p # q PROVE FALSE
  <2> DEFINE same == {r \in x : r[1] = p[1]}
  <2>1. IsFiniteSet(same)
    BY <1>2, FS_Subset
  <2>2. {p} \cup {q} \in SUBSET same
    BY <1>4
  <2>3. IsFiniteSet({p}) /\ Cardinality({p}) = 1
    BY FS_Singleton
  <2>4. Cardinality({p} \cup {q}) = 2
    <3>1. q \notin {p}
      BY <1>4
    <3>2. Cardinality({p} \cup {q}) = IF q \in {p} THEN Cardinality({p}) ELSE Cardinality({p}) + 1
      BY <2>3, FS_AddElement, Zenon
    <3>3. QED
      BY <2>3, <3>1, <3>2
  <2>5. Cardinality({p} \cup {q}) <= Cardinality(same) /\ Cardinality(same) \in Nat
    BY <2>1, <2>2, FS_Subset, FS_CardinalityType
  <2>6. p[1] \in input.courses
    BY <1>3 DEF IsSound
  <2>7. Cardinality(same) <= 1
    BY <1>1, <2>6 DEF OncePerCourse
  <2>8. QED
    BY <2>4, <2>5, <2>7
<1>5. QED
  BY <1>2, <1>3, <1>4

\* How the credits of choices, and of courses, are added up.
ChoicesTaken(input, T, sum) ==
    IF T = {} THEN 0
    ELSE Known(input.credits[(CHOOSE a \in T : TRUE)[1]]) + sum[T \ {CHOOSE a \in T : TRUE}]

CoursesTaken(input, T, sum) ==
    IF T = {} THEN 0
    ELSE Known(input.credits[CHOOSE a \in T : TRUE]) + sum[T \ {CHOOSE a \in T : TRUE}]

Fitting(input, courses) == {c \in courses \ input.passed : Viable(input, c)}

LEMMA ChoicesSummed ==
  ASSUME NEW input, NEW A
  PROVE  CreditsOf(input, A) = Sums([a \in A |-> Known(input.credits[a[1]])], A)[A]
<1> DEFINE v == [a \in A |-> Known(input.credits[a[1]])]
<1>1. CreditsOf(input, A) = (CHOOSE f : f = [T \in SUBSET A |-> ChoicesTaken(input, T, f)])[A]
  BY Zenon DEF CreditsOf, MapThenSumSet, MapThenFoldSet, ChoicesTaken
<1>2. ASSUME NEW f, NEW T \in SUBSET A PROVE TakenFrom(v, T, f) = ChoicesTaken(input, T, f)
  <2>1. ASSUME T # {}
        PROVE  v[CHOOSE a \in T : TRUE] = Known(input.credits[(CHOOSE a \in T : TRUE)[1]])
    <3>1. (CHOOSE a \in T : TRUE) \in A
      BY <2>1
    <3>2. QED
      BY <3>1
  <2> HIDE DEF v
  <2>2. QED
    BY <2>1 DEF TakenFrom, ChoicesTaken
<1> HIDE DEF v
<1>3. \A f : [T \in SUBSET A |-> TakenFrom(v, T, f)] = [T \in SUBSET A |-> ChoicesTaken(input, T, f)]
  BY <1>2
<1>4. Sums(v, A) = CHOOSE f : f = [T \in SUBSET A |-> ChoicesTaken(input, T, f)]
  BY <1>3, Zenon DEF Sums
<1>5. QED
  BY <1>1, <1>4, Zenon DEF v

\* What is chosen from some courses brings no more credits than they could bring.
LEMMA CreditsFit ==
  ASSUME NEW input, IsSound(input), NEW x \in Selections(input), NEW courses, NEW A,
         \A a \in A : <<a[1], a[2]>> \in x /\ a[1] \in courses,
         \A a \in A, b \in A : a[1] = b[1] => a = b
  PROVE  CreditsOf(input, A) \in Nat /\ Capacity(input, courses) \in Nat
         /\ CreditsOf(input, A) <= Capacity(input, courses)
<1> DEFINE C == Fitting(input, courses)
           v == [a \in A |-> Known(input.credits[a[1]])]
           w == [c \in C |-> Known(input.credits[c])]
           h == [a \in A |-> a[1]]
<1>1. C \subseteq Courses
  BY DEF Fitting, Viable, Options, IsSound
<1>2. IsFiniteSet(C)
  <2>1. IsFiniteSet(Courses)
    BY FS_Interval, NumbersAssumption DEF Courses
  <2> HIDE DEF C
  <2>2. QED
    BY <1>1, <2>1, FS_Subset
<1>3. ASSUME NEW a \in A PROVE a[1] \in C
  <2>1. PICK k \in input.candidates : <<a[1], a[2]>> = <<k.course, k.term>> /\ k.course \notin input.passed /\ ~Blocked(input, k)
    BY ChoicesAreOpen
  <2>2. a[1] = k.course
    BY <2>1
  <2>3. QED
    BY <2>1, <2>2 DEF Fitting, Viable, Options
<1> HIDE DEF C
<1>4. IsFiniteSet(A)
  <2>1. h \in Injection(A, C)
    BY <1>3 DEF Injection, IsInjective
  <2>2. QED
    BY <1>2, <2>1, FS_Injection
<1>5. v \in [A -> Nat] /\ w \in [C -> Nat] /\ h \in [A -> C]
  BY <1>1, <1>3 DEF IsSound, Known
<1>6. \A a \in A : v[a] = w[h[a]]
  BY <1>3
<1>7. \A a \in A, b \in A : h[a] = h[b] => a = b
  OBVIOUS
<1>8. CreditsOf(input, A) = Sums(v, A)[A]
  BY ChoicesSummed
<1>9. Capacity(input, courses) = Sums(w, C)[C]
  <2>1. Capacity(input, courses) = (CHOOSE f : f = [T \in SUBSET C |-> CoursesTaken(input, T, f)])[C]
    BY Zenon DEF Capacity, MapThenSumSet, MapThenFoldSet, CoursesTaken, Fitting, C
  <2>2. ASSUME NEW f, NEW T \in SUBSET C PROVE TakenFrom(w, T, f) = CoursesTaken(input, T, f)
    <3>1. ASSUME T # {}
          PROVE  w[CHOOSE a \in T : TRUE] = Known(input.credits[CHOOSE a \in T : TRUE])
      <4>1. (CHOOSE a \in T : TRUE) \in C
        BY <3>1
      <4>2. QED
        BY <4>1
    <3> HIDE DEF w
    <3>2. QED
      BY <3>1 DEF TakenFrom, CoursesTaken
  <2> HIDE DEF w
  <2>3. \A f : [T \in SUBSET C |-> TakenFrom(w, T, f)] = [T \in SUBSET C |-> CoursesTaken(input, T, f)]
    BY <2>2
  <2>4. Sums(w, C) = CHOOSE f : f = [T \in SUBSET C |-> CoursesTaken(input, T, f)]
    BY <2>3, Zenon DEF Sums
  <2>5. QED
    BY <2>1, <2>4, Zenon
<1> HIDE DEF v, w, h
<1>10. Sums(v, A)[A] \in Nat /\ Sums(w, C)[C] \in Nat
  <2>1. Sums(v, A) \in [SUBSET A -> Nat]
    BY <1>4, <1>5, SumsUnfold
  <2>2. Sums(w, C) \in [SUBSET C -> Nat]
    BY <1>2, <1>5, SumsUnfold
  <2>3. QED
    BY <2>1, <2>2
<1>11. Sums(v, A)[A] <= Sums(w, C)[C]
  BY <1>2, <1>4, <1>5, <1>6, <1>7, SumsInto
<1>12. QED
  BY <1>8, <1>9, <1>10, <1>11

\* No assignment satisfies the model of an input that the checks before it refuse.
LEMMA NothingIsRefused ==
  ASSUME NEW input, IsSound(input), NEW s \in Solutions(input)
  PROVE  Conflicts(input) = {}
<1> DEFINE x == s.x
           y == s.y
<1>1. x \in Selections(input) /\ y \in SUBSET Countable(input, x)
  <2>1. PICK z \in Selections(input) : \E w \in SUBSET Countable(input, z) : s = [x |-> z, y |-> w]
    BY DEF Solutions
  <2>2. QED
    BY <2>1
<1>2. s.y = y /\ GroupsCovered(input, s)
  BY DEF Solutions
<1> HIDE DEF x, y
<1>3. /\ \A choice \in x : \E k \in input.candidates :
            choice = <<k.course, k.term>> /\ k.course \notin input.passed /\ ~Blocked(input, k)
      /\ \A p \in x, q \in x : p[1] = q[1] => p = q
  BY <1>1, ChoicesAreOpen
<1>4. /\ LocksKept(input, x) /\ NothingBlocked(input, x) /\ NoClash(input, x)
      /\ MandatoryTaken(input, x) /\ TargetMet(input, x)
  BY <1>1 DEF Selections
<1> DEFINE lockedOptions == {k \in input.candidates : <<k.course, k.term>> \in input.locked}
<1>5. ASSUME NEW k \in lockedOptions
      PROVE  <<k.course, k.term>> \in x /\ k.course \notin input.passed /\ ~Blocked(input, k)
  BY <1>4 DEF LocksKept, NothingBlocked
<1>6. ASSUME NEW k \in lockedOptions, NEW l \in lockedOptions, k.course = l.course
      PROVE  k.term = l.term
  <2>1. <<k.course, k.term>> = <<l.course, l.term>>
    BY <1>3, <1>5, <1>6
  <2>2. QED
    BY <2>1
<1>7. ASSUME NEW k \in lockedOptions, NEW l \in lockedOptions, k.course # l.course, k.term = l.term
      PROVE  ~Clash(input, k, l)
  <2>1. SUFFICES ASSUME Clash(input, k, l) PROVE FALSE
    OBVIOUS
  <2>2. k.section # None /\ l.section # None
    BY <2>1 DEF Clash, IsSound
  <2>3. QED
    BY <1>4, <1>5, <1>7, <2>1, <2>2 DEF NoClash
<1>8. ASSUME NEW c \in Required(input) PROVE Viable(input, c)
  <2>1. PICK p \in x : p[1] = c
    BY <1>4 DEF MandatoryTaken
  <2>2. PICK k \in input.candidates : p = <<k.course, k.term>> /\ ~Blocked(input, k)
    BY <1>3
  <2>3. k.course = c
    BY <2>1, <2>2
  <2>4. QED
    BY <2>2, <2>3 DEF Viable, Options
<1>9. ASSUME NEW g \in DOMAIN input.groups
      PROVE  ~TooLittle(Capacity(input, Members(input, g)), input.groups[g])
  <2> DEFINE A == {a \in y : a[3] = g /\ a[2] <= Len(input.terms)}
             courses == Members(input, g)
  <2>1. ASSUME NEW a \in A PROVE <<a[1], a[2]>> \in x /\ a[1] \in courses
    <3>1. PICK p \in x, h \in Groups : a = <<p[1], p[2], h>>
      BY <1>1 DEF Countable
    <3>2. PICK m \in input.memberships, t \in DOMAIN input.terms : a = <<m.course, t, m.group>>
      BY <1>1 DEF Countable
    <3>3. a[1] \in courses
      BY <3>2 DEF Members
    <3>4. PICK k \in input.candidates : p = <<k.course, k.term>>
      BY <1>3
    <3>5. <<a[1], a[2]>> = p
      BY <3>1, <3>4
    <3>6. QED
      BY <3>3, <3>5
  <2>2. ASSUME NEW a \in A, NEW b \in A, a[1] = b[1] PROVE a = b
    <3>1. <<a[1], a[2]>> = <<b[1], b[2]>>
      BY <1>3, <2>1, <2>2
    <3>2. PICK p \in x, h \in Groups : a = <<p[1], p[2], h>>
      BY <1>1 DEF Countable
    <3>3. PICK q \in x, i \in Groups : b = <<q[1], q[2], i>>
      BY <1>1 DEF Countable
    <3>4. h = g /\ i = g
      BY <3>2, <3>3
    <3>5. QED
      BY <3>1, <3>2, <3>3, <3>4
  <2>3. GroupCredits(input, s, g, Len(input.terms)) = CreditsOf(input, A)
    BY <1>2 DEF GroupCredits
  <2> HIDE DEF A, courses
  <2>4. /\ CreditsOf(input, A) \in Nat /\ Capacity(input, courses) \in Nat
        /\ CreditsOf(input, A) <= Capacity(input, courses)
    BY <1>1, <2>1, <2>2, CreditsFit
  <2>5. CreditsOf(input, A) >= input.groups[g] /\ input.groups[g] \in Int
    BY <1>2, <2>3 DEF GroupsCovered, IsSound
  <2>6. QED
    BY <2>4, <2>5 DEF TooLittle, courses
<1>10. ASSUME input.preferences.target # None
       PROVE  ~TooLittle(Capacity(input, input.courses), input.preferences.target)
  <2>1. \A a \in x : <<a[1], a[2]>> \in x /\ a[1] \in input.courses
    <3>1. ASSUME NEW a \in x PROVE <<a[1], a[2]>> \in x /\ a[1] \in input.courses
      <4>1. PICK k \in input.candidates : a = <<k.course, k.term>>
        BY <1>3
      <4>2. <<a[1], a[2]>> = a /\ a[1] = k.course
        BY <4>1
      <4>3. QED
        BY <4>2 DEF IsSound
    <3>2. QED
      BY <3>1
  <2>2. /\ CreditsOf(input, x) \in Nat /\ Capacity(input, input.courses) \in Nat
        /\ CreditsOf(input, x) <= Capacity(input, input.courses)
    BY <1>1, <1>3, <2>1, CreditsFit
  <2>3. CreditsOf(input, x) >= input.preferences.target /\ input.preferences.target \in Nat
    BY <1>4, <1>10 DEF TargetMet, IsSound
  <2>4. QED
    BY <2>2, <2>3 DEF TooLittle
<1> HIDE DEF lockedOptions
<1>11. /\ {k \in lockedOptions : k.course \in input.passed} = {}
       /\ {k \in lockedOptions : k.course \notin input.passed /\ Blocked(input, k)} = {}
       /\ {l \in lockedOptions : \E m \in lockedOptions : m.course = l.course /\ m.term # l.term} = {}
       /\ {l \in lockedOptions :
              \E m \in lockedOptions : m.course # l.course /\ m.term = l.term /\ Clash(input, l, m)} = {}
       /\ {d \in Required(input) : ~Viable(input, d)} = {}
  BY <1>5, <1>6, <1>7, <1>8
<1>12. {h \in DOMAIN input.groups :
           /\ TooLittle(Capacity(input, Members(input, h)), input.groups[h])
           /\ ~CreditsOpen(input, Members(input, h))} = {}
  BY <1>9
<1>13. SUFFICES ASSUME NEW reason \in Conflicts(input) PROVE FALSE
  OBVIOUS
<1>14. QED
  BY <1>10, <1>11, <1>12 DEF Conflicts, lockedOptions

\* The optimizer is given an input of that form.
LEMMA InputIsSound ==
  ASSUME TypeOK, study.solver # None
  PROVE  IsSound(Input)
<1> DEFINE offered == study.solver.offered
           wishes  == study.solver.preferences
           courses == InputCourses(revision, plan, study.solver.elsewhere)
<1>1. study \in Studies /\ IsRevision(revision) /\ IsRecord(student) /\ plan \subseteq study.items
  BY StudyIsSound DEF TypeOK, IsRecord
<1>2. /\ Len(study.calendar) \in Nat /\ DOMAIN study.calendar = 1..Len(study.calendar)
      /\ \A i \in study.items : IsItem(i, study.calendar)
      /\ IsSolved(study.solver, study.items, study.calendar)
  BY <1>1, StudiesAssumption
<1>3. courses \subseteq Courses
  BY <1>1, <1>2 DEF InputCourses, IsRevision, IsMembership, IsItem, IsSolved
<1>4. \A g \in DOMAIN RemainingCredits(revision, student) : RemainingCredits(revision, student)[g] \in Int
  <2>1. NumCourses \in 0..NumCourses
    BY NumbersAssumption
  <2>2. GroupApplied(revision, student) \in Ledgers(revision)
    BY <1>1, <2>1, LedgerUnfolds
  <2>3. \A g \in Groups : GroupApplied(revision, student)[g] \in Nat /\ revision.groups[g].required \in Nat
    BY <1>1, <2>2 DEF Ledgers, IsRevision
  <2>4. QED
    BY <2>3 DEF RemainingCredits
<1>5. ASSUME NEW c \in courses, NEW t \in DOMAIN study.calendar
      PROVE  /\ CandidateFor(plan, offered, c, t).course = c /\ CandidateFor(plan, offered, c, t).term = t
             /\ CandidateFor(plan, offered, c, t).meetings # {} => CandidateFor(plan, offered, c, t).section # None
  <2> DEFINE existing == {i \in plan : i.course = c /\ i.term = t}
             planned  == IF existing = {} THEN [section |-> None, meetings |-> {}] ELSE CHOOSE i \in existing : TRUE
  <2>1. planned.meetings # {} => planned.section # None
    <3>1. CASE existing = {}
      BY <3>1
    <3>2. CASE existing # {}
      <4>1. (CHOOSE i \in existing : TRUE) \in existing
        BY <3>2
      <4>2. planned \in existing
        BY <3>2, <4>1
      <4> HIDE DEF planned
      <4>3. QED
        BY <1>1, <1>2, <4>2 DEF IsItem
    <3>3. QED
      BY <3>1, <3>2
  <2>2. CandidateFor(plan, offered, c, t) =
           [course |-> c, term |-> t, state |-> offered[c][t],
            section |-> planned.section, meetings |-> planned.meetings]
    BY DEF CandidateFor
  <2> HIDE DEF planned
  <2>3. QED
    BY <2>1, <2>2
<1> DEFINE input == SolverInput(revision, student, plan, study.solver.elsewhere, offered, study.calendar, wishes)
<1>6. /\ input.courses = courses /\ input.credits = revision.credits /\ input.terms = study.calendar
      /\ input.candidates = {CandidateFor(plan, offered, c, t) : c \in courses, t \in DOMAIN study.calendar}
      /\ input.groups = RemainingCredits(revision, student) /\ input.preferences = wishes
  BY DEF SolverInput
<1>7. Input = input
  BY DEF Input
<1> HIDE DEF input, courses, offered
<1>8. ASSUME NEW k \in input.candidates
      PROVE  /\ k.course \in input.courses /\ k.term \in DOMAIN input.terms
             /\ k.meetings # {} => k.section # None
             /\ k = CandidateFor(plan, offered, k.course, k.term)
  <2>1. PICK c \in courses, t \in DOMAIN study.calendar : k = CandidateFor(plan, offered, c, t)
    BY <1>6
  <2>2. k.course = c /\ k.term = t /\ k.meetings # {} => k.section # None
    BY <1>5, <2>1
  <2>3. QED
    BY <1>5, <1>6, <2>1
<1>9. \A k \in input.candidates, l \in input.candidates : k.course = l.course /\ k.term = l.term => k = l
  BY <1>8
<1>10. wishes.target \in Nat \cup {None} /\ PreferencesValid(wishes)
  BY <1>2 DEF IsSolved
<1>11. revision.credits \in [Courses -> Nat \cup {None}]
  BY <1>1 DEF IsRevision
<1>12. IsSound(input)
  BY <1>2, <1>3, <1>4, <1>6, <1>8, <1>9, <1>10, <1>11 DEF IsSound
<1>13. QED
  BY <1>7, <1>12

\* What is refused before the search has no solution, whatever the curriculum and the
\* history of the student, and the plan made up to then.
THEOREM Refused == Spec => []RefusedForAReason
<1>1. ASSUME TypeOK PROVE RefusedForAReason
  <2>1. SUFFICES ASSUME study.solver # None
                 PROVE  InputValid(Input) /\ (Conflicts(Input) # {} => Solutions(Input) = {})
    BY DEF RefusedForAReason
  <2>2. IsSound(Input)
    BY <1>1, <2>1, InputIsSound
  <2>3. InputValid(Input)
    BY <2>2 DEF InputValid, IsSound
  <2>4. \A s \in Solutions(Input) : Conflicts(Input) = {}
    BY <2>2, NothingIsRefused
  <2>5. QED
    BY <2>3, <2>4
<1>2. QED
  BY <1>1, TypeCorrect, PTL

-----------------------------------------------------------------------------
(* The plans of the optimizer.                                             *)

\* The plan has the choices of the selection, with their credits.
IsPlanOf(courses, input, x) ==
    /\ \A item \in courses :
          <<item.course, item.term>> \in x /\ item.credits = input.credits[item.course]
    /\ \A p \in x : \E item \in courses : p = <<item.course, item.term>>
    /\ \A i \in courses, j \in courses : i.course = j.course /\ i.term = j.term => i = j
    /\ IsFiniteSet(x) /\ x \subseteq Courses \X Nat
    /\ input.credits \in [Courses -> Nat \cup {None}]

ItemCredits(items) == MapThenSumSet(LAMBDA item : IF item.credits = None THEN 0 ELSE item.credits, items)

ItemsTaken(T, sum) ==
    IF T = {} THEN 0
    ELSE (IF (CHOOSE i \in T : TRUE).credits = None THEN 0 ELSE (CHOOSE i \in T : TRUE).credits)
            + sum[T \ {CHOOSE i \in T : TRUE}]

LEMMA ItemsSummed ==
  ASSUME NEW A
  PROVE  ItemCredits(A) = Sums([a \in A |-> Known(a.credits)], A)[A]
<1> DEFINE v == [a \in A |-> Known(a.credits)]
<1>1. ItemCredits(A) = (CHOOSE f : f = [T \in SUBSET A |-> ItemsTaken(T, f)])[A]
  BY Zenon DEF ItemCredits, MapThenSumSet, MapThenFoldSet, ItemsTaken
<1>2. ASSUME NEW f, NEW T \in SUBSET A PROVE TakenFrom(v, T, f) = ItemsTaken(T, f)
  <2>1. ASSUME T # {}
        PROVE  v[CHOOSE a \in T : TRUE] =
                  IF (CHOOSE i \in T : TRUE).credits = None THEN 0 ELSE (CHOOSE i \in T : TRUE).credits
    <3>1. (CHOOSE a \in T : TRUE) \in A
      BY <2>1
    <3>2. QED
      BY <3>1 DEF Known
  <2> HIDE DEF v
  <2>2. QED
    BY <2>1 DEF TakenFrom, ItemsTaken
<1> HIDE DEF v
<1>3. \A f : [T \in SUBSET A |-> TakenFrom(v, T, f)] = [T \in SUBSET A |-> ItemsTaken(T, f)]
  BY <1>2
<1>4. Sums(v, A) = CHOOSE f : f = [T \in SUBSET A |-> ItemsTaken(T, f)]
  BY <1>3, Zenon DEF Sums
<1>5. QED
  BY <1>1, <1>4, Zenon DEF v

\* Some choices bring the credits of the items they are made of.
LEMMA SameCredits ==
  ASSUME NEW courses, NEW input, NEW x, IsPlanOf(courses, input, x),
         NEW Q \in SUBSET courses, NEW A \in SUBSET x,
         \A item \in courses : item \in Q <=> <<item.course, item.term>> \in A
  PROVE  CreditsOf(input, A) = ItemCredits(Q) /\ CreditsOf(input, A) \in Nat
<1> DEFINE v == [a \in A |-> Known(input.credits[a[1]])]
           w == [q \in Q |-> Known(q.credits)]
           h == [a \in A |-> CHOOSE q \in Q : a = <<q.course, q.term>>]
           g == [q \in Q |-> <<q.course, q.term>>]
<1>1. ASSUME NEW q \in Q PROVE <<q.course, q.term>> \in A /\ q.course \in Courses /\ q.credits = input.credits[q.course]
  BY DEF IsPlanOf
<1>2. ASSUME NEW a \in A PROVE \E q \in Q : a = <<q.course, q.term>>
  BY DEF IsPlanOf
<1>3. ASSUME NEW a \in A PROVE h[a] \in Q /\ a = <<h[a].course, h[a].term>>
  BY <1>2
<1>4. ASSUME NEW q \in Q PROVE g[q] = <<q.course, q.term>> /\ g[q] \in A
  BY <1>1
<1>5. ASSUME NEW a \in A PROVE v[a] = Known(input.credits[a[1]]) /\ v[a] \in Nat
  BY DEF Known, IsPlanOf
<1>6. ASSUME NEW q \in Q PROVE w[q] = Known(q.credits) /\ w[q] \in Nat
  BY <1>1 DEF Known, IsPlanOf
<1>7. v \in [A -> Nat] /\ w \in [Q -> Nat] /\ h \in [A -> Q] /\ g \in [Q -> A]
  BY <1>3, <1>4, <1>5, <1>6
<1> HIDE DEF v, w, h, g
<1>8. IsFiniteSet(A)
  BY FS_Subset DEF IsPlanOf
<1>9. \A p \in Q, q \in Q : g[p] = g[q] => p = q
  BY <1>4 DEF IsPlanOf
<1>10. IsFiniteSet(Q)
  <2>1. g \in Injection(Q, A)
    BY <1>7, <1>9 DEF Injection, IsInjective
  <2>2. QED
    BY <1>8, <2>1, FS_Injection
<1>11. \A a \in A, b \in A : h[a] = h[b] => a = b
  BY <1>3
<1>12. \A a \in A : v[a] = w[h[a]]
  <2>1. ASSUME NEW a \in A PROVE v[a] = w[h[a]]
    <3>1. a[1] = h[a].course /\ h[a].credits = input.credits[h[a].course]
      BY <1>1, <1>3
    <3>2. QED
      BY <1>3, <1>5, <1>6, <3>1
  <2>2. QED
    BY <2>1
<1>13. \A q \in Q : w[q] = v[g[q]]
  <2>1. ASSUME NEW q \in Q PROVE w[q] = v[g[q]]
    <3>1. g[q] \in A /\ v[g[q]] = Known(input.credits[g[q][1]])
      BY <1>4, <1>5
    <3>2. g[q][1] = q.course /\ q.credits = input.credits[q.course]
      <4>1. <<q.course, q.term>>[1] = q.course
        OBVIOUS
      <4>2. QED
        BY <1>1, <1>4, <4>1, Zenon
    <3>3. w[q] = Known(q.credits)
      BY <1>6
    <3>4. QED
      BY <3>1, <3>2, <3>3, Zenon
  <2>2. QED
    BY <2>1
<1>14. Sums(v, A)[A] <= Sums(w, Q)[Q]
  BY <1>7, <1>8, <1>10, <1>11, <1>12, SumsInto
<1>15. Sums(w, Q)[Q] <= Sums(v, A)[A]
  BY <1>7, <1>8, <1>9, <1>10, <1>13, SumsInto
<1>16. Sums(v, A)[A] \in Nat /\ Sums(w, Q)[Q] \in Nat
  <2>1. Sums(v, A) \in [SUBSET A -> Nat]
    BY <1>7, <1>8, SumsUnfold
  <2>2. Sums(w, Q) \in [SUBSET Q -> Nat]
    BY <1>7, <1>10, SumsUnfold
  <2>3. QED
    BY <2>1, <2>2
<1>17. CreditsOf(input, A) = Sums(v, A)[A] /\ ItemCredits(Q) = Sums(w, Q)[Q]
  BY ChoicesSummed, ItemsSummed DEF v, w
<1>18. QED
  BY <1>14, <1>15, <1>16, <1>17

UpTo(x, t) == {p \in x : p[2] <= t}
InTerm(x, t) == {p \in x : p[2] = t}

\* The model and the validator add up the same credits.
LEMMA TermCreditsAgree ==
  ASSUME NEW courses, NEW input, NEW x, IsPlanOf(courses, input, x), NEW t \in Nat
  PROVE  /\ CreditsOf(input, UpTo(x, t)) = ProjectedCredits(courses, t)
         /\ CreditsOf(input, InTerm(x, t)) = PlannedCredits(courses, t)
         /\ CreditsOf(input, UpTo(x, t)) \in Nat
         /\ CreditsOf(input, InTerm(x, t)) \in Nat
<1>1. ASSUME NEW item \in courses
      PROVE  <<item.course, item.term>> \in x /\ item.term \in Nat /\ <<item.course, item.term>>[2] = item.term
  BY DEF IsPlanOf
<1>2. \A items, u : ProjectedCredits(items, u) = ItemCredits({item \in items : item.term <= u})
  BY Zenon DEF ProjectedCredits, ItemCredits
<1>3. CreditsOf(input, {p \in x : p[2] <= t}) = ItemCredits({item \in courses : item.term <= t})
      /\ CreditsOf(input, {p \in x : p[2] <= t}) \in Nat
  <2> DEFINE A == {p \in x : p[2] <= t}
             Q == {item \in courses : item.term <= t}
  <2>1. A \in SUBSET x /\ Q \in SUBSET courses
    OBVIOUS
  <2>2. \A item \in courses : item \in Q <=> <<item.course, item.term>> \in A
    BY <1>1
  <2> HIDE DEF A, Q
  <2>3. CreditsOf(input, A) = ItemCredits(Q) /\ CreditsOf(input, A) \in Nat
    BY <2>1, <2>2, SameCredits
  <2>4. QED
    BY <2>3 DEF A, Q
<1>4. CreditsOf(input, {p \in x : p[2] = t}) = ItemCredits({item \in courses : item.term = t})
      /\ CreditsOf(input, {p \in x : p[2] = t}) \in Nat
  <2> DEFINE A == {p \in x : p[2] = t}
             Q == {item \in courses : item.term = t}
  <2>1. A \in SUBSET x /\ Q \in SUBSET courses
    OBVIOUS
  <2>2. \A item \in courses : item \in Q <=> <<item.course, item.term>> \in A
    BY <1>1
  <2> HIDE DEF A, Q
  <2>3. CreditsOf(input, A) = ItemCredits(Q) /\ CreditsOf(input, A) \in Nat
    BY <2>1, <2>2, SameCredits
  <2>4. QED
    BY <2>3 DEF A, Q
<1>5. {item \in {i \in courses : i.term = t} : item.term <= t} = {item \in courses : item.term = t}
  OBVIOUS
<1>6. PlannedCredits(courses, t) = ItemCredits({item \in courses : item.term = t})
  BY <1>2, <1>5, Zenon DEF PlannedCredits
<1>7. QED
  BY <1>2, <1>3, <1>4, <1>6, Zenon DEF UpTo, InTerm

\* The history that the validator is given, and the one in the input of the optimizer.
SameCourses(input, history) ==
    /\ input.passed = history.passed
    /\ input.passed \cup input.inProgress = history.passed \cup history.inProgress

\* What the validator has no answer to in the same way.
ReadApart == {"PERCENTAGE_OF_PLAN", "COURSE_IN_PROGRESS"}

LEMMA ComparisonsAreBoolean ==
  ASSUME NEW a, NEW operator \in {">=", ">", "=", "<=", "<"}, NEW b
  PROVE  Compare(a, operator, b) \in BOOLEAN
<1>1. CASE operator = ">="
  <2>1. Compare(a, operator, b) = (a >= b)
    BY <1>1, Zenon DEF Compare
  <2>2. (a >= b) \in BOOLEAN
    OBVIOUS
  <2>3. QED
    BY <2>1, <2>2, Zenon
<1>2. CASE operator = ">"
  <2>1. Compare(a, operator, b) = (a > b)
    BY <1>2, Zenon DEF Compare
  <2>2. (a > b) \in BOOLEAN
    OBVIOUS
  <2>3. QED
    BY <2>1, <2>2, Zenon
<1>3. CASE operator = "="
  <2>1. Compare(a, operator, b) = (a = b)
    BY <1>3, Zenon DEF Compare
  <2>2. (a = b) \in BOOLEAN
    OBVIOUS
  <2>3. QED
    BY <2>1, <2>2, Zenon
<1>4. CASE operator = "<="
  <2>1. Compare(a, operator, b) = (a <= b)
    BY <1>4, Zenon DEF Compare
  <2>2. (a <= b) \in BOOLEAN
    OBVIOUS
  <2>3. QED
    BY <2>1, <2>2, Zenon
<1>5. CASE operator = "<"
  <2>1. Compare(a, operator, b) = (a < b)
    BY <1>5, Zenon DEF Compare
  <2>2. (a < b) \in BOOLEAN
    OBVIOUS
  <2>3. QED
    BY <2>1, <2>2, Zenon
<1>6. QED
  BY <1>1, <1>2, <1>3, <1>4, <1>5

\* A rule without others in it: to the model it holds or not, and to the validator
\* it is met, failed or open, without contradiction.
LEMMA SolverLeaf ==
  ASSUME NEW items, NEW input, NEW s, IsPlanOf(items, input, s.x), NEW t \in Nat,
         NEW history, SameCourses(input, history), NEW total,
         NEW rule \in AuditRule, rule.kind \notin {"ALL", "ANY", "NOT"}
  PROVE  /\ LeafHolds(rule, t, input, s) \in BOOLEAN
         /\ ExpectLeaf(rule, items, t, history, total) \in {"SATISFIED", "UNSATISFIED", "UNKNOWN"}
         /\ LeafHolds(rule, t, input, s) => ExpectLeaf(rule, items, t, history, total) # "UNSATISFIED"
         /\ history.inProgress = {} /\ rule.kind \notin ReadApart /\ ~LeafHolds(rule, t, input, s) =>
               ExpectLeaf(rule, items, t, history, total) # "SATISFIED"
<1> DEFINE Before(c) == c \in input.passed \/ Chosen(s, c, t - 1)
           Early(c)  == CourseAnswer(c, FALSE, items, t, history)
           By(c)     == CourseAnswer(c, TRUE, items, t, history)
           holds     == LeafHolds(rule, t, input, s)
           expected  == ExpectLeaf(rule, items, t, history, total)
<1>1. ASSUME NEW p \in s.x PROVE \E item \in items : p[1] = item.course /\ p[2] = item.term /\ item.term \in Nat
  BY DEF IsPlanOf
<1>2. ASSUME NEW item \in items PROVE \E p \in s.x : p[1] = item.course /\ p[2] = item.term /\ item.term \in Nat
  BY DEF IsPlanOf
<1>3. ASSUME NEW c PROVE Chosen(s, c, t - 1) <=> PlannedBefore(items, c, t)
  <2>1. PlannedBefore(items, c, t) <=> \E item \in items : item.course = c /\ item.term < t
    BY DEF PlannedBefore, Planned
  <2>2. \A u \in Nat : u <= t - 1 <=> u < t
    OBVIOUS
  <2>3. QED
    BY <1>1, <1>2, <2>1, <2>2, Zenon DEF Chosen
<1>4. ASSUME NEW c PROVE Chosen(s, c, t) <=> PlannedBy(items, c, t)
  <2>1. PlannedBy(items, c, t) <=> \E item \in items : item.course = c /\ item.term <= t
    BY DEF PlannedBy, Planned
  <2>2. QED
    BY <1>1, <1>2, <2>1, Zenon DEF Chosen
<1>5. ASSUME NEW c
      PROVE  /\ Early(c) \in {"SATISFIED", "UNSATISFIED"} /\ By(c) \in {"SATISFIED", "UNSATISFIED"}
             /\ Before(c) => Early(c) = "SATISFIED"
             /\ history.inProgress = {} /\ ~Before(c) => Early(c) = "UNSATISFIED"
             /\ (c \in input.passed \cup input.inProgress \/ Chosen(s, c, t)) <=> By(c) = "SATISFIED"
  BY <1>3, <1>4 DEF CourseAnswer, Decide, SameCourses
<1> HIDE DEF Before, Early, By
<1>6. CASE rule.kind = "COURSE_PASSED"
  <2>1. holds = Before(rule.course)
    BY <1>6, Zenon DEF LeafHolds, Before
  <2>2. expected = Early(rule.course)
    BY <1>6, Zenon DEF ExpectLeaf, Early
  <2>3. QED
    BY <1>5, <2>1, <2>2 DEF Before, Chosen
<1>7. CASE rule.kind = "COURSE_IN_PROGRESS"
  <2>1. holds = (rule.course \in input.inProgress \/ Chosen(s, rule.course, t))
    BY <1>7, Zenon DEF LeafHolds
  <2>2. expected = By(rule.course)
    BY <1>7 DEF ExpectLeaf, By
  <2>3. QED
    BY <1>5, <1>7, <2>1, <2>2 DEF Chosen, ReadApart
<1>8. CASE rule.kind \in {"COURSE_PASSED_OR_IN_PROGRESS", "COREQUISITE"}
  <2>1. holds = (rule.course \in input.passed \cup input.inProgress \/ Chosen(s, rule.course, t))
    BY <1>8 DEF LeafHolds
  <2>2. expected = By(rule.course)
    BY <1>8 DEF ExpectLeaf, By
  <2>3. QED
    BY <1>5, <2>1, <2>2 DEF Chosen
<1>9. CASE rule.kind = "EQUIVALENT_COURSE_PASSED"
  <2>1. holds = \E c \in rule.courses : Before(c)
    BY <1>9, Zenon DEF LeafHolds, Before
  <2>2. expected = CombineAny({Early(c) : c \in rule.courses})
    BY <1>9, Zenon DEF ExpectLeaf, Early
  <2>3. QED
    BY <1>5, <2>1, <2>2 DEF CombineAny
<1>10. CASE rule.kind = "MANDATORY_COURSES_COMPLETED"
  <2>1. holds = \A c \in rule.courses : Before(c)
    BY <1>10, Zenon DEF LeafHolds, Before
  <2>2. expected = CombineAll({Early(c) : c \in rule.courses})
    BY <1>10, Zenon DEF ExpectLeaf, Early
  <2>3. QED
    BY <1>5, <2>1, <2>2 DEF CombineAll
<1>11. CASE rule.kind = "TOTAL_CREDITS"
  <2> DEFINE met == Compare(ProjectedCredits(items, t), rule.operator, rule.value)
  <2>1. holds = met
    <3>1. CreditsOf(input, {p \in s.x : p[2] <= t}) = ProjectedCredits(items, t)
      <4>1. CreditsOf(input, UpTo(s.x, t)) = ProjectedCredits(items, t)
        BY TermCreditsAgree
      <4>2. QED
        BY <4>1, Zenon DEF UpTo
    <3>2. holds = Compare(CreditsOf(input, {p \in s.x : p[2] <= t}), rule.operator, rule.value)
      BY <1>11, Zenon DEF LeafHolds
    <3>3. QED
      BY <3>1, <3>2, Zenon
  <2>2. expected = Decide(met)
    BY <1>11, Zenon DEF ExpectLeaf
  <2>3. met \in BOOLEAN
    BY <1>11, OperatorsAssumption, ComparisonsAreBoolean
  <2> HIDE DEF met
  <2>4. QED
    BY <2>1, <2>2, <2>3 DEF Decide
<1>12. CASE rule.kind = "PERCENTAGE_OF_PLAN"
  <2>1. holds = FALSE
    BY <1>12, Zenon DEF LeafHolds
  <2>2. expected = Decide(ProjectedCredits(items, t) * rule.denominator >= total * rule.numerator)
    BY <1>12, Zenon DEF ExpectLeaf
  <2>3. QED
    BY <1>12, <2>1, <2>2 DEF Decide, ReadApart
<1>13. CASE rule.kind \in {"CREDITS_IN_GROUP", "GROUP_COMPLETED", "CREDITS_IN_COMPONENT", "MINIMUM_GRADE",
                           "EXTERNAL_REQUIREMENT", "UNKNOWN"}
  <2>1. expected = "UNKNOWN"
    BY <1>13 DEF ExpectLeaf
  <2>2. holds \in BOOLEAN
    <3> DEFINE credits == GroupCredits(input, s, rule.group, t)
               least   == IF rule.group \in DOMAIN input.groups THEN input.groups[rule.group] ELSE 0
    <3>1. CASE rule.kind = "CREDITS_IN_GROUP"
      <4>1. holds = Compare(credits, rule.operator, rule.value)
        BY <3>1, Zenon DEF LeafHolds
      <4> HIDE DEF credits
      <4>2. QED
        BY <3>1, <4>1, OperatorsAssumption, ComparisonsAreBoolean
    <3>2. CASE rule.kind = "GROUP_COMPLETED"
      <4>1. holds = (credits >= least)
        BY <3>2, Zenon DEF LeafHolds
      <4> HIDE DEF credits, least
      <4>2. QED
        BY <4>1
    <3>3. CASE rule.kind \in {"CREDITS_IN_COMPONENT", "MINIMUM_GRADE", "EXTERNAL_REQUIREMENT", "UNKNOWN"}
      BY <3>3 DEF LeafHolds
    <3>4. QED
      BY <1>13, <3>1, <3>2, <3>3
  <2>3. QED
    BY <2>1, <2>2
<1>14. rule.kind \in Kinds
  BY RulesAssumption
<1>15. QED
  BY <1>6, <1>7, <1>8, <1>9, <1>10, <1>11, <1>12, <1>13, <1>14 DEF Kinds

\* Whether a rule holds in the model, given what holds of the rules in it.
HoldsStep(rule, literal, leaf) ==
    CASE rule.kind = "ALL" -> \A c \in Children(rule) : literal[c]
      [] rule.kind = "ANY" -> \E c \in Children(rule) : literal[c]
      [] rule.kind = "NOT" -> ~literal[rule.child]
      [] OTHER             -> leaf[rule]

LEMMA HoldsIsBoolean ==
  ASSUME NEW rule, NEW literal, NEW leaf, rule.kind \notin {"ALL", "ANY", "NOT"} => leaf[rule] \in BOOLEAN
  PROVE  HoldsStep(rule, literal, leaf) \in BOOLEAN
<1>1. CASE rule.kind = "ALL"
  <2>1. HoldsStep(rule, literal, leaf) = (\A c \in Children(rule) : literal[c])
    BY <1>1, Zenon DEF HoldsStep
  <2>2. (\A c \in Children(rule) : literal[c]) \in BOOLEAN
    OBVIOUS
  <2>3. QED
    BY <2>1, <2>2, Zenon
<1>2. CASE rule.kind = "ANY"
  <2>1. HoldsStep(rule, literal, leaf) = (\E c \in Children(rule) : literal[c])
    BY <1>2, Zenon DEF HoldsStep
  <2>2. (\E c \in Children(rule) : literal[c]) \in BOOLEAN
    OBVIOUS
  <2>3. QED
    BY <2>1, <2>2, Zenon
<1>3. CASE rule.kind = "NOT"
  <2>1. HoldsStep(rule, literal, leaf) = ~literal[rule.child]
    BY <1>3, Zenon DEF HoldsStep
  <2>2. (~literal[rule.child]) \in BOOLEAN
    OBVIOUS
  <2>3. QED
    BY <2>1, <2>2, Zenon
<1>4. CASE rule.kind \notin {"ALL", "ANY", "NOT"}
  <2>1. HoldsStep(rule, literal, leaf) = leaf[rule]
    BY <1>4, Zenon DEF HoldsStep
  <2>2. QED
    BY <1>4, <2>1, Zenon
<1>5. QED
  BY <1>1, <1>2, <1>3, <1>4, Zenon

LeavesOf(t, input, s) == [r \in AuditRule |-> LeafHolds(r, t, input, s)]

LEMMA HoldsUnfolds ==
  ASSUME NEW t, NEW input, NEW s,
         \A rule \in AuditRule : rule.kind \notin {"ALL", "ANY", "NOT"} => LeafHolds(rule, t, input, s) \in BOOLEAN
  PROVE  \E literal \in [AuditRule -> BOOLEAN] :
            /\ \A rule \in AuditRule : literal[rule] = HoldsStep(rule, literal, LeavesOf(t, input, s))
            /\ \A rule : Holds(rule, t, input, s) = literal[rule]
<1> DEFINE leaf    == [r \in AuditRule |-> LeafHolds(r, t, input, s)]
           Said(g) == [r \in AuditRule |-> g[r] = "yes"]
           step    == [r \in AuditRule |-> [g \in [AuditRule -> {"yes", "no"}] |->
                          IF HoldsStep(r, Said(g), leaf) THEN "yes" ELSE "no"]]
           body(g) == [r \in AuditRule |->
                          CASE r.kind = "ALL" -> \A c \in Children(r) : g[c]
                            [] r.kind = "ANY" -> \E c \in Children(r) : g[c]
                            [] r.kind = "NOT" -> ~g[r.child]
                            [] OTHER          -> LeafHolds(r, t, input, s)]
           literal == CHOOSE g : g = body(g)
<1>1. ASSUME NEW r \in AuditRule, NEW g \in [AuditRule -> {"yes", "no"}]
      PROVE  step[r][g] = (IF HoldsStep(r, Said(g), leaf) THEN "yes" ELSE "no") /\ step[r][g] \in {"yes", "no"}
  OBVIOUS
<1>2. ASSUME NEW r \in AuditRule, NEW g \in [AuditRule -> {"yes", "no"}],
             NEW h \in [AuditRule -> {"yes", "no"}],
             \A y \in AuditRule : Nesting[y] < Nesting[r] => g[y] = h[y]
      PROVE  step[r][g] = step[r][h]
  <2>1. \A c \in Children(r) : Said(g)[c] = Said(h)[c]
    BY <1>2, RulesAssumption
  <2>2. r.kind = "NOT" => r.child \in Children(r)
    BY DEF Children
  <2> HIDE DEF Said, leaf
  <2>3. HoldsStep(r, Said(g), leaf) = HoldsStep(r, Said(h), leaf)
    BY <2>1, <2>2, Zenon DEF HoldsStep
  <2>4. QED
    BY <1>1, <2>3
<1> HIDE DEF step
<1>3. PICK answer \in [AuditRule -> {"yes", "no"}] : \A r \in AuditRule : answer[r] = step[r][answer]
  <2>1. Descends(AuditRule, Nesting, {"yes", "no"}, step)
    BY <1>1, <1>2, RulesAssumption DEF Descends
  <2>2. QED
    BY <2>1, RecursionIsSound
<1> DEFINE f == Said(answer)
<1>4. ASSUME NEW g, NEW r \in AuditRule PROVE body(g)[r] = HoldsStep(r, g, leaf)
  BY Zenon DEF HoldsStep
<1>5. ASSUME NEW r \in AuditRule, NEW g PROVE HoldsStep(r, g, leaf) \in BOOLEAN
  <2>1. r.kind \notin {"ALL", "ANY", "NOT"} => leaf[r] \in BOOLEAN
    BY Zenon
  <2> HIDE DEF leaf
  <2>2. QED
    BY <2>1, HoldsIsBoolean, Zenon
<1>6. f = body(f)
  <2>1. ASSUME NEW r \in AuditRule PROVE f[r] = body(f)[r]
    <3>1. f[r] = (answer[r] = "yes")
      BY Zenon
    <3> HIDE DEF f
    <3>2. (answer[r] = "yes") = HoldsStep(r, f, leaf)
      <4>1. answer[r] = IF HoldsStep(r, f, leaf) THEN "yes" ELSE "no"
        BY <1>1, <1>3 DEF f
      <4>2. "yes" # "no" /\ HoldsStep(r, f, leaf) \in BOOLEAN
        BY <1>5, Zenon
      <4>3. CASE HoldsStep(r, f, leaf)
        BY <4>1, <4>2, <4>3, Zenon
      <4>4. CASE ~HoldsStep(r, f, leaf)
        BY <4>1, <4>2, <4>4, Zenon
      <4>5. QED
        BY <4>3, <4>4
    <3>3. body(f)[r] = HoldsStep(r, f, leaf)
      BY <1>4
    <3>4. QED
      BY <3>1, <3>2, <3>3, Zenon
  <2>2. QED
    BY <2>1
<1>7. literal = body(literal)
  BY <1>6, Zenon
<1>8. \A r \in AuditRule : literal[r] = HoldsStep(r, literal, leaf)
  BY <1>4, <1>7, Zenon
<1>9. literal \in [AuditRule -> BOOLEAN]
  <2>1. \A r \in AuditRule : body(literal)[r] \in BOOLEAN
    BY <1>4, <1>5, Zenon
  <2>2. body(literal) = [r \in AuditRule |-> body(literal)[r]]
    BY Zenon
  <2> HIDE DEF body
  <2>3. QED
    BY <1>7, <2>1, <2>2
<1>10. \A rule : Holds(rule, t, input, s) = literal[rule]
  BY Zenon DEF Holds
<1>11. QED
  BY <1>8, <1>9, <1>10, Zenon DEF LeavesOf

\* Rules that are read alike: those without a negation, and those of kinds that both
\* can express, if nothing is in progress.
Alike(R, history) ==
    /\ \A r \in R : Children(r) \subseteq R
    /\ \/ \A r \in R : r.kind # "NOT"
       \/ history.inProgress = {} /\ \A r \in R : r.kind \notin ReadApart

\* What holds in the model does not fail with the validator; and what does not hold is
\* not met, if nothing is in progress.
LEMMA SolverRules ==
  ASSUME NEW items, NEW input, NEW s, IsPlanOf(items, input, s.x), NEW t \in Nat,
         NEW history, SameCourses(input, history), NEW total,
         NEW R \in SUBSET AuditRule, Alike(R, history)
  PROVE  \A rule \in R :
            /\ Expect(rule, items, t, history, total) \in {"SATISFIED", "UNSATISFIED", "UNKNOWN"}
            /\ Holds(rule, t, input, s) => Expect(rule, items, t, history, total) # "UNSATISFIED"
            /\ (history.inProgress = {} /\ \A r \in R : r.kind \notin ReadApart) /\ ~Holds(rule, t, input, s) =>
                  Expect(rule, items, t, history, total) # "SATISFIED"
<1> DEFINE leaf      == LeavesOf(t, input, s)
           ahead     == [r \in AuditRule |-> ExpectLeaf(r, items, t, history, total)]
           expected  == Forecast(items, t, history, total)
           TwoSided  == history.inProgress = {} /\ \A r \in R : r.kind \notin ReadApart
           Open      == {"SATISFIED", "UNSATISFIED", "UNKNOWN"}
<1>1. ASSUME NEW r \in AuditRule, r.kind \notin {"ALL", "ANY", "NOT"}
      PROVE  /\ leaf[r] \in BOOLEAN /\ ahead[r] \in Open
             /\ leaf[r] => ahead[r] # "UNSATISFIED"
             /\ history.inProgress = {} /\ r.kind \notin ReadApart /\ ~leaf[r] => ahead[r] # "SATISFIED"
  BY <1>1, SolverLeaf DEF LeavesOf
<1>2. \A r \in AuditRule : r.kind \notin {"ALL", "ANY", "NOT"} => LeafHolds(r, t, input, s) \in BOOLEAN
  BY SolverLeaf
<1>3. PICK literal \in [AuditRule -> BOOLEAN] :
         /\ \A r \in AuditRule : literal[r] = HoldsStep(r, literal, leaf)
         /\ \A r : Holds(r, t, input, s) = literal[r]
  BY <1>2, HoldsUnfolds
<1>4. ASSUME NEW r \in AuditRule PROVE expected[r] = Combined(r, expected, ahead)
  <2>1. expected = [q \in AuditRule |-> Combined(q, expected, ahead)]
    BY ExpectUnfolds
  <2> HIDE DEF expected, ahead
  <2>2. QED
    BY <2>1, Zenon
<1> HIDE DEF expected, ahead, leaf
<1> DEFINE Good == {r \in AuditRule : r \in R =>
                       /\ expected[r] \in Open
                       /\ literal[r] => expected[r] # "UNSATISFIED"
                       /\ TwoSided /\ ~literal[r] => expected[r] # "SATISFIED"}
<1>5. TwoSided \/ \A r \in R : r.kind # "NOT"
  BY Zenon DEF Alike
<1>6. TwoSided => history.inProgress = {} /\ \A r \in R : r.kind \notin ReadApart
  OBVIOUS
<1> HIDE DEF TwoSided
<1>7. ASSUME NEW r \in AuditRule, \A child \in Children(r) : child \in Good, r \in R
      PROVE  /\ expected[r] \in Open
             /\ literal[r] => expected[r] # "UNSATISFIED"
             /\ TwoSided /\ ~literal[r] => expected[r] # "SATISFIED"
  <2> DEFINE answers == {expected[c] : c \in Children(r)}
  <2>1. ASSUME NEW c \in Children(r)
        PROVE  /\ expected[c] \in Open
               /\ literal[c] => expected[c] # "UNSATISFIED"
               /\ TwoSided /\ ~literal[c] => expected[c] # "SATISFIED"
    BY <1>7 DEF Alike
  <2>2. answers \subseteq Open
    BY <2>1
  <2>3. CASE r.kind = "ALL"
    <3>1. literal[r] <=> \A c \in Children(r) : literal[c]
      BY <1>3, <2>3, Zenon DEF HoldsStep
    <3>2. expected[r] = CombineAll(answers)
      BY <1>4, <2>3 DEF Combined, Children
    <3>3. literal[r] => "UNSATISFIED" \notin answers
      BY <2>1, <3>1
    <3>4. TwoSided /\ ~literal[r] => \E a \in answers : a # "SATISFIED"
      BY <2>1, <3>1
    <3> HIDE DEF answers
    <3>5. QED
      BY <2>2, <3>2, <3>3, <3>4 DEF CombineAll
  <2>4. CASE r.kind = "ANY"
    <3>1. literal[r] <=> \E c \in Children(r) : literal[c]
      BY <1>3, <2>4, Zenon DEF HoldsStep
    <3>2. expected[r] = CombineAny(answers)
      BY <1>4, <2>4 DEF Combined, Children
    <3>3. literal[r] => \E a \in answers : a # "UNSATISFIED"
      BY <2>1, <3>1
    <3>4. TwoSided /\ ~literal[r] => "SATISFIED" \notin answers
      BY <2>1, <3>1
    <3> HIDE DEF answers
    <3>5. QED
      BY <2>2, <3>2, <3>3, <3>4 DEF CombineAny
  <2>5. CASE r.kind = "NOT"
    <3>1. r.child \in Children(r)
      BY <2>5 DEF Children
    <3>2. literal[r] <=> ~literal[r.child]
      BY <1>3, <2>5, Zenon DEF HoldsStep
    <3>3. expected[r] = Negate(expected[r.child])
      BY <1>4, <2>5 DEF Combined
    <3>4. TwoSided
      BY <1>5, <1>7, <2>5
    <3>5. QED
      BY <2>1, <3>1, <3>2, <3>3, <3>4 DEF Negate
  <2>6. CASE r.kind \notin {"ALL", "ANY", "NOT"}
    <3>1. literal[r] = leaf[r]
      BY <1>3, <2>6, Zenon DEF HoldsStep
    <3>2. expected[r] = ahead[r]
      BY <1>4, <2>6 DEF Combined
    <3>3. QED
      BY <1>1, <1>6, <1>7, <2>6, <3>1, <3>2
  <2>7. QED
    BY <2>3, <2>4, <2>5, <2>6
<1>8. AuditRule \subseteq Good
  <2>1. \A r \in AuditRule : (\A child \in Children(r) : child \in Good) => r \in Good
    BY <1>7
  <2> HIDE DEF Good
  <2>2. QED
    BY <2>1, RulesAreWellFounded
<1>9. ASSUME NEW rule \in R
      PROVE  /\ expected[rule] \in Open
             /\ literal[rule] => expected[rule] # "UNSATISFIED"
             /\ TwoSided /\ ~literal[rule] => expected[rule] # "SATISFIED"
  BY <1>8
<1>10. \A rule : Expect(rule, items, t, history, total) = expected[rule]
  BY ExpectUnfolds DEF expected
<1>11. QED
  BY <1>3, <1>9, <1>10, Zenon DEF TwoSided

LEMMA RulesAlike ==
  ASSUME NEW history
  PROVE  /\ Alike({r \in AuditRule : WithoutNot(r)}, history)
         /\ history.inProgress = {} => Alike({r \in AuditRule : AboutCoursesOnly(r)}, history)
         /\ history.inProgress = {} => Alike({r \in AuditRule : Expressible(r)}, history)
         /\ \A r \in {q \in AuditRule : Expressible(q)} : r.kind \notin ReadApart
<1>1. ASSUME NEW r \in AuditRule, NEW child \in Children(r)
      PROVE  /\ child \in AuditRule /\ (WithoutNot(r) => WithoutNot(child))
             /\ Expressible(r) => Expressible(child)
  <2>1. child \in AuditRule
    BY RulesAssumption
  <2>2. \A inner \in Parts(child) : \E part \in Parts(r) : part.rule = inner.rule
    BY PartsAreThere
  <2>3. WithoutNot(r) => WithoutNot(child)
    BY <2>2, Zenon DEF WithoutNot
  <2>4. Expressible(r) => Expressible(child)
    BY <2>2, Zenon DEF Expressible
  <2>5. QED
    BY <2>1, <2>3, <2>4
<1>2. ASSUME NEW r \in AuditRule
      PROVE  (WithoutNot(r) => r.kind # "NOT") /\ (Expressible(r) => r.kind \notin ReadApart)
  <2>1. PICK part \in Parts(r) : part.rule = r
    BY PartsAreThere
  <2>2. QED
    BY <2>1 DEF WithoutNot, Expressible, ReadApart
<1>3. PICK only \in [AuditRule -> BOOLEAN] :
         /\ \A r \in AuditRule : only[r] = OnlyStep(r, only)
         /\ \A r : AboutCoursesOnly(r) = only[r]
  BY OnlyUnfolds
<1>4. ASSUME NEW r \in AuditRule, AboutCoursesOnly(r)
      PROVE  r.kind \notin ReadApart /\ \A child \in Children(r) : child \in AuditRule /\ AboutCoursesOnly(child)
  <2>1. OnlyStep(r, only)
    BY <1>3, <1>4, Zenon
  <2>2. CASE r.kind \in {"ALL", "ANY", "NOT"}
    <3>1. \A child \in Children(r) : only[child]
      BY <2>1, <2>2, Zenon DEF OnlyStep
    <3>2. \A child \in Children(r) : AboutCoursesOnly(child)
      BY <1>3, <3>1, Zenon
    <3>3. QED
      BY <2>2, <3>2, RulesAssumption DEF ReadApart
  <2>3. CASE r.kind \notin {"ALL", "ANY", "NOT"}
    <3>1. r.kind \in CourseKinds
      BY <2>1, <2>3, Zenon DEF OnlyStep
    <3>2. Children(r) = {}
      BY <2>3 DEF Children
    <3>3. QED
      BY <3>1, <3>2 DEF CourseKinds, ReadApart
  <2>4. QED
    BY <2>2, <2>3
<1>5. QED
  BY <1>1, <1>2, <1>4 DEF Alike

\* What the optimizer is given: the history, the plan with its sections, and the rules.
LEMMA InputOfPlan ==
  ASSUME TypeOK, study.solver # None
  PROVE  /\ SameCourses(Input, History)
         /\ Input.credits = revision.credits /\ Input.terms = study.calendar
         /\ Input.preferences = study.solver.preferences
         /\ \A item \in plan : item.course \in Input.courses /\ item.course \in Courses
                                 /\ item.term \in DOMAIN study.calendar
         /\ \A c \in Input.courses, t \in DOMAIN study.calendar :
               \E k \in Input.candidates : k.course = c /\ k.term = t
         /\ \A k \in Input.candidates :
               /\ k.state = study.solver.offered[k.course][k.term]
               /\ \A m \in k.meetings : m.section = k.section
               /\ \A item \in plan : item.course = k.course /\ item.term = k.term =>
                     item.section = k.section /\ item.meetings = k.meetings
         /\ \A c \in Input.courses :
               /\ \A r \in Requirements(c) : r.rule \in AuditRule /\ r.rule \in Input.rules[c]
               /\ \A rule \in Input.rules[c] : \E r \in Requirements(c) : rule = r.rule
         /\ \A lock \in Input.locked : \E item \in plan : lock = <<item.course, item.term>>
<1> DEFINE offered == study.solver.offered
           wishes  == study.solver.preferences
           courses == InputCourses(revision, plan, study.solver.elsewhere)
           input   == SolverInput(revision, student, plan, study.solver.elsewhere, offered, study.calendar, wishes)
<1>1. study \in Studies /\ IsRevision(revision) /\ IsRecord(student) /\ plan \subseteq study.items
  BY StudyIsSound DEF TypeOK, IsRecord
<1>2. /\ \A i \in study.items : IsItem(i, study.calendar)
      /\ IsSolved(study.solver, study.items, study.calendar)
  BY <1>1, StudiesAssumption
<1>3. Input = input
  BY DEF Input
<1>4. /\ input.courses = courses /\ input.credits = revision.credits /\ input.terms = study.calendar
      /\ input.candidates = {CandidateFor(plan, offered, c, t) : c \in courses, t \in DOMAIN study.calendar}
      /\ input.preferences = wishes /\ input.locked = LockedChoices(plan)
      /\ input.rules = [c \in courses |-> RulesOf(revision, c)]
      /\ input.passed = Selected(student)
      /\ input.inProgress = {a.course : a \in {b \in student.attempts : b.status \in InProgressStatuses}}
  BY DEF SolverInput
<1> HIDE DEF input, offered, wishes
<1>5. \A item \in plan : item.course \in courses /\ item.course \in Courses /\ item.term \in DOMAIN study.calendar
  BY <1>1, <1>2 DEF InputCourses, IsItem
<1> HIDE DEF courses
<1>6. SameCourses(input, History)
  <2>1. \A a \in student.attempts : a.course \in Courses
    BY <1>1 DEF IsRecord, Records, Attempts
  <2>2. input.passed = History.passed /\ History.inProgress = InProgress(student) /\ History.passed = Selected(student)
    BY <1>4 DEF History
  <2>3. Selected(student) \cup input.inProgress = Selected(student) \cup InProgress(student)
    <3>1. Selected(student) \subseteq Courses
      BY DEF Selected
    <3> DEFINE selected == Selected(student)
    <3>2. InProgress(student) = {c \in Courses \ selected :
                                   \E a \in student.attempts : a.course = c /\ a.status \in InProgressStatuses}
      BY DEF InProgress
    <3> HIDE DEF selected
    <3>3. selected \cup input.inProgress = selected \cup InProgress(student)
      BY <1>4, <2>1, <3>2
    <3>4. QED
      BY <3>3 DEF selected
  <2>4. QED
    BY <2>2, <2>3 DEF SameCourses
<1>7. ASSUME NEW c \in courses, NEW t \in DOMAIN study.calendar
      PROVE  LET k == CandidateFor(plan, offered, c, t)
             IN /\ k.course = c /\ k.term = t /\ k.state = offered[c][t]
                /\ \A m \in k.meetings : m.section = k.section
                /\ \A item \in plan : item.course = c /\ item.term = t =>
                      item.section = k.section /\ item.meetings = k.meetings
  <2> DEFINE existing == {i \in plan : i.course = c /\ i.term = t}
             planned  == IF existing = {} THEN [section |-> None, meetings |-> {}] ELSE CHOOSE i \in existing : TRUE
  <2>1. \A m \in planned.meetings : m.section = planned.section
    <3>1. CASE existing = {}
      BY <3>1
    <3>2. CASE existing # {}
      <4>1. planned \in existing
        BY <3>2
      <4> HIDE DEF planned
      <4>2. QED
        BY <1>1, <1>2, <4>1 DEF IsItem
    <3>3. QED
      BY <3>1, <3>2
  <2>2. ASSUME NEW item \in plan, item.course = c, item.term = t PROVE planned = item
    <3>1. item \in existing
      BY <2>2
    <3>2. planned \in existing
      BY <3>1
    <3> HIDE DEF planned
    <3>3. planned \in study.items /\ item \in study.items /\ planned.course = item.course /\ planned.term = item.term
      BY <1>1, <2>2, <3>2
    <3>4. QED
      BY <1>2, <3>3, Zenon DEF IsSolved
  <2>3. CandidateFor(plan, offered, c, t) =
           [course |-> c, term |-> t, state |-> offered[c][t],
            section |-> planned.section, meetings |-> planned.meetings]
    BY DEF CandidateFor
  <2> HIDE DEF planned
  <2>4. QED
    BY <2>1, <2>2, <2>3
<1>8. \A c \in courses, t \in DOMAIN study.calendar : \E k \in input.candidates : k.course = c /\ k.term = t
  BY <1>4, <1>7
<1>9. ASSUME NEW k \in input.candidates
      PROVE  /\ k.state = offered[k.course][k.term]
             /\ \A m \in k.meetings : m.section = k.section
             /\ \A item \in plan : item.course = k.course /\ item.term = k.term =>
                   item.section = k.section /\ item.meetings = k.meetings
  <2>1. PICK c \in courses, t \in DOMAIN study.calendar : k = CandidateFor(plan, offered, c, t)
    BY <1>4
  <2>2. QED
    BY <1>7, <2>1
<1>10. ASSUME NEW c \in courses
       PROVE  /\ \A r \in Requirements(c) : r.rule \in AuditRule /\ r.rule \in input.rules[c]
              /\ \A rule \in input.rules[c] : \E r \in Requirements(c) : rule = r.rule
  <2>1. \A r \in revision.requirements : r.rule \in AuditRule /\ SolverRule(r) = r.rule
    BY <1>1, RulesAssumption DEF IsRevision, SolverRule
  <2>2. input.rules[c] = {SolverRule(r) : r \in {q \in revision.requirements : q.owner = c}}
    BY <1>4 DEF RulesOf
  <2>3. QED
    BY <2>1, <2>2 DEF Requirements
<1>11. \A lock \in input.locked : \E item \in plan : lock = <<item.course, item.term>>
  BY <1>4 DEF LockedChoices
<1>12. QED
  BY <1>3, <1>4, <1>5, <1>6, <1>8, <1>9, <1>10, <1>11, Zenon DEF offered, wishes

\* A solution is a plan: one course for each of its choices, with the meetings of the
\* candidate.
LEMMA ProposedIsPlan ==
  ASSUME TypeOK, study.solver # None, NEW s \in Solutions(Input)
  PROVE  /\ s.x \in Selections(Input) /\ RulesHold(Input, s)
         /\ IsPlanOf(AsPlan(Input, s), Input, s.x)
         /\ \A item \in AsPlan(Input, s) : \E k \in Input.candidates :
               /\ <<k.course, k.term>> \in s.x /\ k.course = item.course /\ k.term = item.term
               /\ k.meetings = item.meetings /\ ~Blocked(Input, k)
<1> DEFINE input == Input
           items == AsPlan(input, s)
<1>1. IsSound(input)
  BY InputIsSound
<1> HIDE DEF input
<1>2. s.x \in Selections(input) /\ RulesHold(input, s)
  <2>1. PICK x \in Selections(input) : s \in {[x |-> x, y |-> y] : y \in SUBSET Countable(input, x)}
    BY Zenon DEF Solutions, input
  <2>2. s.x = x
    BY <2>1
  <2>3. RulesHold(input, s)
    BY Zenon DEF Solutions, input
  <2>4. QED
    BY <2>1, <2>2, <2>3
<1>3. /\ IsFiniteSet(s.x)
      /\ \A choice \in s.x : \E k \in input.candidates :
            /\ choice = <<k.course, k.term>> /\ k.course \notin input.passed /\ ~Blocked(input, k)
  BY <1>1, <1>2, ChoicesAreOpen
<1>4. \A k \in input.candidates, l \in input.candidates : k.course = l.course /\ k.term = l.term => k = l
  BY <1>1 DEF IsSound
<1>5. \A k \in input.candidates : k.course \in Courses /\ k.term \in Nat
  BY <1>1 DEF IsSound
<1>6. ASSUME NEW item \in items
      PROVE  \E k \in input.candidates :
               /\ <<k.course, k.term>> \in s.x /\ k.course = item.course /\ k.term = item.term
               /\ k.meetings = item.meetings /\ ~Blocked(input, k) /\ item.credits = input.credits[k.course]
               /\ item = [course |-> k.course, term |-> k.term, credits |-> input.credits[k.course],
                          meetings |-> k.meetings]
  <2>1. PICK k \in input.candidates :
           /\ <<k.course, k.term>> \in s.x
           /\ item = [course |-> k.course, term |-> k.term, credits |-> input.credits[k.course],
                      meetings |-> k.meetings]
    BY DEF AsPlan
  <2>2. PICK l \in input.candidates : <<k.course, k.term>> = <<l.course, l.term>> /\ ~Blocked(input, l)
    BY <1>3, <2>1
  <2>3. k = l
    BY <1>4, <2>2
  <2>4. QED
    BY <2>1, <2>2, <2>3
<1>7. ASSUME NEW p \in s.x PROVE \E item \in items : p = <<item.course, item.term>>
  <2>1. PICK k \in input.candidates : p = <<k.course, k.term>>
    BY <1>3
  <2> DEFINE item == [course |-> k.course, term |-> k.term, credits |-> input.credits[k.course],
                      meetings |-> k.meetings]
  <2>2. item \in items /\ item.course = k.course /\ item.term = k.term
    BY <2>1 DEF AsPlan
  <2>3. QED
    BY <2>1, <2>2
<1>8. \A i \in items, j \in items : i.course = j.course /\ i.term = j.term => i = j
  <2>1. SUFFICES ASSUME NEW i \in items, NEW j \in items, i.course = j.course, i.term = j.term
                 PROVE  i = j
    OBVIOUS
  <2>2. PICK k \in input.candidates :
           /\ k.course = i.course /\ k.term = i.term
           /\ i = [course |-> k.course, term |-> k.term, credits |-> input.credits[k.course],
                   meetings |-> k.meetings]
    BY <1>6
  <2>3. PICK l \in input.candidates :
           /\ l.course = j.course /\ l.term = j.term
           /\ j = [course |-> l.course, term |-> l.term, credits |-> input.credits[l.course],
                   meetings |-> l.meetings]
    BY <1>6
  <2>4. k = l
    BY <1>4, <2>1, <2>2, <2>3
  <2>5. QED
    BY <2>2, <2>3, <2>4, Zenon
<1>9. s.x \subseteq Courses \X Nat
  BY <1>3, <1>5
<1>10. \A item \in items : <<item.course, item.term>> \in s.x /\ item.credits = input.credits[item.course]
  BY <1>6
<1>11. input.credits \in [Courses -> Nat \cup {None}]
  BY <1>1 DEF IsSound
<1> HIDE DEF items
<1>12. IsPlanOf(items, input, s.x)
  BY <1>3, <1>7, <1>8, <1>9, <1>10, <1>11 DEF IsPlanOf
<1>13. QED
  BY <1>2, <1>6, <1>12 DEF items, input

\* Where they are read alike, the rules of a course hold in the model only if its
\* prerequisites do not fail, and do if they are met.
LEMMA PrerequisitesAgree ==
  ASSUME TypeOK, study.solver # None, NEW items, NEW s, IsPlanOf(items, Input, s.x),
         NEW item \in items, item.course \in Input.courses,
         NEW state,
         state = PrerequisiteState(item, [c \in Courses |-> Requirements(c)], items, History, revision.total)
  PROVE  /\ ReadAlike(item.course) /\ (\A rule \in Input.rules[item.course] : Holds(rule, item.term, Input, s)) =>
               state # "UNSATISFIED"
         /\ /\ InProgress(student) = {} /\ state \notin {"UNSATISFIED", "UNKNOWN"}
            /\ \A r \in Requirements(item.course) : r.verified /\ Expressible(r.rule)
            => \A rule \in Input.rules[item.course] : Holds(rule, item.term, Input, s)
<1> DEFINE input   == Input
           history == History
           total   == revision.total
           asks    == Requirements(item.course)
           asking  == {r \in [c \in Courses |-> Requirements(c)][item.course] : r.verified /\ r.rule # None}
           Answer(rule) == Expect(rule, items, item.term, history, total)
           Met(rule)    == Holds(rule, item.term, input, s)
<1>1. /\ SameCourses(input, history)
      /\ \A r \in asks : r.rule \in AuditRule /\ r.rule \in input.rules[item.course]
      /\ \A rule \in input.rules[item.course] : \E r \in asks : rule = r.rule
  BY InputOfPlan
<1>2. history.inProgress = InProgress(student)
  BY DEF History
<1>3. item.course \in Courses /\ item.term \in Nat
  <2>1. <<item.course, item.term>> \in Courses \X Nat
    BY DEF IsPlanOf
  <2>2. QED
    BY <2>1
<1>4. IsPlanOf(items, input, s.x)
  OBVIOUS
<1> HIDE DEF input, history, total
<1>5. state = IF asking = {} THEN "UNKNOWN" ELSE CombineAll({Answer(r.rule) : r \in asking})
  BY Zenon DEF PrerequisiteState, history, total
<1>6. asking = {r \in asks : r.verified}
  BY <1>1, <1>3, RulesAssumption
<1> HIDE DEF asks, asking
<1>7. ASSUME NEW R \in SUBSET AuditRule, Alike(R, history)
      PROVE  \A rule \in R :
                /\ Answer(rule) \in {"SATISFIED", "UNSATISFIED", "UNKNOWN"}
                /\ Met(rule) => Answer(rule) # "UNSATISFIED"
                /\ (history.inProgress = {} /\ \A r \in R : r.kind \notin ReadApart) /\ ~Met(rule) =>
                      Answer(rule) # "SATISFIED"
  BY <1>1, <1>3, <1>4, <1>7, SolverRules
<1> HIDE DEF Answer, Met
<1>8. ASSUME ReadAlike(item.course), \A rule \in input.rules[item.course] : Met(rule)
      PROVE  state # "UNSATISFIED"
  <2>1. ASSUME NEW r \in asking PROVE Answer(r.rule) # "UNSATISFIED"
    <3>1. r \in asks /\ r.rule \in AuditRule /\ Met(r.rule)
      BY <1>1, <1>6, <1>8
    <3>2. WithoutNot(r.rule) \/ (InProgress(student) = {} /\ AboutCoursesOnly(r.rule))
      BY <1>8, <3>1 DEF ReadAlike, asks
    <3>3. CASE WithoutNot(r.rule)
      <4> DEFINE R == {q \in AuditRule : WithoutNot(q)}
      <4>1. Alike(R, history) /\ R \in SUBSET AuditRule /\ r.rule \in R
        BY <3>1, <3>3, RulesAlike
      <4> HIDE DEF R
      <4>2. QED
        BY <1>7, <3>1, <4>1
    <3>4. CASE InProgress(student) = {} /\ AboutCoursesOnly(r.rule)
      <4> DEFINE R == {q \in AuditRule : AboutCoursesOnly(q)}
      <4>1. Alike(R, history) /\ R \in SUBSET AuditRule /\ r.rule \in R
        BY <1>2, <3>1, <3>4, RulesAlike
      <4> HIDE DEF R
      <4>2. QED
        BY <1>7, <3>1, <4>1
    <3>5. QED
      BY <3>2, <3>3, <3>4
  <2>2. "UNSATISFIED" \notin {Answer(r.rule) : r \in asking}
    BY <2>1
  <2>3. QED
    BY <1>5, <2>2 DEF CombineAll
<1>9. ASSUME InProgress(student) = {}, state \notin {"UNSATISFIED", "UNKNOWN"},
             \A r \in asks : r.verified /\ Expressible(r.rule),
             NEW rule \in input.rules[item.course]
      PROVE  Met(rule)
  <2>1. PICK r \in asks : rule = r.rule
    BY <1>1
  <2>2. r \in asking /\ asking # {}
    BY <1>6, <1>9
  <2>3. Answer(rule) \in {Answer(q.rule) : q \in asking}
    BY <2>1, <2>2
  <2>4. Answer(rule) \notin {"UNSATISFIED", "UNKNOWN"}
    BY <1>5, <1>9, <2>2, <2>3 DEF CombineAll
  <2> DEFINE R == {q \in AuditRule : Expressible(q)}
  <2>5. /\ Alike(R, history) /\ R \in SUBSET AuditRule /\ rule \in R
        /\ history.inProgress = {} /\ \A q \in R : q.kind \notin ReadApart
    BY <1>1, <1>2, <1>9, <2>1, RulesAlike
  <2> HIDE DEF R
  <2>6. Answer(rule) \in {"SATISFIED", "UNSATISFIED", "UNKNOWN"} /\ (~Met(rule) => Answer(rule) # "SATISFIED")
    BY <1>7, <2>5
  <2>7. QED
    BY <2>4, <2>6
<1>10. QED
  BY <1>8, <1>9 DEF Met, asks, input

\* Meetings in conflict remain so among fewer, as long as both are there.
LEMMA FewerMeetings ==
  ASSUME NEW M, NEW term
  PROVE  /\ ScheduleState(M, term) \in {"SCHEDULABLE", "CONFLICT", "UNKNOWN"}
         /\ ScheduleState(M, term) = "SCHEDULABLE" => \A N \in SUBSET M : ScheduleState(N, term) # "CONFLICT"
         /\ ScheduleState(M, term) = "CONFLICT" =>
               \E l \in M, r \in M : /\ l.section # r.section
                                     /\ \A N \in SUBSET M : l \in N /\ r \in N => ScheduleState(N, term) = "CONFLICT"
<1>1. ScheduleState(M, term) \in {"SCHEDULABLE", "CONFLICT", "UNKNOWN"}
  BY DEF ScheduleState
<1>2. ASSUME ScheduleState(M, term) = "SCHEDULABLE", NEW N \in SUBSET M
      PROVE  ScheduleState(N, term) # "CONFLICT"
  <2>1. \A l \in M, r \in M : ~Conflict(l, r, term)
    BY <1>2 DEF ScheduleState
  <2>2. \A l \in N, r \in N : ~Conflict(l, r, term)
    BY <2>1
  <2>3. QED
    BY <2>2 DEF ScheduleState
<1>3. ASSUME ScheduleState(M, term) = "CONFLICT"
      PROVE  \E l \in M, r \in M : /\ l.section # r.section
                                   /\ \A N \in SUBSET M : l \in N /\ r \in N => ScheduleState(N, term) = "CONFLICT"
  <2>1. \A m \in M : ~ZoneMissing(m, term)
    BY <1>3 DEF ScheduleState
  <2>2. PICK l \in M, r \in M : Conflict(l, r, term)
    BY <1>3 DEF ScheduleState
  <2>3. l.section # r.section
    BY <2>2 DEF Conflict
  <2>4. ASSUME NEW N \in SUBSET M, l \in N, r \in N PROVE ScheduleState(N, term) = "CONFLICT"
    <3>1. \A m \in N : ~ZoneMissing(m, term)
      BY <2>1
    <3>2. QED
      BY <2>2, <2>4, <3>1, Zenon DEF ScheduleState
  <2>5. QED
    BY <2>3, <2>4
<1>4. QED
  BY <1>1, <1>2, <1>3

\* A warning about a plan is one about a course of it, or about a term with something in it.
LEMMA WarningsAreAbout ==
  ASSUME NEW items, NEW requirements, NEW history, NEW total, NEW calendar, NEW offered, NEW preferences
  PROVE  LET Of(item) == CourseWarnings(item, PrerequisiteState(item, requirements, items, history, total),
                                        items, offered, preferences)
             warnings == Warnings(items, requirements, history, total, calendar, offered, preferences)
         IN /\ \A item \in items : \A w \in Of(item) : <<w, item.course, item.term>> \in warnings
            /\ \A item \in items : \A w \in TermWarnings(items, item.term, calendar, preferences) :
                  <<w, None, item.term>> \in warnings
            /\ \A warning \in warnings :
                  \/ \E item \in items : \E w \in Of(item) : warning = <<w, item.course, item.term>>
                  \/ \E item \in items : \E w \in TermWarnings(items, item.term, calendar, preferences) :
                        warning = <<w, None, item.term>>
<1> DEFINE Of(item) == CourseWarnings(item, PrerequisiteState(item, requirements, items, history, total),
                                      items, offered, preferences)
           In(t)    == TermWarnings(items, t, calendar, preferences)
           warnings == Warnings(items, requirements, history, total, calendar, offered, preferences)
           About(item) == {<<w, item.course, item.term>> : w \in Of(item)}
           AboutTerm(t) == {<<w, None, t>> : w \in In(t)}
           terms == {item.term : item \in items}
<1>1. warnings = (UNION {About(item) : item \in items}) \cup (UNION {AboutTerm(t) : t \in terms})
  BY Zenon DEF Warnings
<1> HIDE DEF Of, In, warnings
<1>2. /\ \A item \in items : \A w \in Of(item) : <<w, item.course, item.term>> \in About(item)
      /\ \A t : \A w \in In(t) : <<w, None, t>> \in AboutTerm(t)
      /\ \A item \in items : \A warning \in About(item) : \E w \in Of(item) : warning = <<w, item.course, item.term>>
      /\ \A t : \A warning \in AboutTerm(t) : \E w \in In(t) : warning = <<w, None, t>>
  BY Zenon
<1>3. (\A item \in items : item.term \in terms) /\ \A t \in terms : \E item \in items : t = item.term
  OBVIOUS
<1> HIDE DEF About, AboutTerm, terms
<1>4. \A item \in items : \A w \in Of(item) : <<w, item.course, item.term>> \in warnings
  BY <1>1, <1>2, Zenon
<1>5. \A item \in items : \A w \in In(item.term) : <<w, None, item.term>> \in warnings
  BY <1>1, <1>2, <1>3, Zenon
<1>6. ASSUME NEW warning \in warnings
      PROVE  \/ \E item \in items : \E w \in Of(item) : warning = <<w, item.course, item.term>>
             \/ \E item \in items : \E w \in In(item.term) : warning = <<w, None, item.term>>
  <2>1. CASE \E item \in items : warning \in About(item)
    BY <1>2, <2>1, Zenon
  <2>2. CASE \E t \in terms : warning \in AboutTerm(t)
    <3>1. PICK t \in terms : warning \in AboutTerm(t)
      BY <2>2
    <3>2. PICK item \in items : t = item.term
      BY <1>3, <3>1
    <3>3. \E w \in In(t) : warning = <<w, None, t>>
      BY <1>2, <3>1, Zenon
    <3>4. QED
      BY <3>2, <3>3
  <2>3. QED
    BY <1>1, <2>1, <2>2, Zenon
<1>7. QED
  BY <1>4, <1>5, <1>6, Zenon DEF Of, In, warnings

LEMMA CourseWarned ==
  ASSUME NEW item, NEW state, NEW items, NEW offered, NEW preferences
  PROVE  LET warned == CourseWarnings(item, state, items, offered, preferences)
         IN /\ warned \subseteq {"PREREQUISITE_BLOCKED", "PREREQUISITE_UNKNOWN", "OFFERING_NOT_REPORTED",
                                 "OFFERING_UNKNOWN", "DUPLICATE_COURSE", "CREDITS_UNKNOWN", "UNAVAILABLE_WEEKDAY"}
            /\ "PREREQUISITE_BLOCKED" \in warned <=> state = "UNSATISFIED"
            /\ "PREREQUISITE_UNKNOWN" \in warned <=> state = "UNKNOWN"
            /\ "OFFERING_NOT_REPORTED" \in warned <=> offered[item.course][item.term] = "NOT_OFFERED"
            /\ "OFFERING_UNKNOWN" \in warned <=> offered[item.course][item.term] = "UNKNOWN"
            /\ "DUPLICATE_COURSE" \in warned <=> Repeated(item, items)
<1> DEFINE again == {"DUPLICATE_COURSE" : other \in {i \in {item} : Repeated(i, items)}}
           worth == {"CREDITS_UNKNOWN" : other \in {i \in {item} : i.credits = None}}
           days  == {"UNAVAILABLE_WEEKDAY" : m \in {n \in item.meetings : n.day \in preferences.unavailable}}
<1>1. CourseWarnings(item, state, items, offered, preferences) =
         WarnedOf(state) \cup OfferWarned(offered[item.course][item.term]) \cup again \cup worth \cup days
  BY Zenon DEF CourseWarnings
<1>2. /\ again \subseteq {"DUPLICATE_COURSE"} /\ ("DUPLICATE_COURSE" \in again <=> Repeated(item, items))
      /\ worth \subseteq {"CREDITS_UNKNOWN"} /\ days \subseteq {"UNAVAILABLE_WEEKDAY"}
  OBVIOUS
<1>3. /\ WarnedOf(state) \subseteq {"PREREQUISITE_BLOCKED", "PREREQUISITE_UNKNOWN"}
      /\ "PREREQUISITE_BLOCKED" \in WarnedOf(state) <=> state = "UNSATISFIED"
      /\ "PREREQUISITE_UNKNOWN" \in WarnedOf(state) <=> state = "UNKNOWN"
  BY DEF WarnedOf
<1>4. /\ OfferWarned(offered[item.course][item.term]) \subseteq {"OFFERING_NOT_REPORTED", "OFFERING_UNKNOWN"}
      /\ "OFFERING_NOT_REPORTED" \in OfferWarned(offered[item.course][item.term]) <=> offered[item.course][item.term] = "NOT_OFFERED"
      /\ "OFFERING_UNKNOWN" \in OfferWarned(offered[item.course][item.term]) <=> offered[item.course][item.term] = "UNKNOWN"
  BY DEF OfferWarned
<1> HIDE DEF again, worth, days
<1>5. QED
  BY <1>1, <1>2, <1>3, <1>4

LEMMA TermWarned ==
  ASSUME NEW items, NEW t, NEW calendar, NEW preferences
  PROVE  LET warned == TermWarnings(items, t, calendar, preferences)
         IN /\ warned \subseteq {"CREDITS_ABOVE_MAX", "CREDITS_BELOW_MIN", "SCHEDULE_CONFLICT", "SCHEDULE_UNKNOWN"}
            /\ "CREDITS_ABOVE_MAX" \in warned <=> PlannedCredits(items, t) > preferences.max
            /\ "CREDITS_BELOW_MIN" \in warned <=> PlannedCredits(items, t) < preferences.min
            /\ "SCHEDULE_CONFLICT" \in warned <=> TermSchedule(items, t, calendar) = "CONFLICT"
            /\ "SCHEDULE_UNKNOWN" \in warned <=> TermSchedule(items, t, calendar) = "UNKNOWN"
BY DEF TermWarnings

\* The plan of a solution is warned of nothing but what is not known, and of days.
LEMMA ProposedIsValid ==
  ASSUME TypeOK, study.solver # None, NEW s \in Solutions(Input),
         NEW warning \in WarningsOf(AsPlan(Input, s))
  PROVE  Expected(warning)
<1> DEFINE input   == Input
           items   == AsPlan(input, s)
           wishes  == study.solver.preferences
           offered == study.solver.offered
           asked   == [c \in Courses |-> Requirements(c)]
           State(item) == PrerequisiteState(item, asked, items, History, revision.total)
           Of(item)    == CourseWarnings(item, State(item), items, offered, wishes)
           In(t)       == TermWarnings(items, t, study.calendar, wishes)
           warnings    == Warnings(items, asked, History, revision.total, study.calendar, offered, wishes)
<1>1. /\ s.x \in Selections(input) /\ RulesHold(input, s) /\ IsPlanOf(items, input, s.x)
      /\ \A item \in items : \E k \in input.candidates :
            /\ <<k.course, k.term>> \in s.x /\ k.course = item.course /\ k.term = item.term
            /\ k.meetings = item.meetings /\ ~Blocked(input, k)
  BY ProposedIsPlan
<1>2. IsSound(input)
  BY InputIsSound
<1>3. /\ input.terms = study.calendar /\ input.preferences = wishes
      /\ \A k \in input.candidates : /\ k.state = offered[k.course][k.term]
                                     /\ \A m \in k.meetings : m.section = k.section
  BY InputOfPlan
<1>4. ASSUME NEW item \in items
      PROVE  /\ <<item.course, item.term>> \in s.x
             /\ item.course \in input.courses /\ item.term \in DOMAIN input.terms /\ item.term \in Nat
  <2>1. <<item.course, item.term>> \in s.x
    BY <1>1 DEF IsPlanOf
  <2>2. PICK k \in input.candidates : k.course = item.course /\ k.term = item.term
    BY <1>1
  <2>3. QED
    BY <1>2, <2>1, <2>2 DEF IsSound
<1>5. ASSUME NEW item \in items, ReadAlike(item.course) PROVE State(item) # "UNSATISFIED"
  <2> DEFINE state == State(item)
  <2>1. \A rule \in input.rules[item.course] : Holds(rule, item.term, input, s)
    <3> DEFINE p == <<item.course, item.term>>
    <3>1. p \in s.x /\ p[1] = item.course /\ p[2] = item.term
      BY <1>4
    <3> HIDE DEF p, input
    <3>2. \A rule \in input.rules[p[1]] : Holds(rule, p[2], input, s)
      BY <1>1, <3>1, Zenon DEF RulesHold
    <3>3. QED
      BY <3>1, <3>2, Zenon
  <2>2. state = PrerequisiteState(item, [c \in Courses |-> Requirements(c)], items, History, revision.total)
    BY Zenon
  <2>3. /\ IsPlanOf(items, Input, s.x) /\ item.course \in Input.courses
        /\ \A rule \in Input.rules[item.course] : Holds(rule, item.term, Input, s)
    BY <1>1, <1>4, <2>1
  <2> HIDE DEF state, items
  <2>4. state # "UNSATISFIED"
    BY <1>5, <2>2, <2>3, PrerequisitesAgree
  <2>5. QED
    BY <2>4 DEF state
<1> HIDE DEF input, items, asked, State, offered, wishes
<1>6. ASSUME NEW item \in items PROVE offered[item.course][item.term] # "NOT_OFFERED"
                                      /\ (offered[item.course][item.term] = "UNKNOWN" => wishes.allowUnknown)
  <2>1. PICK k \in input.candidates : k.course = item.course /\ k.term = item.term /\ ~Blocked(input, k)
    BY <1>1
  <2>2. k.state = offered[item.course][item.term]
    BY <1>3, <2>1
  <2>3. QED
    BY <1>3, <2>1, <2>2 DEF Blocked
<1>7. ASSUME NEW item \in items PROVE ~Repeated(item, items)
  <2>1. \A p \in s.x, q \in s.x : p[1] = q[1] => p = q
    BY <1>1, <1>2, ChoicesAreOpen
  <2>2. ASSUME NEW other \in items, other.course = item.course PROVE other = item
    <3>1. <<other.course, other.term>> = <<item.course, item.term>>
      BY <1>4, <2>1, <2>2
    <3>2. other.term = item.term
      BY <3>1
    <3>3. QED
      BY <1>1, <2>2, <3>2 DEF IsPlanOf
  <2>3. QED
    BY <2>2 DEF Repeated
<1>8. ASSUME NEW item \in items
      PROVE  ~(PlannedCredits(items, item.term) > wishes.max) /\ ~(PlannedCredits(items, item.term) < wishes.min)
  <2> DEFINE t    == item.term
             load == InTerm(s.x, t)
  <2>1. t \in DOMAIN input.terms /\ t \in Nat /\ <<item.course, t>> \in s.x
    BY <1>4
  <2>2. load # {}
    BY <2>1 DEF InTerm
  <2>3. CreditsOf(input, load) = PlannedCredits(items, t) /\ CreditsOf(input, load) \in Nat
    BY <1>1, <2>1, TermCreditsAgree
  <2>4. TermCredits(input, s.x)
    BY <1>1 DEF Selections
  <2>5. load = {p \in s.x : p[2] = t}
    BY DEF InTerm
  <2> HIDE DEF load, t
  <2>6. CreditsOf(input, load) <= wishes.max /\ CreditsOf(input, load) >= wishes.min
    BY <1>3, <2>1, <2>2, <2>4, <2>5 DEF TermCredits
  <2>7. wishes.max \in Nat /\ wishes.min \in Nat
    <3>1. study \in Studies /\ study.solver # None
      BY DEF TypeOK
    <3>2. IsSolved(study.solver, study.items, study.calendar)
      BY <3>1, StudiesAssumption
    <3>3. QED
      BY <3>2 DEF IsSolved, wishes
  <2>8. QED
    BY <2>3, <2>6, <2>7 DEF t
<1>9. ASSUME NEW t \in DOMAIN input.terms PROVE TermSchedule(items, t, study.calendar) # "CONFLICT"
  <2> DEFINE M == UNION {item.meetings : item \in {i \in items : i.term = t}}
  <2>1. TermSchedule(items, t, study.calendar) = ScheduleState(M, study.calendar[t])
    BY Zenon DEF TermSchedule
  <2>2. \A m \in M : \E item \in items : item.term = t /\ m \in item.meetings
    OBVIOUS
  <2>3. \A item \in items : item.term = t => item.meetings \subseteq M
    OBVIOUS
  <2> HIDE DEF M
  <2>4. SUFFICES ASSUME ScheduleState(M, study.calendar[t]) = "CONFLICT" PROVE FALSE
    BY <2>1
  <2>5. PICK l \in M, r \in M :
           /\ l.section # r.section
           /\ \A N \in SUBSET M : l \in N /\ r \in N => ScheduleState(N, study.calendar[t]) = "CONFLICT"
    BY <2>4, FewerMeetings
  <2>6. ASSUME NEW m \in M
        PROVE  \E k \in input.candidates : /\ <<k.course, k.term>> \in s.x /\ k.term = t /\ m \in k.meetings
                                           /\ m.section = k.section /\ k.section # None /\ k.meetings \subseteq M
    <3>1. PICK item \in items : item.term = t /\ m \in item.meetings
      BY <2>2
    <3>2. PICK k \in input.candidates :
             <<k.course, k.term>> \in s.x /\ k.term = item.term /\ k.meetings = item.meetings
      BY <1>1
    <3>3. k.meetings # {} => k.section # None
      BY <1>2 DEF IsSound
    <3>4. QED
      BY <1>3, <2>3, <3>1, <3>2, <3>3
  <2>7. PICK k \in input.candidates : /\ <<k.course, k.term>> \in s.x /\ k.term = t /\ l \in k.meetings
                                      /\ l.section = k.section /\ k.section # None /\ k.meetings \subseteq M
    BY <2>6
  <2>8. PICK o \in input.candidates : /\ <<o.course, o.term>> \in s.x /\ o.term = t /\ r \in o.meetings
                                      /\ r.section = o.section /\ o.section # None /\ o.meetings \subseteq M
    BY <2>6
  <2>9. k.course # o.course
    <3>1. k # o
      BY <2>5, <2>7, <2>8
    <3>2. QED
      BY <1>2, <2>7, <2>8, <3>1 DEF IsSound
  <2>10. ScheduleState(k.meetings \cup o.meetings, study.calendar[t]) = "CONFLICT"
    <3>1. k.meetings \cup o.meetings \in SUBSET M
      BY <2>7, <2>8
    <3>2. QED
      BY <2>5, <2>7, <2>8, <3>1
  <2>11. Clash(input, k, o)
    BY <1>3, <2>7, <2>8, <2>10 DEF Clash
  <2>12. NoClash(input, s.x)
    BY <1>1 DEF Selections
  <2>13. QED
    BY <2>7, <2>8, <2>9, <2>11, <2>12 DEF NoClash
<1>10. \/ \E item \in items : \E w \in Of(item) : warning = <<w, item.course, item.term>>
       \/ \E item \in items : \E w \in In(item.term) : warning = <<w, None, item.term>>
  <2>1. warning \in warnings
    BY Zenon DEF WarningsOf, items, input, asked, offered, wishes
  <2>2. QED
    BY <2>1, WarningsAreAbout DEF State
<1>11. ASSUME NEW item \in items, NEW w \in Of(item), warning = <<w, item.course, item.term>>
       PROVE  Expected(warning)
  <2>1. warning[1] = w /\ warning[2] = item.course
    BY <1>11
  <2>2. /\ w \in {"PREREQUISITE_BLOCKED", "PREREQUISITE_UNKNOWN", "OFFERING_NOT_REPORTED",
                  "OFFERING_UNKNOWN", "DUPLICATE_COURSE", "CREDITS_UNKNOWN", "UNAVAILABLE_WEEKDAY"}
        /\ w = "PREREQUISITE_BLOCKED" => State(item) = "UNSATISFIED"
        /\ w = "OFFERING_NOT_REPORTED" => offered[item.course][item.term] = "NOT_OFFERED"
        /\ w = "OFFERING_UNKNOWN" => offered[item.course][item.term] = "UNKNOWN"
        /\ w = "DUPLICATE_COURSE" => Repeated(item, items)
    BY <1>11, CourseWarned
  <2>3. /\ w = "PREREQUISITE_BLOCKED" => ~ReadAlike(item.course)
        /\ w # "OFFERING_NOT_REPORTED" /\ w # "DUPLICATE_COURSE"
        /\ w = "OFFERING_UNKNOWN" => wishes.allowUnknown
    BY <1>5, <1>6, <1>7, <2>2
  <2>4. QED
    BY <2>1, <2>2, <2>3 DEF Expected, wishes
<1>12. ASSUME NEW item \in items, NEW w \in In(item.term), warning = <<w, None, item.term>>
       PROVE  Expected(warning)
  <2>1. warning[1] = w
    BY <1>12
  <2>2. /\ w \in {"CREDITS_ABOVE_MAX", "CREDITS_BELOW_MIN", "SCHEDULE_CONFLICT", "SCHEDULE_UNKNOWN"}
        /\ w = "CREDITS_ABOVE_MAX" => PlannedCredits(items, item.term) > wishes.max
        /\ w = "CREDITS_BELOW_MIN" => PlannedCredits(items, item.term) < wishes.min
        /\ w = "SCHEDULE_CONFLICT" => TermSchedule(items, item.term, study.calendar) = "CONFLICT"
    BY <1>12, TermWarned
  <2>3. w = "SCHEDULE_UNKNOWN"
    BY <1>4, <1>8, <1>9, <2>2
  <2>4. QED
    BY <2>1, <2>3 DEF Expected
<1>13. QED
  BY <1>10, <1>11, <1>12, Zenon

LEMMA NoChoiceNoCredits ==
  ASSUME NEW input
  PROVE  CreditsOf(input, {}) = 0
<1> DEFINE v == [a \in {} |-> Known(input.credits[a[1]])]
<1>1. v \in [{} -> Nat] /\ IsFiniteSet({})
  BY FS_EmptySet
<1>2. CreditsOf(input, {}) = Sums(v, {})[{}]
  BY ChoicesSummed
<1> HIDE DEF v
<1>3. Sums(v, {})[{}] = TakenFrom(v, {}, Sums(v, {}))
  BY <1>1, SumsUnfold
<1>4. QED
  BY <1>2, <1>3 DEF TakenFrom

\* The choices of a plan.
ChoicesOf(items) == {<<item.course, item.term>> : item \in items}

\* A plan without warnings is made of choices that the model allows.
LEMMA ValidIsPlan ==
  ASSUME TypeOK, study.solver # None, Comparable(Input)
  PROVE  IsPlanOf(plan, Input, ChoicesOf(plan))
<1> DEFINE input == Input
           x     == ChoicesOf(plan)
<1>1. study \in Studies /\ plan \subseteq study.items
  BY DEF TypeOK
<1>2. IsSolved(study.solver, study.items, study.calendar) /\ Len(study.calendar) \in Nat /\ DOMAIN study.calendar = 1..Len(study.calendar)
  BY <1>1, StudiesAssumption
<1>3. IsSound(input) /\ input.terms = study.calendar
  BY InputIsSound, InputOfPlan
<1>4. \A item \in plan : item.course \in Courses /\ item.term \in DOMAIN study.calendar
  BY InputOfPlan
<1>5. \A item \in plan : item.credits = input.credits[item.course]
  BY DEF Comparable
<1> HIDE DEF input
<1>6. \A item \in plan : <<item.course, item.term>> \in x
  BY DEF ChoicesOf
<1>7. \A p \in x : \E item \in plan : p = <<item.course, item.term>>
  BY DEF ChoicesOf
<1> HIDE DEF x
<1>8. \A i \in plan, j \in plan : i.course = j.course /\ i.term = j.term => i = j
  BY <1>1, <1>2, Zenon DEF IsSolved
<1>9. x \subseteq Courses \X DOMAIN study.calendar
  BY <1>4, <1>7
<1>10. IsFiniteSet(x)
  <2>1. IsFiniteSet(Courses)
    BY FS_Interval, NumbersAssumption DEF Courses
  <2>2. IsFiniteSet(DOMAIN study.calendar)
    <3>1. \A n \in Int : IsFiniteSet(1..n)
      BY FS_Interval
    <3>2. QED
      BY <1>2, <3>1
  <2>3. IsFiniteSet(Courses \X DOMAIN study.calendar)
    BY <2>1, <2>2, FS_Product
  <2>4. QED
    BY <1>9, <2>3, FS_Subset
<1>11. x \subseteq Courses \X Nat
  BY <1>2, <1>9
<1>12. input.credits \in [Courses -> Nat \cup {None}]
  BY <1>3 DEF IsSound
<1>13. IsPlanOf(plan, input, x)
  BY <1>5, <1>6, <1>7, <1>8, <1>10, <1>11, <1>12 DEF IsPlanOf
<1>14. QED
  BY <1>13 DEF input, x

\* A plan without warnings that takes what must be taken satisfies the model.
LEMMA ValidIsAccepted ==
  ASSUME TypeOK, study.solver # None, Comparable(Input), WarningsOf(plan) = {},
         NEW x, x = ChoicesOf(plan), NEW s, s = [x |-> x, y |-> Countable(Input, x)]
  PROVE  AcceptedByTheModel(Input, s)
<1> DEFINE input   == Input
           wishes  == study.solver.preferences
           offered == study.solver.offered
           asked   == [c \in Courses |-> Requirements(c)]
           State(item) == PrerequisiteState(item, asked, plan, History, revision.total)
           Of(item)    == CourseWarnings(item, State(item), plan, offered, wishes)
           In(t)       == TermWarnings(plan, t, study.calendar, wishes)
           warnings    == Warnings(plan, asked, History, revision.total, study.calendar, offered, wishes)
<1>1. study \in Studies /\ plan \subseteq study.items /\ IsSolved(study.solver, study.items, study.calendar)
  <2>1. study \in Studies /\ plan \subseteq study.items
    BY DEF TypeOK
  <2>2. QED
    BY <2>1, StudiesAssumption
<1>2. IsSound(input) /\ IsPlanOf(plan, input, x)
  BY InputIsSound, ValidIsPlan
<1>3. /\ input.terms = study.calendar /\ input.preferences = wishes
      /\ \A item \in plan : item.course \in input.courses /\ item.course \in Courses
                              /\ item.term \in DOMAIN study.calendar
      /\ \A c \in input.courses, t \in DOMAIN study.calendar :
            \E k \in input.candidates : k.course = c /\ k.term = t
      /\ \A k \in input.candidates :
            /\ k.state = offered[k.course][k.term]
            /\ \A item \in plan : item.course = k.course /\ item.term = k.term =>
                  item.section = k.section /\ item.meetings = k.meetings
      /\ \A lock \in input.locked : \E item \in plan : lock = <<item.course, item.term>>
  BY InputOfPlan
<1>4. warnings = {}
  BY Zenon DEF WarningsOf
<1>5. /\ \A item \in plan : item.course \notin input.passed
      /\ InProgress(student) = {}
      /\ \A item \in plan : \A r \in Requirements(item.course) : r.verified /\ Expressible(r.rule)
  BY DEF Comparable
<1>6. s.x = x /\ s.y = Countable(input, x)
  OBVIOUS
<1>7. ASSUME NEW item \in plan
      PROVE  State(item) \notin {"UNSATISFIED", "UNKNOWN"} => \A rule \in input.rules[item.course] : Holds(rule, item.term, input, s)
  <2> DEFINE state == State(item)
  <2>1. state = PrerequisiteState(item, [c \in Courses |-> Requirements(c)], plan, History, revision.total)
    BY Zenon
  <2>2. IsPlanOf(plan, Input, s.x) /\ item.course \in Input.courses
    BY <1>2, <1>3, <1>6
  <2> HIDE DEF state
  <2>3. state \notin {"UNSATISFIED", "UNKNOWN"} => \A rule \in Input.rules[item.course] : Holds(rule, item.term, Input, s)
    BY <1>5, <2>1, <2>2, PrerequisitesAgree
  <2>4. QED
    BY <2>3 DEF state
<1> HIDE DEF input, asked, State, offered, wishes
<1>8. \A item \in plan : <<item.course, item.term>> \in x
  BY DEF ChoicesOf
<1>9. ASSUME NEW p \in x
      PROVE  \E item \in plan : p = <<item.course, item.term>> /\ p[1] = item.course /\ p[2] = item.term
  BY DEF ChoicesOf
<1>10. (\A item \in plan : Of(item) = {}) /\ (\A item \in plan : In(item.term) = {})
  <2>1. /\ \A item \in plan : \A w \in Of(item) : <<w, item.course, item.term>> \in warnings
        /\ \A item \in plan : \A w \in In(item.term) : <<w, None, item.term>> \in warnings
    BY WarningsAreAbout DEF State
  <2>2. QED
    BY <1>4, <2>1
<1>11. ASSUME NEW item \in plan
       PROVE  /\ State(item) \notin {"UNSATISFIED", "UNKNOWN"} /\ offered[item.course][item.term] = "OFFERED"
              /\ ~Repeated(item, plan)
  <2>1. /\ "PREREQUISITE_BLOCKED" \in Of(item) <=> State(item) = "UNSATISFIED"
        /\ "PREREQUISITE_UNKNOWN" \in Of(item) <=> State(item) = "UNKNOWN"
        /\ "OFFERING_NOT_REPORTED" \in Of(item) <=> offered[item.course][item.term] = "NOT_OFFERED"
        /\ "OFFERING_UNKNOWN" \in Of(item) <=> offered[item.course][item.term] = "UNKNOWN"
        /\ "DUPLICATE_COURSE" \in Of(item) <=> Repeated(item, plan)
    BY CourseWarned
  <2>2. offered[item.course][item.term] \in {"OFFERED", "NOT_OFFERED", "UNKNOWN"}
    BY <1>1, <1>3 DEF IsSolved, offered
  <2>3. QED
    BY <1>10, <2>1, <2>2
<1>12. ASSUME NEW item \in plan
       PROVE  /\ ~(PlannedCredits(plan, item.term) > wishes.max) /\ ~(PlannedCredits(plan, item.term) < wishes.min)
              /\ TermSchedule(plan, item.term, study.calendar) \notin {"CONFLICT", "UNKNOWN"}
  <2>1. /\ "CREDITS_ABOVE_MAX" \in In(item.term) <=> PlannedCredits(plan, item.term) > wishes.max
        /\ "CREDITS_BELOW_MIN" \in In(item.term) <=> PlannedCredits(plan, item.term) < wishes.min
        /\ "SCHEDULE_CONFLICT" \in In(item.term) <=> TermSchedule(plan, item.term, study.calendar) = "CONFLICT"
        /\ "SCHEDULE_UNKNOWN" \in In(item.term) <=> TermSchedule(plan, item.term, study.calendar) = "UNKNOWN"
    BY TermWarned
  <2>2. QED
    BY <1>10, <2>1
<1>13. x \subseteq Keys(input)
  <2>1. ASSUME NEW p \in x PROVE p \in Keys(input)
    <3>1. PICK item \in plan : p = <<item.course, item.term>>
      BY <1>9
    <3>2. PICK k \in input.candidates : k.course = item.course /\ k.term = item.term
      BY <1>3
    <3>3. QED
      BY <3>1, <3>2 DEF Keys
  <2>2. QED
    BY <2>1
<1>14. OncePerCourse(input, x)
  <2>1. ASSUME NEW c \in input.courses PROVE Cardinality({p \in x : p[1] = c}) <= 1
    <3> DEFINE same == {p \in x : p[1] = c}
    <3>1. ASSUME NEW p \in same, NEW q \in same PROVE p = q
      <4>1. PICK i \in plan : p = <<i.course, i.term>> /\ p[1] = i.course
        BY <1>9
      <4>2. PICK j \in plan : q = <<j.course, j.term>> /\ q[1] = j.course
        BY <1>9
      <4>3. i.course = j.course /\ i.term \in Nat /\ j.term \in Nat
        <5>1. \A item \in plan : item.term \in Nat
          <6>1. DOMAIN input.terms = 1..Len(input.terms) /\ Len(input.terms) \in Nat
            BY <1>2 DEF IsSound
          <6>2. \A item \in plan : item.term \in DOMAIN input.terms
            BY <1>3
          <6>3. QED
            BY <6>1, <6>2
        <5>2. QED
          BY <4>1, <4>2, <5>1
      <4>4. i.term <= j.term \/ j.term <= i.term
        BY <4>3
      <4>5. i = j
        BY <1>11, <4>3, <4>4 DEF Repeated
      <4>6. QED
        BY <4>1, <4>2, <4>5
    <3>2. CASE same = {}
      <4>1. Cardinality(same) = 0
        BY <3>2, FS_EmptySet
      <4>2. QED
        BY <4>1
    <3>3. CASE same # {}
      <4>1. PICK p : p \in same
        BY <3>3
      <4>2. same = {p}
        BY <3>1, <4>1
      <4> HIDE DEF same
      <4>3. Cardinality(same) = 1
        BY <4>2, FS_Singleton
      <4>4. QED
        BY <4>3 DEF same
    <3>4. QED
      BY <3>2, <3>3
  <2>2. QED
    BY <2>1, Zenon DEF OncePerCourse
<1>15. NothingBlocked(input, x)
  <2>1. ASSUME NEW k \in input.candidates, <<k.course, k.term>> \in x
        PROVE  k.course \notin input.passed /\ ~Blocked(input, k)
    <3>1. PICK item \in plan : k.course = item.course /\ k.term = item.term
      BY <1>9, <2>1
    <3>2. k.state = "OFFERED"
      BY <1>3, <1>11, <3>1
    <3>3. QED
      BY <1>5, <3>1, <3>2 DEF Blocked
  <2>2. QED
    BY <2>1, Zenon DEF NothingBlocked
<1>16. TermCredits(input, x)
  <2>1. ASSUME NEW t \in DOMAIN input.terms
        PROVE  /\ CreditsOf(input, InTerm(x, t)) <= wishes.max
               /\ InTerm(x, t) # {} => CreditsOf(input, InTerm(x, t)) >= wishes.min
    <3>1. t \in Nat
      BY <1>2 DEF IsSound
    <3>2. CreditsOf(input, InTerm(x, t)) = PlannedCredits(plan, t) /\ CreditsOf(input, InTerm(x, t)) \in Nat
      BY <1>2, <3>1, TermCreditsAgree
    <3>3. wishes.max \in Nat /\ wishes.min \in Nat
      BY <1>1 DEF IsSolved, wishes
    <3>4. CASE InTerm(x, t) = {}
      BY <3>3, <3>4, NoChoiceNoCredits
    <3>5. CASE InTerm(x, t) # {}
      <4>1. PICK p \in x : p[2] = t
        BY <3>5 DEF InTerm
      <4>2. PICK item \in plan : item.term = t
        BY <1>9, <4>1
      <4>3. ~(PlannedCredits(plan, t) > wishes.max) /\ ~(PlannedCredits(plan, t) < wishes.min)
        BY <1>12, <4>2
      <4>4. QED
        BY <3>2, <3>3, <4>3
    <3>6. QED
      BY <3>4, <3>5
  <2>2. QED
    BY <1>3, <2>1, Zenon DEF TermCredits, InTerm
<1>17. NoClash(input, x)
  <2>1. ASSUME NEW k \in input.candidates, NEW l \in input.candidates,
               <<k.course, k.term>> \in x, <<l.course, l.term>> \in x, k.term = l.term
        PROVE  ~Clash(input, k, l)
    <3>1. PICK i \in plan : i.course = k.course /\ i.term = k.term
      BY <1>9, <2>1
    <3>2. PICK j \in plan : j.course = l.course /\ j.term = l.term
      BY <1>9, <2>1
    <3> DEFINE t == i.term
               M == UNION {item.meetings : item \in {o \in plan : o.term = t}}
    <3>3. TermSchedule(plan, t, study.calendar) = ScheduleState(M, study.calendar[t])
      BY Zenon DEF TermSchedule
    <3>4. i.meetings = k.meetings /\ j.meetings = l.meetings
      BY <1>3, <3>1, <3>2
    <3>5. k.meetings \cup l.meetings \in SUBSET M
      BY <2>1, <3>1, <3>2, <3>4
    <3> HIDE DEF M
    <3>6. ScheduleState(M, study.calendar[t]) = "SCHEDULABLE"
      BY <1>12, <3>3, FewerMeetings
    <3>7. ScheduleState(k.meetings \cup l.meetings, study.calendar[t]) # "CONFLICT"
      BY <3>5, <3>6, FewerMeetings
    <3>8. QED
      BY <1>3, <3>1, <3>7 DEF Clash
  <2>2. QED
    BY <2>1 DEF NoClash
<1>18. LocksKept(input, x)
  BY <1>3, <1>8 DEF LocksKept
<1>19. RulesHold(input, s)
  <2>1. ASSUME NEW p \in x, NEW rule \in input.rules[p[1]] PROVE Holds(rule, p[2], input, s)
    <3>1. PICK item \in plan : p[1] = item.course /\ p[2] = item.term
      BY <1>9
    <3>2. \A q \in input.rules[item.course] : Holds(q, item.term, input, s)
      BY <1>7, <1>11
    <3>3. QED
      BY <2>1, <3>1, <3>2, Zenon
  <2>2. QED
    BY <1>6, <2>1, Zenon DEF RulesHold
<1>20. AssignmentsBounded(input, s)
  <2>1. ASSUME NEW c \in input.courses
        PROVE  Cardinality(BoundedFor(s, c)) <= Cardinality({p \in s.x : p[1] = c})
    <3>1. BoundedFor(s, c) = {}
      BY DEF BoundedFor, GroupCode, CourseCode
    <3>2. Cardinality({}) = 0
      BY FS_EmptySet
    <3>3. IsFiniteSet({p \in s.x : p[1] = c})
      <4>1. IsFiniteSet(s.x)
        BY <1>2, <1>6 DEF IsPlanOf
      <4>2. {p \in s.x : p[1] = c} \in SUBSET s.x
        OBVIOUS
      <4>3. QED
        BY <4>1, <4>2, FS_Subset
    <3>4. Cardinality({p \in s.x : p[1] = c}) \in Nat
      BY <3>3, FS_CardinalityType
    <3> DEFINE n == Cardinality({p \in s.x : p[1] = c})
    <3>5. n \in Nat
      BY <3>4
    <3> HIDE DEF n
    <3>6. 0 <= n
      BY <3>5
    <3>7. QED
      BY <3>1, <3>2, <3>6, Zenon DEF n
  <2>2. QED
    BY <2>1, Zenon DEF AssignmentsBounded
<1>21. ASSUME MandatoryTaken(input, x), TargetMet(input, x) PROVE x \in Selections(input)
  BY <1>13, <1>14, <1>15, <1>16, <1>17, <1>18, <1>21 DEF Selections, Keys
<1>22. ASSUME x \in Selections(input), GroupsCovered(input, s) PROVE s \in Solutions(input)
  <2>1. s \in {[x |-> x, y |-> y] : y \in SUBSET Countable(input, x)}
    <3> DEFINE counted == Countable(input, x)
    <3>1. s = [x |-> x, y |-> counted] /\ counted \in SUBSET counted
      BY DEF input
    <3> HIDE DEF counted
    <3>2. s \in {[x |-> x, y |-> y] : y \in SUBSET counted}
      BY <3>1
    <3>3. QED
      BY <3>2 DEF counted
  <2> DEFINE Assignments(z) == {[x |-> z, y |-> y] : y \in SUBSET Countable(input, z)}
  <2>2. s \in Assignments(x)
    BY <2>1, Zenon
  <2>3. Solutions(input) = {a \in UNION {Assignments(z) : z \in Selections(input)} :
                              GroupsCovered(input, a) /\ AssignmentsBounded(input, a) /\ RulesHold(input, a)}
    BY Zenon DEF Solutions
  <2> HIDE DEF Assignments
  <2>4. s \in UNION {Assignments(z) : z \in Selections(input)}
    BY <1>22, <2>2, Zenon
  <2>5. QED
    BY <1>19, <1>20, <1>22, <2>3, <2>4, Zenon
<1>23. QED
  BY <1>6, <1>21, <1>22, Zenon DEF AcceptedByTheModel, input

\* The optimizer proposes no plan that the validator has anything against, and a plan the
\* validator has nothing against is among those it may propose.
THEOREM ProposedAreValid == Spec => []ProposedPlansAreValid
<1>1. ASSUME TypeOK PROVE ProposedPlansAreValid
  <2>1. SUFFICES ASSUME study.solver # None PROVE ProposedPlansAreValid
    BY Zenon DEF ProposedPlansAreValid
  <2>2. \A s \in Solutions(Input) : \A warning \in WarningsOf(AsPlan(Input, s)) : Expected(warning)
    BY <1>1, <2>1, ProposedIsValid
  <2>3. ASSUME Comparable(Input), WarningsOf(plan) = {}, NEW x \in {ChoicesOf(plan)}
        PROVE  AcceptedByTheModel(Input, [x |-> x, y |-> Countable(Input, x)])
    <3> DEFINE s == [x |-> x, y |-> Countable(Input, x)]
    <3>1. x = ChoicesOf(plan) /\ s = [x |-> x, y |-> Countable(Input, x)]
      BY Zenon
    <3> HIDE DEF s
    <3>2. AcceptedByTheModel(Input, s)
      BY <1>1, <2>1, <2>3, <3>1, ValidIsAccepted
    <3>3. QED
      BY <3>2 DEF s
  <2>4. QED
    BY <2>2, <2>3, Zenon DEF ProposedPlansAreValid, ChoicesOf
<1>2. QED
  BY <1>1, TypeCorrect, PTL

-----------------------------------------------------------------------------
(* The pages: the overview, the numbers of analytics, and the planner.       *)

\* The audit answers each rule with one of the four.
LEMMA AnswersTyped ==
  ASSUME NEW f, f.external \in [Externals -> Statuses \cup {None}]
  PROVE  \A rule \in AuditRule : Evaluate(rule, f) \in Statuses
<1> DEFINE Good == {rule \in AuditRule : Asked(f)[rule] \in Statuses}
           leaves == [r \in AuditRule |-> Leaf(r, f)]
           answers == Asked(f)
<1>1. ASSUME NEW rule \in AuditRule, rule.kind \notin {"ALL", "ANY", "NOT"} PROVE Leaf(rule, f) \in Statuses
  <2>1. rule.kind \in Kinds /\ (rule.kind = "EXTERNAL_REQUIREMENT" => rule.key \in Externals)
    BY RulesAssumption, ExternalsAssumption
  <2>2. CASE rule.kind = "EXTERNAL_REQUIREMENT"
    <3>1. Leaf(rule, f) = IF f.external[rule.key] = None THEN "UNKNOWN" ELSE f.external[rule.key]
      BY <2>2 DEF Leaf
    <3>2. f.external[rule.key] \in Statuses \cup {None}
      BY <2>1, <2>2
    <3>3. QED
      BY <3>1, <3>2 DEF Statuses
  <2>3. CASE rule.kind # "EXTERNAL_REQUIREMENT"
    BY <1>1, <2>1, <2>3 DEF Leaf, AboutCourses, AboutCredits, Decide, Kinds, Statuses
  <2>4. QED
    BY <2>2, <2>3
<1>2. ASSUME NEW rule \in AuditRule PROVE answers[rule] = Combined(rule, answers, leaves)
  <2>1. answers = [r \in AuditRule |-> Combined(r, answers, leaves)]
    BY EvaluateUnfolds
  <2> HIDE DEF answers, leaves
  <2>2. QED
    BY <2>1, Zenon
<1>3. ASSUME NEW rule \in AuditRule, \A child \in Children(rule) : child \in Good PROVE rule \in Good
  <2>1. answers[rule] = Combined(rule, answers, leaves)
    BY <1>2
  <2>2. CASE rule.kind = "ALL"
    BY <2>1, <2>2 DEF Combined, CombineAll, Statuses
  <2>3. CASE rule.kind = "ANY"
    BY <2>1, <2>3 DEF Combined, CombineAny, Statuses
  <2>4. CASE rule.kind = "NOT"
    <3>1. answers[rule.child] \in Statuses
      BY <1>3, <2>4 DEF Children
    <3>2. answers[rule] = Negate(answers[rule.child])
      BY <2>1, <2>4 DEF Combined
    <3>3. QED
      BY <3>1, <3>2 DEF Negate, Statuses
  <2>5. CASE rule.kind \notin {"ALL", "ANY", "NOT"}
    BY <1>1, <2>1, <2>5 DEF Combined
  <2>6. QED
    BY <2>2, <2>3, <2>4, <2>5
<1>4. AuditRule \subseteq Good
  <2> HIDE DEF Good
  <2>1. QED
    BY <1>3, RulesAreWellFounded
<1>5. QED
  BY <1>4, EvaluateUnfolds

LEMMA RequirementTyped ==
  ASSUME NEW r, IsRevision(r), NEW s, IsRecord(s), NEW q \in r.requirements
  PROVE  RequirementStatus(q, Facts(r, s)) \in Statuses
<1> DEFINE f == Facts(r, s)
<1>1. f.external \in [Externals -> Statuses \cup {None}] /\ q.rule \in AuditRule
  BY FactsKnown DEF IsRecord, Records, IsRevision
<1> HIDE DEF f
<1>2. Evaluate(q.rule, f) \in Statuses
  BY <1>1, AnswersTyped
<1>3. QED
  BY <1>2 DEF RequirementStatus, Statuses, f

\* The credits of each group, as numbers.
LEMMA AppliedIsNat ==
  ASSUME NEW r, IsRevision(r), NEW s, IsRecord(s)
  PROVE  /\ GroupApplied(r, s) \in Ledgers(r)
         /\ \A g \in Groups : /\ GroupApplied(r, s)[g] \in Nat /\ r.groups[g].required \in Nat
                              /\ GroupApplied(r, s)[g] <= r.groups[g].required
<1>1. NumCourses \in 0..NumCourses
  BY NumbersAssumption
<1>2. GroupApplied(r, s) \in Ledgers(r)
  BY <1>1, LedgerUnfolds
<1>3. QED
  BY <1>2 DEF Ledgers, IsRevision

\* A group is among what is left exactly if it is not finished.
LEMMA GroupLeft ==
  ASSUME NEW r, IsRevision(r), NEW s, IsRecord(s), NEW g \in Groups
  PROVE  /\ g \notin s.waived.groups =>
               (<<"group", g>> \notin RemainingRequirements(r, s)
                  <=> GroupStatus(r, s, GroupApplied(r, s), g) = "SATISFIED")
         /\ g \in s.waived.groups => GroupStatus(r, s, GroupApplied(r, s), g) = "SATISFIED"
         /\ GroupStatus(r, s, GroupApplied(r, s), g) \in {"SATISFIED", "UNSATISFIED"}
<1> DEFINE left == RemainingRequirements(r, s)
           applied == GroupApplied(r, s)
           missing == MandatoryMissing(r, s, g)
           taken   == MandatoryCourses(r, g) \subseteq Passed(s) \cup s.waived.courses
<1>1. <<"group", g>> \in left <=> RemainingOf(r, s, g) > 0 \/ missing # {}
  BY DEF RemainingRequirements
<1>2. taken <=> missing = {}
  BY DEF MandatoryMissing
<1>3. applied[g] \in Nat /\ r.groups[g].required \in Nat
  BY AppliedIsNat
<1>4. ASSUME g \notin s.waived.groups
      PROVE  RemainingOf(r, s, g) > 0 <=> ~(applied[g] >= r.groups[g].required)
  <2>1. RemainingOf(r, s, g) = Max({0, r.groups[g].required - applied[g]})
    BY <1>4 DEF RemainingOf
  <2>2. QED
    BY <1>3, <2>1, MaxOfTwo
<1>5. GroupStatus(r, s, applied, g) =
         IF g \in s.waived.groups THEN "SATISFIED" ELSE Decide(taken /\ applied[g] >= r.groups[g].required)
  BY Zenon DEF GroupStatus
<1> HIDE DEF left, applied, missing, taken
<1>6. QED
  BY <1>1, <1>2, <1>4, <1>5 DEF Decide, left, applied

\* A requirement is among what is left exactly if the audit does not call it satisfied.
LEMMA RequirementLeft ==
  ASSUME NEW r, NEW s, NEW q
  PROVE  <<"requirement", q>> \in RemainingRequirements(r, s)
            <=> q \in r.requirements /\ RequirementStatus(q, Facts(r, s)) # "SATISFIED"
<1>1. /\ <<"requirement", q>> \notin {<<"group", g>> : g \in {h \in Groups :
            RemainingOf(r, s, h) > 0 \/ MandatoryMissing(r, s, h) # {}}}
      /\ <<"requirement", q>> \in {<<"requirement", p>> : p \in {o \in r.requirements :
            RequirementStatus(o, Facts(r, s)) # "SATISFIED"}}
            <=> q \in r.requirements /\ RequirementStatus(q, Facts(r, s)) # "SATISFIED"
  OBVIOUS
<1>2. QED
  BY <1>1, Zenon DEF RemainingRequirements

\* What the verdict says of the groups and of the requirements.
LEMMA VerdictMeans ==
  ASSUME NEW r, NEW s
  PROVE  LET facts == Facts(r, s)
             verdict == Overall(r, s)
             failed == \/ \E g \in Groups : GroupStatus(r, s, GroupApplied(r, s), g) = "UNSATISFIED"
                       \/ \E q \in r.requirements : q.owner = None /\ RequirementStatus(q, facts) = "UNSATISFIED"
             open   == \/ facts.unknown # {}
                       \/ \E q \in r.requirements : Material(r, q) /\ RequirementStatus(q, facts) = "UNKNOWN"
         IN /\ verdict \in {"SATISFIED", "UNSATISFIED", "UNKNOWN"}
            /\ verdict = "UNSATISFIED" <=> failed
            /\ verdict = "UNKNOWN" <=> ~failed /\ open
<1> DEFINE facts  == Facts(r, s)
           groups == {GroupStatus(r, s, facts.group, g) : g \in Groups}
           Answers(R) == {RequirementStatus(q, facts) : q \in R}
           graduation == {q \in r.requirements : q.owner = None}
           material   == {q \in r.requirements : Material(r, q)}
<1>1. Overall(r, s) =
        CASE "UNSATISFIED" \in groups \cup Answers(graduation) -> "UNSATISFIED"
          [] /\ "UNSATISFIED" \notin groups \cup Answers(graduation)
             /\ facts.unknown # {} \/ "UNKNOWN" \in Answers(material) -> "UNKNOWN"
          [] OTHER -> "SATISFIED"
  BY Zenon DEF Overall
<1>2. facts.group = GroupApplied(r, s)
  BY FactsKnown
<1> HIDE DEF facts
<1>3. QED
  BY <1>1, <1>2 DEF facts

\* What opens a course.
LEMMA EligibilityMeans ==
  ASSUME NEW r, IsRevision(r), NEW s, IsRecord(s), NEW c
  PROVE  LET statuses == {RequirementStatus(q, Facts(r, s)) : q \in {p \in r.requirements : p.owner = c}}
             answer   == Eligibility(r, s, c)
         IN /\ statuses \subseteq Statuses
            /\ answer = "PASSED" <=> c \in Selected(s)
            /\ answer = "IN_PROGRESS" <=> c \notin Selected(s) /\ c \in InProgress(s)
            /\ answer = "BLOCKED" <=> c \notin Selected(s) \cup InProgress(s) /\ "UNSATISFIED" \in statuses
            /\ answer = "ELIGIBLE" <=> /\ c \notin Selected(s) \cup InProgress(s)
                                       /\ statuses # {} /\ statuses \subseteq {"SATISFIED", "NOT_APPLICABLE"}
<1> DEFINE statuses == {RequirementStatus(q, Facts(r, s)) : q \in {p \in r.requirements : p.owner = c}}
<1>1. statuses \subseteq Statuses
  BY RequirementTyped
<1>2. Eligibility(r, s, c) =
        CASE c \in Selected(s)   -> "PASSED"
          [] c \in InProgress(s) -> "IN_PROGRESS"
          [] OTHER -> Opens(statuses)
  BY Zenon DEF Eligibility
<1>3. InProgress(s) \cap Selected(s) = {}
  BY DEF InProgress
<1> HIDE DEF statuses
<1>4. /\ Opens(statuses) \in {"UNKNOWN", "BLOCKED", "ELIGIBLE"}
      /\ Opens(statuses) = "BLOCKED" <=> "UNSATISFIED" \in statuses
      /\ Opens(statuses) = "ELIGIBLE" <=> statuses # {} /\ statuses \subseteq {"SATISFIED", "NOT_APPLICABLE"}
  BY <1>1 DEF Opens, Statuses
<1>5. CASE c \in Selected(s)
  BY <1>1, <1>2, <1>3, <1>5 DEF statuses
<1>6. CASE c \in InProgress(s)
  BY <1>1, <1>2, <1>3, <1>6 DEF statuses
<1>7. CASE c \notin Selected(s) \cup InProgress(s)
  <2>1. Eligibility(r, s, c) = Opens(statuses)
    BY <1>2, <1>7
  <2>2. QED
    BY <1>1, <1>4, <1>7, <2>1 DEF statuses
<1>8. QED
  BY <1>5, <1>6, <1>7

LEMMA StudentIsSound ==
  ASSUME TypeOK
  PROVE  IsRevision(revision) /\ IsRecord(student)
BY StudyIsSound DEF TypeOK, IsRecord

\* The page names what a verdict hangs on.
LEMMA VerdictIsShown ==
  ASSUME TypeOK
  PROVE  AgreesWithVerdict
<1> DEFINE page  == Overview(revision, student)
           left  == RemainingRequirements(revision, student)
           facts == Facts(revision, student)
           applied == GroupApplied(revision, student)
           failed == \/ \E g \in Groups : GroupStatus(revision, student, applied, g) = "UNSATISFIED"
                     \/ \E q \in revision.requirements : q.owner = None /\ RequirementStatus(q, facts) = "UNSATISFIED"
           open   == \/ facts.unknown # {}
                     \/ \E q \in revision.requirements :
                           Material(revision, q) /\ RequirementStatus(q, facts) = "UNKNOWN"
<1>1. IsRevision(revision) /\ IsRecord(student)
  BY StudentIsSound
<1>2. /\ page.state = OverviewState(revision, student) /\ page.verdict = Overall(revision, student)
      /\ \A g \in Groups : page.groups[g].status = GroupStatus(revision, student, applied, g)
      /\ DOMAIN page.options = MemberCourses(revision)
      /\ \A c \in MemberCourses(revision) : page.options[c].eligibility = Eligibility(revision, student, c)
      /\ page.unlocks = {u \in NextUnlocks(revision, student) : u.course \in MemberCourses(revision)}
  BY DEF Overview, GroupViews, CourseOptions
<1>3. /\ page.verdict \in {"SATISFIED", "UNSATISFIED", "UNKNOWN"}
      /\ page.verdict = "UNSATISFIED" <=> failed
      /\ page.verdict = "UNKNOWN" <=> ~failed /\ open
  BY <1>2, VerdictMeans, Zenon
<1>4. \A g \in Groups :
         /\ g \notin student.waived.groups =>
               (<<"group", g>> \notin left <=> GroupStatus(revision, student, applied, g) = "SATISFIED")
         /\ g \in student.waived.groups => GroupStatus(revision, student, applied, g) = "SATISFIED"
         /\ GroupStatus(revision, student, applied, g) \in {"SATISFIED", "UNSATISFIED"}
  BY <1>1, GroupLeft
<1>5. \A q : <<"requirement", q>> \in left <=> q \in revision.requirements /\ RequirementStatus(q, facts) # "SATISFIED"
  BY RequirementLeft
<1>6. \A q \in revision.requirements : RequirementStatus(q, facts) \in Statuses
  BY <1>1, RequirementTyped
<1>7. page.state = "READY" => facts.unknown = {} /\ \A q \in revision.requirements : RequirementStatus(q, facts) # "UNKNOWN"
  BY <1>2 DEF OverviewState, SomethingUnknown
<1>8. ASSUME NEW c \in MemberCourses(revision) \ (Recognized(student) \cup InProgress(student))
      PROVE  page.options[c].eligibility = "BLOCKED" <=> [course |-> c, status |-> "UNSATISFIED"] \in page.unlocks
  <2>1. c \in Courses /\ c # None
    BY <1>1, NoneAssumption, NumbersAssumption DEF MemberCourses, IsRevision, IsMembership, Courses
  <2>2. page.options[c].eligibility = "BLOCKED"
           <=> /\ c \notin Selected(student)
               /\ \E q \in revision.requirements : q.owner = c /\ RequirementStatus(q, facts) = "UNSATISFIED"
    <3>1. Eligibility(revision, student, c) = "BLOCKED"
             <=> /\ c \notin Selected(student) \cup InProgress(student)
                 /\ "UNSATISFIED" \in {RequirementStatus(q, facts) : q \in {p \in revision.requirements : p.owner = c}}
      BY <1>1, EligibilityMeans, Zenon
    <3> HIDE DEF page, facts
    <3>2. QED
      BY <1>2, <1>8, <3>1
  <2>3. NextUnlocks(revision, student) =
           {[course |-> q.owner, status |-> RequirementStatus(q, facts)] :
              q \in {p \in revision.requirements : p.owner # None /\ p.owner \notin Passed(student)}}
    BY Zenon DEF NextUnlocks
  <2> HIDE DEF page, facts
  <2>4. [course |-> c, status |-> "UNSATISFIED"] \in page.unlocks
           <=> [course |-> c, status |-> "UNSATISFIED"] \in NextUnlocks(revision, student)
    BY <1>2, <1>8
  <2>5. c \in Passed(student) <=> c \in Selected(student)
    BY <1>8 DEF Passed
  <2>6. [course |-> c, status |-> "UNSATISFIED"] \in NextUnlocks(revision, student)
           <=> \E q \in revision.requirements :
                  c \notin Passed(student) /\ q.owner = c /\ RequirementStatus(q, facts) = "UNSATISFIED"
    BY <2>1, <2>3
  <2>7. QED
    BY <2>2, <2>4, <2>5, <2>6
<1> HIDE DEF page, left, facts, applied
<1>9. page.verdict = "UNSATISFIED" => left # {}
  BY <1>3, <1>4, <1>5
<1>10. page.verdict # "UNSATISFIED" => \A g \in Groups \ student.waived.groups : <<"group", g>> \notin left
  BY <1>3, <1>4
<1>11. ASSUME page.verdict = "SATISFIED", NEW q \in revision.requirements, <<"requirement", q>> \in left
       PROVE  q.owner # None \/ RequirementStatus(q, facts) = "NOT_APPLICABLE"
  <2>1. ~failed /\ ~open
    BY <1>3, <1>11
  <2>2. q.owner = None => RequirementStatus(q, facts) \notin {"UNSATISFIED", "UNKNOWN", "SATISFIED"}
    BY <1>5, <1>11, <2>1 DEF Material
  <2>3. QED
    BY <1>6, <2>2 DEF Statuses
<1>12. page.state = "READY" => page.verdict # "UNKNOWN"
  BY <1>3, <1>7
<1>13. \A g \in Groups \ student.waived.groups : page.groups[g].status = "SATISFIED" <=> <<"group", g>> \notin left
  BY <1>2, <1>4
<1>14. \A c \in DOMAIN page.options \ (Recognized(student) \cup InProgress(student)) :
          page.options[c].eligibility = "BLOCKED" <=> [course |-> c, status |-> "UNSATISFIED"] \in page.unlocks
  BY <1>2, <1>8
<1>15. VerdictAgrees(page, left, facts)
  BY <1>9, <1>10, <1>11, <1>12, <1>13, <1>14, Zenon DEF VerdictAgrees
<1>16. QED
  BY <1>15 DEF AgreesWithVerdict, page, left, facts

\* The facts of today and the history of the planner, as far as both tell of courses.
SameToday(f, history) == f.passed = history.passed /\ f.inProgress = history.inProgress

\* Nothing is planned or in progress but the course that is asked about.
Alone(items, history, c) == history.inProgress = {} /\ \A i \in items : i.course = c

\* What a rule about other courses says today it says of a term to come: that it is met,
\* always, and that it is not met as long as nothing else is planned.
LEMMA LeafAhead ==
  ASSUME NEW f, NEW history, SameToday(f, history), NEW items, NEW t, NEW total, NEW c,
         NEW rule \in AuditRule, rule.kind \in CourseKinds, c \notin Named(rule)
  PROVE  LET now   == Leaf(rule, f)
             ahead == ExpectLeaf(rule, items, t, history, total)
         IN /\ now \in {"SATISFIED", "UNSATISFIED", "UNKNOWN"}
            /\ now = "SATISFIED" => ahead = "SATISFIED"
            /\ Alone(items, history, c) /\ now = "UNSATISFIED" => ahead = "UNSATISFIED"
<1> DEFINE now   == Leaf(rule, f)
           ahead == ExpectLeaf(rule, items, t, history, total)
<1>1. ASSUME NEW codes, NEW holds
      PROVE  /\ AboutCourses(codes, f, holds) \in {"SATISFIED", "UNSATISFIED", "UNKNOWN"}
             /\ AboutCourses(codes, f, holds) = "SATISFIED" => holds
             /\ AboutCourses(codes, f, holds) = "UNSATISFIED" => ~holds
  BY Zenon DEF AboutCourses, Decide
<1>2. ASSUME NEW d, NEW alongside
      PROVE  /\ CourseAnswer(d, alongside, items, t, history) \in {"SATISFIED", "UNSATISFIED"}
             /\ d \in f.passed \cup f.inProgress => CourseAnswer(d, alongside, items, t, history) = "SATISFIED"
             /\ Alone(items, history, c) /\ d # c /\ d \notin f.passed =>
                   CourseAnswer(d, alongside, items, t, history) = "UNSATISFIED"
  <2>1. Alone(items, history, c) /\ d # c => ~PlannedBy(items, d, t) /\ ~PlannedBefore(items, d, t)
    BY DEF Alone, PlannedBy, PlannedBefore, Planned
  <2>2. CourseAnswer(d, alongside, items, t, history) =
           Decide(\/ d \in history.passed \cup history.inProgress
                  \/ IF alongside THEN PlannedBy(items, d, t) ELSE PlannedBefore(items, d, t))
    BY Zenon DEF CourseAnswer
  <2>3. CASE d \in f.passed \cup f.inProgress
    BY <2>2, <2>3 DEF Decide, SameToday, Alone
  <2>4. CASE d \notin f.passed \cup f.inProgress
    BY <2>1, <2>2, <2>4 DEF Decide, SameToday, Alone
  <2>5. QED
    BY <2>3, <2>4
<1>3. CASE rule.kind = "COURSE_PASSED"
  <2>1. /\ now = AboutCourses({rule.course}, f, rule.course \in f.passed)
        /\ ahead = CourseAnswer(rule.course, FALSE, items, t, history)
    BY <1>3 DEF Leaf, ExpectLeaf
  <2>2. rule.course # c
    BY <1>3 DEF Named, NamesCourse
  <2> HIDE DEF now, ahead
  <2>3. QED
    BY <1>1, <1>2, <2>1, <2>2 DEF now, ahead
<1>4. CASE rule.kind \in {"COURSE_PASSED_OR_IN_PROGRESS", "COREQUISITE"}
  <2>1. /\ now = AboutCourses({rule.course}, f, rule.course \in f.passed \cup f.inProgress)
        /\ ahead = CourseAnswer(rule.course, TRUE, items, t, history)
    BY <1>4 DEF Leaf, ExpectLeaf
  <2>2. rule.course # c
    BY <1>4 DEF Named, NamesCourse
  <2> HIDE DEF now, ahead
  <2>3. QED
    BY <1>1, <1>2, <2>1, <2>2 DEF now, ahead
<1>5. CASE rule.kind = "MANDATORY_COURSES_COMPLETED"
  <2> DEFINE answers == {CourseAnswer(d, FALSE, items, t, history) : d \in rule.courses}
  <2>1. /\ now = AboutCourses(rule.courses, f, rule.courses \subseteq f.passed)
        /\ ahead = CombineAll(answers)
    BY <1>5 DEF Leaf, ExpectLeaf
  <2>2. c \notin rule.courses
    BY <1>5 DEF Named, NamesCourse
  <2>3. ASSUME now = "SATISFIED" PROVE ahead = "SATISFIED"
    <3>1. rule.courses \subseteq f.passed
      BY <1>1, <2>1, <2>3
    <3>2. \A a \in answers : a = "SATISFIED"
      BY <1>2, <3>1
    <3> HIDE DEF answers
    <3>3. QED
      BY <2>1, <3>2 DEF CombineAll
  <2>4. ASSUME Alone(items, history, c), now = "UNSATISFIED" PROVE ahead = "UNSATISFIED"
    <3>1. PICK d \in rule.courses : d \notin f.passed
      BY <1>1, <2>1, <2>4
    <3>2. CourseAnswer(d, FALSE, items, t, history) = "UNSATISFIED"
      BY <1>2, <2>2, <2>4, <3>1
    <3>3. "UNSATISFIED" \in answers
      BY <3>2
    <3> HIDE DEF answers
    <3>4. QED
      BY <2>1, <3>3 DEF CombineAll
  <2>5. QED
    BY <1>1, <2>1, <2>3, <2>4
<1>6. CASE rule.kind = "UNKNOWN"
  BY <1>6 DEF Leaf
<1>7. QED
  BY <1>3, <1>4, <1>5, <1>6 DEF CourseKinds

\* Rules about other courses, with the rules in them.
AboutOthers(R, c) ==
    \A r \in R : /\ Children(r) \subseteq R
                 /\ r.kind \in {"ALL", "ANY", "NOT"} \/ (r.kind \in CourseKinds /\ c \notin Named(r))

LEMMA RulesAhead ==
  ASSUME NEW f, NEW history, SameToday(f, history), NEW items, NEW t, NEW total, NEW c,
         NEW R \in SUBSET AuditRule, AboutOthers(R, c),
         Alone(items, history, c) \/ \A r \in R : r.kind # "NOT"
  PROVE  \A rule \in R :
            /\ Evaluate(rule, f) \in {"SATISFIED", "UNSATISFIED", "UNKNOWN"}
            /\ Evaluate(rule, f) = "SATISFIED" => Expect(rule, items, t, history, total) = "SATISFIED"
            /\ Alone(items, history, c) /\ Evaluate(rule, f) = "UNSATISFIED" =>
                  Expect(rule, items, t, history, total) = "UNSATISFIED"
<1> DEFINE now      == Asked(f)
           leaf     == [r \in AuditRule |-> Leaf(r, f)]
           expected == Forecast(items, t, history, total)
           ahead    == [r \in AuditRule |-> ExpectLeaf(r, items, t, history, total)]
           only     == Alone(items, history, c)
           Known3   == {"SATISFIED", "UNSATISFIED", "UNKNOWN"}
           Fine(r)  == /\ now[r] \in Known3
                       /\ now[r] = "SATISFIED" => expected[r] = "SATISFIED"
                       /\ only /\ now[r] = "UNSATISFIED" => expected[r] = "UNSATISFIED"
           Good     == {r \in AuditRule : r \in R => Fine(r)}
<1>1. ASSUME NEW r \in R, r.kind \notin {"ALL", "ANY", "NOT"}
      PROVE  /\ leaf[r] \in Known3
             /\ leaf[r] = "SATISFIED" => ahead[r] = "SATISFIED"
             /\ only /\ leaf[r] = "UNSATISFIED" => ahead[r] = "UNSATISFIED"
  <2>1. r \in AuditRule /\ r.kind \in CourseKinds /\ c \notin Named(r)
    BY <1>1 DEF AboutOthers
  <2>2. leaf[r] = Leaf(r, f) /\ ahead[r] = ExpectLeaf(r, items, t, history, total)
    BY <2>1
  <2> HIDE DEF leaf, ahead
  <2>3. QED
    BY <2>1, <2>2, LeafAhead
<1>2. ASSUME NEW r \in AuditRule
      PROVE  now[r] = Combined(r, now, leaf) /\ expected[r] = Combined(r, expected, ahead)
  <2>1. now = [q \in AuditRule |-> Combined(q, now, leaf)]
    BY EvaluateUnfolds
  <2>2. expected = [q \in AuditRule |-> Combined(q, expected, ahead)]
    BY ExpectUnfolds
  <2> HIDE DEF now, leaf, expected, ahead
  <2>3. QED
    BY <2>1, <2>2, Zenon
<1>3. only \/ \A r \in R : r.kind # "NOT"
  OBVIOUS
<1>4. only \in BOOLEAN
  BY DEF Alone
<1> HIDE DEF now, leaf, expected, ahead, only
<1>5. ASSUME NEW r \in AuditRule, \A child \in Children(r) : child \in Good, r \in R PROVE Fine(r)
  <2> DEFINE answers  == {now[q] : q \in Children(r)}
             outlooks == {expected[q] : q \in Children(r)}
  <2>1. ASSUME NEW q \in Children(r) PROVE Fine(q)
    BY <1>5 DEF AboutOthers
  <2>2. /\ answers \subseteq Known3
        /\ (\A a \in answers : a = "SATISFIED") => \A a \in outlooks : a = "SATISFIED"
        /\ "SATISFIED" \in answers => "SATISFIED" \in outlooks
        /\ only /\ "UNSATISFIED" \in answers => "UNSATISFIED" \in outlooks
        /\ only /\ (\A a \in answers : a = "UNSATISFIED") => \A a \in outlooks : a = "UNSATISFIED"
    BY <2>1
  <2>3. CASE r.kind = "ALL"
    <3>1. now[r] = CombineAll(answers) /\ expected[r] = CombineAll(outlooks)
      BY <1>2, <2>3 DEF Combined, Children
    <3> HIDE DEF answers, outlooks
    <3>2. QED
      BY <2>2, <3>1 DEF CombineAll
  <2>4. CASE r.kind = "ANY"
    <3>1. now[r] = CombineAny(answers) /\ expected[r] = CombineAny(outlooks)
      BY <1>2, <2>4 DEF Combined, Children
    <3> HIDE DEF answers, outlooks
    <3>2. QED
      BY <2>2, <3>1 DEF CombineAny
  <2>5. CASE r.kind = "NOT"
    <3>1. now[r] = Negate(now[r.child]) /\ expected[r] = Negate(expected[r.child])
      BY <1>2, <2>5 DEF Combined
    <3>2. only /\ Fine(r.child)
      BY <1>3, <1>5, <2>1, <2>5 DEF Children
    <3>3. QED
      BY <3>1, <3>2 DEF Negate
  <2>6. CASE r.kind \notin {"ALL", "ANY", "NOT"}
    <3>1. now[r] = leaf[r] /\ expected[r] = ahead[r]
      BY <1>2, <2>6 DEF Combined
    <3>2. QED
      BY <1>1, <1>5, <2>6, <3>1
  <2>7. QED
    BY <2>3, <2>4, <2>5, <2>6
<1>6. AuditRule \subseteq Good
  <2>1. \A r \in AuditRule : (\A child \in Children(r) : child \in Good) => r \in Good
    BY <1>5
  <2> HIDE DEF Good
  <2>2. QED
    BY <2>1, RulesAreWellFounded
<1>7. ASSUME NEW rule \in R PROVE Fine(rule)
  BY <1>6
<1>8. \A rule : Evaluate(rule, f) = now[rule] /\ Expect(rule, items, t, history, total) = expected[rule]
  BY EvaluateUnfolds, ExpectUnfolds DEF now, expected
<1>9. QED
  BY <1>7, <1>8 DEF only

LEMMA RulesAboutOthers ==
  ASSUME NEW c
  PROVE  LET R == {r \in AuditRule : AboutCoursesOnly(r) /\ ~Names(r, c)}
         IN AboutOthers(R, c) /\ AboutOthers({r \in R : WithoutNot(r)}, c) /\ \A r \in R : WithoutNot(r) => r.kind # "NOT"
<1> DEFINE R == {r \in AuditRule : AboutCoursesOnly(r) /\ ~Names(r, c)}
<1>1. PICK only \in [AuditRule -> BOOLEAN] :
         /\ \A r \in AuditRule : only[r] = OnlyStep(r, only)
         /\ \A r : AboutCoursesOnly(r) = only[r]
  BY OnlyUnfolds
<1>2. ASSUME NEW r \in R, NEW child \in Children(r)
      PROVE  child \in R /\ (WithoutNot(r) => WithoutNot(child))
  <2>1. child \in AuditRule
    BY RulesAssumption
  <2>2. \A inner \in Parts(child) : \E part \in Parts(r) : part.rule = inner.rule
    BY PartsAreThere
  <2>3. (WithoutNot(r) => WithoutNot(child)) /\ ~Names(child, c)
    BY <2>2, Zenon DEF WithoutNot, Names
  <2>4. r.kind \in {"ALL", "ANY", "NOT"}
    BY DEF Children
  <2>5. OnlyStep(r, only)
    BY <1>1, Zenon
  <2>6. only[child]
    BY <2>4, <2>5, Zenon DEF OnlyStep
  <2>7. AboutCoursesOnly(child)
    BY <1>1, <2>6, Zenon
  <2>8. QED
    BY <2>1, <2>3, <2>7
<1>3. ASSUME NEW r \in R
      PROVE  /\ r.kind \in {"ALL", "ANY", "NOT"} \/ (r.kind \in CourseKinds /\ c \notin Named(r))
             /\ WithoutNot(r) => r.kind # "NOT"
  <2>1. PICK part \in Parts(r) : part.rule = r
    BY PartsAreThere
  <2>2. c \notin Named(r) /\ (WithoutNot(r) => r.kind # "NOT")
    BY <2>1, Zenon DEF Names, WithoutNot
  <2>3. OnlyStep(r, only)
    BY <1>1, Zenon
  <2>4. r.kind \notin {"ALL", "ANY", "NOT"} => r.kind \in CourseKinds
    BY <2>3, Zenon DEF OnlyStep
  <2>5. QED
    BY <2>2, <2>4
<1> HIDE DEF R
<1>4. AboutOthers(R, c)
  BY <1>2, <1>3 DEF AboutOthers
<1>5. AboutOthers({r \in R : WithoutNot(r)}, c)
  BY <1>2, <1>3 DEF AboutOthers
<1>6. QED
  BY <1>3, <1>4, <1>5 DEF R

\* The page and the planner judge the courses ahead alike.
LEMMA PlannerIsShown ==
  ASSUME TypeOK
  PROVE  AgreesWithPlanner
<1> DEFINE facts   == Facts(revision, student)
           history == History
           total   == revision.total
           byOwner == [d \in Courses |-> Requirements(d)]
<1>1. IsRevision(revision) /\ IsRecord(student)
  BY StudentIsSound
<1>2. SUFFICES ASSUME Recognized(student) = {}, NEW c \in Courses, NEW t \in DOMAIN study.calendar, NEW item,
                      item = [course |-> c, term |-> t, credits |-> revision.credits[c], meetings |-> {}]
               PROVE  PlannerAgrees(c, {r.rule : r \in Requirements(c)},
                                    PrerequisiteState(item, byOwner, plan \cup {item}, history, total),
                                    Eligibility(revision, student, c))
  BY DEF AgreesWithPlanner
<1> DEFINE items    == plan \cup {item}
           asks     == Requirements(c)
           asking   == {r \in byOwner[item.course] : r.verified /\ r.rule # None}
           state    == PrerequisiteState(item, byOwner, items, history, total)
           answer   == Eligibility(revision, student, c)
           statuses == {RequirementStatus(q, facts) : q \in {p \in revision.requirements : p.owner = c}}
           R        == {r \in AuditRule : AboutCoursesOnly(r) /\ ~Names(r, c)}
           Expected1(rule) == Expect(rule, items, item.term, history, total)
<1>3. SUFFICES ASSUME \A r \in asks : AboutCoursesOnly(r.rule) /\ ~Names(r.rule, c)
               PROVE  /\ answer = "ELIGIBLE" /\ (\A r \in asks : WithoutNot(r.rule)) => state # "UNSATISFIED"
                      /\ answer = "BLOCKED" /\ plan = {} /\ InProgress(student) = {} => state = "UNSATISFIED"
  BY DEF PlannerAgrees
<1>4. SameToday(facts, history)
  <2>1. Passed(student) = Selected(student)
    BY <1>2 DEF Passed
  <2>2. QED
    BY <2>1, FactsKnown DEF SameToday, History
<1>5. /\ answer = "BLOCKED" => "UNSATISFIED" \in statuses
      /\ answer = "ELIGIBLE" => statuses # {} /\ statuses \subseteq {"SATISFIED", "NOT_APPLICABLE"}
  BY <1>1, EligibilityMeans, Zenon
<1>6. \A r \in asks : r \in revision.requirements /\ r.owner = c /\ r.rule \in AuditRule /\ r.rule # None
  BY <1>1, RulesAssumption DEF IsRevision, Requirements
<1>7. asking = {r \in asks : r.verified}
  BY <1>2, <1>6
<1>8. state = IF asking = {} THEN "UNKNOWN" ELSE CombineAll({Expected1(r.rule) : r \in asking})
  BY Zenon DEF PrerequisiteState
<1>9. statuses = {RequirementStatus(q, facts) : q \in asks}
  BY DEF Requirements
<1>10. plan = {} /\ InProgress(student) = {} => Alone(items, history, c)
  BY <1>2 DEF Alone, History
<1>11. /\ AboutOthers(R, c) /\ AboutOthers({r \in R : WithoutNot(r)}, c)
       /\ \A r \in R : WithoutNot(r) => r.kind # "NOT"
  BY RulesAboutOthers
<1>12. \A r \in asks : r.rule \in R
  BY <1>3, <1>6
<1> HIDE DEF facts, history, total, state, asking, asks, statuses, R, items
<1>13. ASSUME NEW A \in SUBSET R, AboutOthers(A, c), Alone(items, history, c) \/ \A r \in A : r.kind # "NOT"
       PROVE  \A rule \in A :
                 /\ Evaluate(rule, facts) \in {"SATISFIED", "UNSATISFIED", "UNKNOWN"}
                 /\ Evaluate(rule, facts) = "SATISFIED" => Expected1(rule) = "SATISFIED"
                 /\ Alone(items, history, c) /\ Evaluate(rule, facts) = "UNSATISFIED" =>
                       Expected1(rule) = "UNSATISFIED"
  <2>1. A \in SUBSET AuditRule
    BY DEF R
  <2>2. QED
    BY <1>4, <1>13, <2>1, RulesAhead
<1> HIDE DEF Expected1
<1>14. ASSUME answer = "ELIGIBLE", \A r \in asks : WithoutNot(r.rule) PROVE state # "UNSATISFIED"
  <2> DEFINE A == {r \in R : WithoutNot(r)}
  <2>1. A \in SUBSET R /\ AboutOthers(A, c) /\ \A r \in A : r.kind # "NOT"
    BY <1>11
  <2>2. \A r \in asks : r.rule \in A
    BY <1>12, <1>14
  <2> HIDE DEF A
  <2>3. ASSUME NEW r \in asking PROVE Expected1(r.rule) = "SATISFIED"
    <3>1. r \in asks /\ r.verified
      BY <1>7
    <3>2. RequirementStatus(r, facts) \in {"SATISFIED", "NOT_APPLICABLE"}
      BY <1>5, <1>9, <1>14, <3>1
    <3>3. RequirementStatus(r, facts) = Evaluate(r.rule, facts)
      BY <3>1 DEF RequirementStatus
    <3>4. Evaluate(r.rule, facts) = "SATISFIED"
      BY <1>13, <2>1, <2>2, <3>1, <3>2, <3>3
    <3>5. QED
      BY <1>13, <2>1, <2>2, <3>1, <3>4
  <2>4. "UNSATISFIED" \notin {Expected1(r.rule) : r \in asking}
    BY <2>3
  <2>5. QED
    BY <1>8, <2>4 DEF CombineAll
<1>15. ASSUME answer = "BLOCKED", plan = {}, InProgress(student) = {} PROVE state = "UNSATISFIED"
  <2>1. PICK r \in asks : RequirementStatus(r, facts) = "UNSATISFIED"
    BY <1>5, <1>9, <1>15
  <2>2. r \in asking /\ Evaluate(r.rule, facts) = "UNSATISFIED"
    BY <1>7, <2>1 DEF RequirementStatus
  <2>3. Expected1(r.rule) = "UNSATISFIED"
    BY <1>10, <1>11, <1>12, <1>13, <1>15, <2>2
  <2>4. asking # {} /\ "UNSATISFIED" \in {Expected1(q.rule) : q \in asking}
    BY <2>2, <2>3
  <2>5. QED
    BY <1>8, <2>4 DEF CombineAll
<1>16. QED
  BY <1>14, <1>15

\* What holds of the empty set, and of a set if it holds without one of its elements,
\* holds of all subsets of a finite set.
LEMMA SubsetsInduct ==
  ASSUME NEW S, IsFiniteSet(S), NEW Good, {} \in Good,
         \A T \in SUBSET S : \A x \in T : T \ {x} \in Good => T \in Good
  PROVE  SUBSET S \subseteq Good
<1> DEFINE bad == {n \in Nat : \E T \in SUBSET S : Cardinality(T) = n /\ T \notin Good}
<1>1. \A T \in SUBSET S : IsFiniteSet(T) /\ Cardinality(T) \in Nat
  BY FS_Subset, FS_CardinalityType
<1>2. SUFFICES ASSUME bad # {} PROVE FALSE
  BY <1>1
<1>3. PICK n \in bad : \A m \in bad : n <= m
  BY <1>2, LeastExists
<1>4. PICK T \in SUBSET S : Cardinality(T) = n /\ T \notin Good
  BY <1>3
<1>5. PICK x \in T : TRUE
  BY <1>4
<1>6. T \ {x} \in SUBSET S /\ Cardinality(T \ {x}) = n - 1 /\ n - 1 \in Nat
  <2>1. Cardinality(T \ {x}) = n - 1
    BY <1>1, <1>4, <1>5, FS_RemoveElement
  <2>2. T \ {x} \in SUBSET S
    OBVIOUS
  <2>3. QED
    BY <1>1, <2>1, <2>2
<1>7. T \ {x} \in Good
  BY <1>3, <1>6
<1>8. QED
  BY <1>4, <1>7

\* Of two sums, one with larger terms is larger, and equal only if all terms are.
LEMMA SumsCompared ==
  ASSUME NEW S, IsFiniteSet(S), NEW v \in [S -> Nat], NEW w \in [S -> Nat], \A a \in S : v[a] <= w[a]
  PROVE  /\ Sums(v, S)[S] \in Nat /\ Sums(w, S)[S] \in Nat /\ Sums(v, S)[S] <= Sums(w, S)[S]
         /\ Sums(v, S)[S] = Sums(w, S)[S] <=> \A a \in S : v[a] = w[a]
<1> DEFINE less  == Sums(v, S)
           more  == Sums(w, S)
           Fine(T) == less[T] <= more[T] /\ (less[T] = more[T] <=> \A a \in T : v[a] = w[a])
           Good  == {T \in SUBSET S : Fine(T)}
<1>1. /\ less \in [SUBSET S -> Nat] /\ more \in [SUBSET S -> Nat]
      /\ less[{}] = 0 /\ more[{}] = 0
  BY SumsUnfold DEF TakenFrom
<1>2. ASSUME NEW T \in SUBSET S, NEW x \in T
      PROVE  less[T] = v[x] + less[T \ {x}] /\ more[T] = w[x] + more[T \ {x}]
  BY SumTakes
<1> HIDE DEF less, more
<1>3. {} \in Good
  BY <1>1
<1>4. ASSUME NEW T \in SUBSET S, NEW x \in T, T \ {x} \in Good PROVE T \in Good
  <2> DEFINE rest == T \ {x}
  <2>1. less[rest] \in Nat /\ more[rest] \in Nat /\ v[x] \in Nat /\ w[x] \in Nat /\ v[x] <= w[x]
    BY <1>1
  <2>2. less[rest] <= more[rest] /\ (less[rest] = more[rest] <=> \A a \in rest : v[a] = w[a])
    BY <1>4
  <2>3. less[T] = v[x] + less[rest] /\ more[T] = w[x] + more[rest]
    BY <1>2
  <2>4. (\A a \in T : v[a] = w[a]) <=> v[x] = w[x] /\ \A a \in rest : v[a] = w[a]
    OBVIOUS
  <2> HIDE DEF rest
  <2>5. Fine(T)
    BY <2>1, <2>2, <2>3, <2>4
  <2>6. QED
    BY <2>5
<1>5. SUBSET S \subseteq Good
  <2> HIDE DEF Good
  <2>1. QED
    BY <1>3, <1>4, SubsetsInduct
<1>6. Fine(S)
  BY <1>5
<1>7. less[S] \in Nat /\ more[S] \in Nat
  BY <1>1
<1>8. QED
  BY <1>6, <1>7 DEF less, more

\* A share in per cent is complete exactly if nothing is missing.
LEMMA Percents ==
  ASSUME NEW a \in Nat, NEW n \in Nat
  PROVE  /\ n > 0 => (a * 100) \div n \in Nat
         /\ n > 0 /\ a < n => (a * 100) \div n < 100
         /\ n > 0 /\ a >= n => (a * 100) \div n >= 100
<1> SUFFICES ASSUME n > 0
             PROVE  /\ (a * 100) \div n \in Nat
                    /\ a < n => (a * 100) \div n < 100
                    /\ a >= n => (a * 100) \div n >= 100
  OBVIOUS
<1> DEFINE q == (a * 100) \div n
<1>1. q \in Int /\ q * n <= a * 100 /\ a * 100 < (q + 1) * n
  OBVIOUS
<1> HIDE DEF q
<1>2. q >= 0
  BY <1>1
<1>3. a < n => q < 100
  BY <1>1
<1>4. a >= n => q >= 100
  BY <1>1
<1>5. QED
  BY <1>1, <1>2, <1>3, <1>4 DEF q

RequiredOfGroups(r) == [g \in Groups |-> r.groups[g].required]

RequiredTaken(r, T, sum) ==
    IF T = {} THEN 0 ELSE r.groups[CHOOSE a \in T : TRUE].required + sum[T \ {CHOOSE a \in T : TRUE}]

LEMMA RequiredSummed ==
  ASSUME NEW r
  PROVE  MapThenSumSet(LAMBDA g : r.groups[g].required, Groups) = Sums(RequiredOfGroups(r), Groups)[Groups]
<1> DEFINE v == RequiredOfGroups(r)
<1>1. MapThenSumSet(LAMBDA g : r.groups[g].required, Groups) =
         (CHOOSE f : f = [T \in SUBSET Groups |-> RequiredTaken(r, T, f)])[Groups]
  BY Zenon DEF MapThenSumSet, MapThenFoldSet, RequiredTaken
<1>2. ASSUME NEW f, NEW T \in SUBSET Groups PROVE TakenFrom(v, T, f) = RequiredTaken(r, T, f)
  <2>1. ASSUME T # {} PROVE v[CHOOSE a \in T : TRUE] = r.groups[CHOOSE a \in T : TRUE].required
    <3>1. (CHOOSE a \in T : TRUE) \in Groups
      BY <2>1
    <3>2. QED
      BY <3>1 DEF RequiredOfGroups
  <2> HIDE DEF v
  <2>2. QED
    BY <2>1 DEF TakenFrom, RequiredTaken
<1> HIDE DEF v
<1>3. \A f : [T \in SUBSET Groups |-> TakenFrom(v, T, f)] = [T \in SUBSET Groups |-> RequiredTaken(r, T, f)]
  BY <1>2
<1>4. Sums(v, Groups) = CHOOSE f : f = [T \in SUBSET Groups |-> RequiredTaken(r, T, f)]
  BY <1>3, Zenon DEF Sums
<1>5. QED
  BY <1>1, <1>4, Zenon DEF v

\* What an audit stores.
LEMMA PayloadMeans ==
  ASSUME NEW r, IsRevision(r), NEW s, IsRecord(s), NEW p, p = Payload(r, Facts(r, s))
  PROVE  /\ p.required = r.total
         /\ p.applied = Sums(GroupApplied(r, s), Groups)[Groups] /\ p.applied \in Nat
         /\ {a.about : a \in Lagging(p)} =
               {q \in r.requirements : RequirementStatus(q, Facts(r, s)) \notin Settled}
         /\ \A c : StatusesOf(p, c) =
               {RequirementStatus(q, Facts(r, s)) : q \in {o \in r.requirements : o.owner = c}}
<1> DEFINE facts == Facts(r, s)
<1>1. facts.group = GroupApplied(r, s) /\ GroupApplied(r, s) \in [Groups -> Nat]
  BY FactsKnown, AppliedIsNat DEF Ledgers
<1> HIDE DEF facts
<1>2. p.required = r.total /\ p.answers = {[about |-> q, status |-> RequirementStatus(q, facts)] : q \in r.requirements}
  BY Zenon DEF Payload, facts
<1>3. p.applied = MapThenSumSet(LAMBDA g : facts.group[g], Groups)
  BY Zenon DEF Payload, facts
<1>4. MapThenSumSet(LAMBDA g : facts.group[g], Groups) = Sums(facts.group, Groups)[Groups]
  BY Zenon DEF MapThenSumSet, MapThenFoldSet, Sums, TakenFrom
<1>5. Sums(facts.group, Groups)[Groups] \in Nat
  <2> DEFINE w == GroupApplied(r, s)
  <2>1. IsFiniteSet(Groups)
    BY NumbersAssumption, FS_Interval DEF Groups
  <2>2. w \in [Groups -> Nat]
    BY <1>1
  <2> HIDE DEF w
  <2>3. Sums(w, Groups) \in [SUBSET Groups -> Nat]
    BY <2>1, <2>2, SumsUnfold
  <2>4. Sums(w, Groups)[Groups] \in Nat
    BY <2>3
  <2>5. QED
    BY <1>1, <2>4 DEF w
<1>6. /\ \A q \in r.requirements : \E a \in p.answers : a.about = q /\ a.status = RequirementStatus(q, facts)
      /\ \A a \in p.answers : a.about \in r.requirements /\ a.status = RequirementStatus(a.about, facts)
  <2>1. ASSUME NEW q \in r.requirements
        PROVE  \E a \in p.answers : a.about = q /\ a.status = RequirementStatus(q, facts)
    <3> DEFINE a == [about |-> q, status |-> RequirementStatus(q, facts)]
    <3>1. a \in p.answers
      BY <1>2, Zenon
    <3>2. a.about = q /\ a.status = RequirementStatus(q, facts)
      OBVIOUS
    <3>3. QED
      BY <3>1, <3>2, Zenon
  <2>2. ASSUME NEW a \in p.answers PROVE a.about \in r.requirements /\ a.status = RequirementStatus(a.about, facts)
    <3>1. PICK q \in r.requirements : a = [about |-> q, status |-> RequirementStatus(q, facts)]
      BY <1>2, Zenon
    <3>2. a.about = q /\ a.status = RequirementStatus(q, facts)
      BY <3>1
    <3>3. QED
      BY <3>2
  <2>3. QED
    BY <2>1, <2>2
<1>7. {a.about : a \in Lagging(p)} = {q \in r.requirements : RequirementStatus(q, facts) \notin Settled}
  BY <1>6 DEF Lagging
<1>8. ASSUME NEW c
      PROVE  StatusesOf(p, c) = {RequirementStatus(q, facts) : q \in {o \in r.requirements : o.owner = c}}
  BY <1>6 DEF StatusesOf
<1>9. QED
  BY <1>1, <1>2, <1>3, <1>4, <1>5, <1>7, <1>8 DEF facts

\* A page is complete exactly if no group needs more.
LEMMA PageAddsUp ==
  ASSUME NEW r, IsRevision(r), NEW s, IsRecord(s), AddsUp(r), NEW page, page = Page(Payload(r, Facts(r, s)))
  PROVE  /\ page.percent = 100 <=> page.remaining = 0
         /\ page.remaining = 0 <=> \A g \in Groups : Facts(r, s).group[g] >= r.groups[g].required
<1> DEFINE p == Payload(r, Facts(r, s))
           v == GroupApplied(r, s)
           w == RequiredOfGroups(r)
<1>1. p.required = r.total /\ p.applied = Sums(v, Groups)[Groups] /\ p.applied \in Nat /\ r.total \in Nat
  BY PayloadMeans DEF IsRevision
<1>2. page.remaining = Max({0, p.required - p.applied}) /\ page.percent = Percent(p)
  BY DEF Page
<1>3. v \in [Groups -> Nat] /\ w \in [Groups -> Nat] /\ \A g \in Groups : v[g] <= w[g] /\ w[g] = r.groups[g].required
  BY AppliedIsNat DEF Ledgers, RequiredOfGroups
<1> HIDE DEF p, v, w
<1>4. IsFiniteSet(Groups)
  BY NumbersAssumption, FS_Interval DEF Groups
<1>5. /\ Sums(v, Groups)[Groups] <= Sums(w, Groups)[Groups]
      /\ Sums(v, Groups)[Groups] = Sums(w, Groups)[Groups] <=> \A g \in Groups : v[g] = w[g]
  BY <1>3, <1>4, SumsCompared
<1>6. r.total > 0 /\ r.total = Sums(w, Groups)[Groups]
  BY RequiredSummed DEF AddsUp, w
<1>7. p.applied <= p.required /\ (p.applied = p.required <=> \A g \in Groups : v[g] >= r.groups[g].required)
  BY <1>1, <1>3, <1>5, <1>6
<1>8. page.remaining = 0 <=> p.applied = p.required
  <2> DEFINE rest == p.required - p.applied
  <2>1. rest \in Int /\ (0 <= rest) /\ (rest = 0 <=> p.applied = p.required)
    BY <1>1, <1>7
  <2>2. page.remaining = Max({0, rest})
    BY <1>2
  <2> HIDE DEF rest
  <2>3. page.remaining = rest
    BY <2>1, <2>2, MaxOfTwo
  <2>4. QED
    BY <2>1, <2>3
<1> DEFINE q == (p.applied * 100) \div p.required
<1>9. q \in Nat /\ (q < 100 <=> p.applied < p.required)
  BY <1>1, <1>6, Percents
<1>10. page.percent = Min({100, q})
  BY <1>1, <1>2, <1>6 DEF Percent
<1> HIDE DEF q
<1>11. page.percent = IF 100 <= q THEN 100 ELSE q
  BY <1>9, <1>10, MinOfTwo
<1>12. page.percent = 100 <=> p.applied = p.required
  BY <1>1, <1>7, <1>9, <1>11
<1>13. QED
  BY <1>7, <1>8, <1>12, FactsKnown DEF v

\* The enrollment of the student among the classmates.
OwnEnrollment(audited) ==
    [revision |-> revision, published |-> TRUE, status |-> "ACTIVE", student |-> student,
     audited |-> audited, admission |-> 1, taken |-> {},
     scenarios |-> {[active |-> TRUE, items |-> {[course |-> i.course, term |-> i.term] : i \in plan}]}]

LEMMA ClassIsSound ==
  ASSUME TypeOK, study.classmates # None, NEW audited, audited = None \/ IsRecord(audited)
  PROVE  /\ Len(study.classmates) \in Nat
         /\ DOMAIN Class(audited) = 1..(Len(study.classmates) + 1)
         /\ Class(audited)[Len(study.classmates) + 1] = OwnEnrollment(audited)
         /\ \A i \in DOMAIN Class(audited) : IsEnrollment(Class(audited)[i])
<1> DEFINE mates == study.classmates
           last  == OwnEnrollment(audited)
           class == Class(audited)
<1>1. mates \in Seq(ToSet(mates)) /\ \A e \in ToSet(mates) : IsEnrollment(e)
  BY ClassmatesAssumption DEF TypeOK
<1>2. class = Append(mates, last)
  BY DEF Class, OwnEnrollment
<1>3. IsEnrollment(last)
  <2>1. IsRevision(revision) /\ IsRecord(student)
    BY StudentIsSound
  <2>2. /\ last.revision = revision /\ last.published = TRUE /\ last.student = student
        /\ last.audited = audited /\ last.admission = 1 /\ last.taken = {}
    BY DEF OwnEnrollment
  <2> HIDE DEF last
  <2>3. IsRevision(last.revision) /\ IsRecord(last.student) /\ (last.audited = None \/ IsRecord(last.audited))
    BY <2>1, <2>2, Zenon
  <2>4. last.published \in BOOLEAN
    BY <2>2, Zenon
  <2>5. last.admission \in Nat /\ last.taken \subseteq Nat /\ IsFiniteSet(last.taken)
    BY <2>2, FS_EmptySet
  <2>6. QED
    BY <2>3, <2>4, <2>5, Zenon DEF IsEnrollment
<1> HIDE DEF mates, last, class
<1>4. /\ Len(mates) \in Nat /\ DOMAIN class = 1..(Len(mates) + 1) /\ class[Len(mates) + 1] = last
      /\ \A i \in 1..Len(mates) : class[i] = mates[i] /\ mates[i] \in ToSet(mates)
  BY <1>1, <1>2
<1>5. \A i \in DOMAIN class : IsEnrollment(class[i])
  <2>1. ASSUME NEW i \in DOMAIN class PROVE IsEnrollment(class[i])
    <3>1. i \in 1..Len(mates) \/ i = Len(mates) + 1
      BY <1>4
    <3>2. QED
      BY <1>1, <1>3, <1>4, <3>1
  <2>2. QED
    BY <2>1
<1>6. QED
  BY <1>4, <1>5 DEF mates, last, class

\* A student's own page agrees with the audit.
LEMMA AuditIsShown ==
  ASSUME TypeOK
  PROVE  AgreesWithAudit
<1> DEFINE page  == StudentPage(Class(student)[Len(study.classmates) + 1])
           left  == RemainingRequirements(revision, student)
           facts == Facts(revision, student)
           p     == Payload(revision, facts)
<1>1. SUFFICES ASSUME study.classmates # None PROVE PageAgrees(page, left, facts)
  BY DEF AgreesWithAudit
<1>2. IsRevision(revision) /\ IsRecord(student) /\ student # None
  BY StudentIsSound, NoneAssumption DEF IsRecord
<1>3. page = Page(p)
  <2> DEFINE own == OwnEnrollment(student)
  <2>1. Class(student)[Len(study.classmates) + 1] = own
    BY <1>1, <1>2, ClassIsSound
  <2>2. own.audited = student /\ own.published = TRUE /\ own.status = "ACTIVE" /\ own.revision = revision
    BY DEF OwnEnrollment
  <2> HIDE DEF own
  <2>3. StudentPage(own) = Page(Payload(revision, Facts(revision, student)))
    BY <1>2, <2>2 DEF StudentPage
  <2>4. QED
    BY <2>1, <2>3
<1>4. /\ {a.about : a \in Lagging(p)} = {q \in revision.requirements : RequirementStatus(q, facts) \notin Settled}
      /\ \A c : StatusesOf(p, c) =
            {RequirementStatus(q, facts) : q \in {o \in revision.requirements : o.owner = c}}
  BY <1>2, PayloadMeans
<1>5. page.lagging = {q \in revision.requirements :
                         <<"requirement", q>> \in left /\ RequirementStatus(q, facts) # "NOT_APPLICABLE"}
  <2>1. page.lagging = {a.about : a \in Lagging(p)}
    BY <1>3 DEF Page
  <2>2. \A q \in revision.requirements : <<"requirement", q>> \in left <=> RequirementStatus(q, facts) # "SATISFIED"
    BY RequirementLeft
  <2> HIDE DEF page, left, facts, p
  <2>3. QED
    BY <1>4, <2>1, <2>2 DEF Settled
<1>6. AddsUp(revision) =>
         /\ page.percent = 100 <=> page.remaining = 0
         /\ page.remaining = 0 <=> \A g \in Groups : facts.group[g] >= revision.groups[g].required
  BY <1>2, <1>3, PageAddsUp
<1>7. ASSUME NEW c \in Courses, c \in DOMAIN page.critical PROVE Eligibility(revision, student, c) # "ELIGIBLE"
  <2>1. c \in Critical(p)
    BY <1>3, <1>7 DEF Page
  <2> DEFINE statuses == {RequirementStatus(q, facts) : q \in {o \in revision.requirements : o.owner = c}}
  <2>2. statuses \cap Blocking # {}
    BY <1>4, <2>1 DEF Critical
  <2>3. Eligibility(revision, student, c) = "ELIGIBLE" => statuses \subseteq {"SATISFIED", "NOT_APPLICABLE"}
    BY <1>2, EligibilityMeans, Zenon
  <2> HIDE DEF statuses
  <2>4. QED
    BY <2>2, <2>3 DEF Blocking
<1> HIDE DEF page, left, facts
<1>8. QED
  BY <1>5, <1>6, <1>7, Zenon DEF PageAgrees

LEMMA MaxBounds ==
  ASSUME NEW S \in SUBSET Nat, IsFiniteSet(S), S # {}
  PROVE  Max(S) \in S /\ \A m \in S : m <= Max(S)
<1>1. PICK n \in S : \A m \in S : m <= n
  BY GreatestExists
<1>2. \A m \in S : n >= m
  BY <1>1
<1>3. Max(S) \in S /\ \A m \in S : Max(S) >= m
  BY <1>2, Zenon DEF Max
<1>4. QED
  BY <1>3

\* All sums of some of the terms.
AddsUpTo(sum, w, S) ==
    /\ sum \in [SUBSET S -> Nat] /\ sum[{}] = 0
    /\ \A T \in SUBSET S : \A x \in T : sum[T] = w[x] + sum[T \ {x}]

LEMMA SumsAreNat ==
  ASSUME NEW S, IsFiniteSet(S), NEW w \in [S -> Nat]
  PROVE  AddsUpTo(Sums(w, S), w, S)
<1>1. Sums(w, S) \in [SUBSET S -> Nat] /\ Sums(w, S)[{}] = 0
  BY SumsUnfold DEF TakenFrom
<1>2. ASSUME NEW T \in SUBSET S, NEW x \in T PROVE Sums(w, S)[T] = w[x] + Sums(w, S)[T \ {x}]
  BY SumTakes
<1>3. QED
  BY <1>1, <1>2 DEF AddsUpTo

\* A sum over a part is that of the part alone.
LEMMA SumsWithin ==
  ASSUME NEW S, IsFiniteSet(S), NEW w \in [S -> Nat], NEW A \in SUBSET S, NEW v \in [A -> Nat],
         \A a \in A : v[a] = w[a]
  PROVE  Sums(v, A)[A] = Sums(w, S)[A]
<1> DEFINE inner == Sums(v, A)
           outer == Sums(w, S)
           Good  == {T \in SUBSET A : inner[T] = outer[T]}
<1>1. IsFiniteSet(A)
  BY FS_Subset
<1>2. AddsUpTo(inner, v, A)
  BY <1>1, SumsAreNat, Zenon
<1>3. AddsUpTo(outer, w, S)
  BY SumsAreNat, Zenon
<1> HIDE DEF inner, outer
<1> USE DEF AddsUpTo
<1>4. {} \in Good
  BY <1>2, <1>3
<1>5. ASSUME NEW T \in SUBSET A, NEW x \in T, T \ {x} \in Good PROVE T \in Good
  <2>1. inner[T] = v[x] + inner[T \ {x}] /\ outer[T] = w[x] + outer[T \ {x}]
    BY <1>2, <1>3
  <2>2. v[x] = w[x] /\ inner[T \ {x}] = outer[T \ {x}]
    BY <1>5
  <2>3. QED
    BY <2>1, <2>2
<1>6. SUBSET A \subseteq Good
  <2> HIDE DEF Good
  <2>1. QED
    BY <1>1, <1>4, <1>5, SubsetsInduct
<1>7. QED
  BY <1>6 DEF inner, outer

\* A sum is that of a part and that of the rest.
LEMMA SumsSplit ==
  ASSUME NEW S, IsFiniteSet(S), NEW w \in [S -> Nat], NEW U \in SUBSET S
  PROVE  Sums(w, S)[S] = Sums(w, S)[U] + Sums(w, S)[S \ U]
<1> DEFINE sum  == Sums(w, S)
           Good == {T \in SUBSET S : sum[T] = sum[T \cap U] + sum[T \ U]}
<1>1. /\ sum \in [SUBSET S -> Nat] /\ sum[{}] = 0
      /\ \A T \in SUBSET S : \A x \in T : sum[T] = w[x] + sum[T \ {x}]
  <2>1. AddsUpTo(sum, w, S)
    BY SumsAreNat, Zenon
  <2> HIDE DEF sum
  <2>2. QED
    BY <2>1 DEF AddsUpTo
<1> HIDE DEF sum
<1>2. {} \in Good
  BY <1>1
<1>3. ASSUME NEW T \in SUBSET S, NEW x \in T, T \ {x} \in Good PROVE T \in Good
  <2> DEFINE rest == T \ {x}
             a == sum[rest \cap U]
             b == sum[rest \ U]
  <2>1. w[x] \in Nat /\ a \in Nat /\ b \in Nat
    BY <1>1
  <2>2. sum[T] = w[x] + sum[rest] /\ sum[rest] = a + b
    BY <1>1, <1>3
  <2>3. CASE x \in U
    <3>1. T \cap U \in SUBSET S /\ x \in T \cap U /\ (T \cap U) \ {x} = rest \cap U /\ T \ U = rest \ U
      BY <2>3
    <3>2. sum[T \cap U] = w[x] + sum[(T \cap U) \ {x}]
      BY <1>1, <3>1
    <3>3. sum[T \cap U] = w[x] + a /\ sum[T \ U] = b
      BY <3>1, <3>2
    <3> HIDE DEF a, b, rest
    <3>4. QED
      BY <2>1, <2>2, <3>3
  <2>4. CASE x \notin U
    <3>1. T \ U \in SUBSET S /\ x \in T \ U /\ (T \ U) \ {x} = rest \ U /\ T \cap U = rest \cap U
      BY <2>4
    <3>2. sum[T \ U] = w[x] + sum[(T \ U) \ {x}]
      BY <1>1, <3>1
    <3>3. sum[T \ U] = w[x] + b /\ sum[T \cap U] = a
      BY <3>1, <3>2
    <3> HIDE DEF a, b, rest
    <3>4. QED
      BY <2>1, <2>2, <3>3
  <2>5. QED
    BY <2>3, <2>4
<1>4. SUBSET S \subseteq Good
  <2> HIDE DEF Good
  <2>1. QED
    BY <1>2, <1>3, SubsetsInduct
<1>5. S \cap U = U /\ S \in Good
  BY <1>4
<1>6. sum[S] = sum[U] + sum[S \ U]
  BY <1>5
<1>7. QED
  BY <1>6 DEF sum

\* Terms of at most k add up to at most k times as many as there are.
LEMMA SumsBounded ==
  ASSUME NEW S, IsFiniteSet(S), NEW w \in [S -> Nat], NEW U \in SUBSET S, NEW k \in Nat,
         \A a \in U : w[a] <= k
  PROVE  Sums(w, S)[U] <= Cardinality(U) * k
<1> DEFINE sum  == Sums(w, S)
           Good == {T \in SUBSET U : sum[T] <= Cardinality(T) * k}
<1>1. /\ sum \in [SUBSET S -> Nat] /\ sum[{}] = 0
      /\ \A T \in SUBSET S : \A x \in T : sum[T] = w[x] + sum[T \ {x}]
  BY SumsAreNat DEF AddsUpTo
<1>2. \A T \in SUBSET U : IsFiniteSet(T) /\ Cardinality(T) \in Nat
  BY FS_Subset, FS_CardinalityType
<1> HIDE DEF sum
<1>3. {} \in Good
  BY <1>1, FS_EmptySet
<1>4. ASSUME NEW T \in SUBSET U, NEW x \in T, T \ {x} \in Good PROVE T \in Good
  <2> DEFINE rest == T \ {x}
  <2>1. Cardinality(rest) = Cardinality(T) - 1
    BY <1>2, FS_RemoveElement
  <2>2. sum[T] = w[x] + sum[rest] /\ sum[rest] <= Cardinality(rest) * k
    BY <1>1, <1>4
  <2>3. Cardinality(T) \in Nat /\ w[x] \in Nat /\ w[x] <= k /\ sum[rest] \in Nat
    BY <1>1, <1>2
  <2> DEFINE n == Cardinality(T)
             y == sum[rest]
             z == w[x]
  <2>4. n \in Nat /\ y \in Nat /\ z \in Nat /\ z <= k /\ y <= (n - 1) * k
    BY <2>1, <2>2, <2>3
  <2>5. sum[T] = z + y
    BY <2>2
  <2> HIDE DEF n, y, z, rest
  <2>6. (n - 1) * k = n * k - k
    BY <2>4
  <2>7. z + y <= n * k
    BY <2>4, <2>6
  <2>8. QED
    BY <2>5, <2>7 DEF n
<1>5. SUBSET U \subseteq Good
  <2>1. IsFiniteSet(U)
    BY FS_Subset
  <2> HIDE DEF Good
  <2>2. QED
    BY <1>3, <1>4, <2>1, SubsetsInduct
<1>6. sum[U] <= Cardinality(U) * k
  BY <1>5
<1>7. QED
  BY <1>6 DEF sum

\* Sets apart from each other have together as many elements as they have one by one.
LEMMA CountsAddUp ==
  ASSUME NEW B, IsFiniteSet(B), NEW D, IsFiniteSet(D), NEW sets \in [B -> SUBSET D],
         \A a \in B : \A b \in B : sets[a] \cap sets[b] # {} => a = b,
         \A x : x \in D <=> \E b \in B : x \in sets[b],
         NEW w \in [B -> Nat], \A b \in B : w[b] = Cardinality(sets[b])
  PROVE  Sums(w, B)[B] = Cardinality(D)
<1> DEFINE sum == Sums(w, B)
           All(T) == UNION {sets[b] : b \in T}
           Good == {T \in SUBSET B : sum[T] = Cardinality(All(T))}
<1>1. \A X \in SUBSET D : IsFiniteSet(X) /\ Cardinality(X) \in Nat
  BY FS_Subset, FS_CardinalityType
<1>2. All(B) = D
  OBVIOUS
<1>3. /\ sum[{}] = 0
      /\ \A T \in SUBSET B : \A x \in T : sum[T] = w[x] + sum[T \ {x}]
  <2>1. AddsUpTo(sum, w, B)
    BY SumsAreNat, Zenon
  <2> HIDE DEF sum
  <2>2. QED
    BY <2>1 DEF AddsUpTo
<1> HIDE DEF sum
<1>4. {} \in Good
  <2>1. All({}) = {}
    OBVIOUS
  <2>2. QED
    BY <1>3, <2>1, FS_EmptySet
<1>5. ASSUME NEW T \in SUBSET B, NEW x \in T, T \ {x} \in Good PROVE T \in Good
  <2> DEFINE rest == All(T \ {x})
  <2>1. All(T) = sets[x] \cup rest /\ sets[x] \in SUBSET D /\ rest \in SUBSET D
    OBVIOUS
  <2>2. sets[x] \cap rest = {}
    OBVIOUS
  <2>3. sum[T] = Cardinality(sets[x]) + Cardinality(rest)
    <3>1. sum[T] = w[x] + sum[T \ {x}] /\ w[x] = Cardinality(sets[x])
      BY <1>3
    <3>2. sum[T \ {x}] = Cardinality(rest)
      BY <1>5
    <3>3. QED
      BY <3>1, <3>2
  <2> HIDE DEF rest
  <2>4. Cardinality(sets[x] \cup rest) = Cardinality(sets[x]) + Cardinality(rest)
    <3>1. Cardinality(sets[x] \cup rest) = Cardinality(sets[x]) + Cardinality(rest) - Cardinality(sets[x] \cap rest)
      BY <1>1, <2>1, FS_Union
    <3>2. Cardinality(sets[x] \cap rest) = 0
      BY <2>2, FS_EmptySet
    <3>3. QED
      BY <1>1, <2>1, <3>1, <3>2
  <2>5. QED
    BY <2>1, <2>3, <2>4
<1>6. SUBSET B \subseteq Good
  <2> HIDE DEF Good
  <2>1. QED
    BY <1>4, <1>5, SubsetsInduct
<1>7. sum[B] = Cardinality(All(B))
  BY <1>6
<1>8. QED
  BY <1>2, <1>7 DEF sum

\* Enrollments in a row.
IsClass(class) ==
    /\ \E n \in Nat : DOMAIN class = 1..n
    /\ \A i \in DOMAIN class : IsEnrollment(class[i])

\* Those that were audited.
Audited(class) == {j \in Enrolled(class) : class[j].audited # None}

LEMMA ClassIsFinite ==
  ASSUME NEW class, IsClass(class)
  PROVE  \A S \in SUBSET (DOMAIN class) : IsFiniteSet(S) /\ Cardinality(S) \in Nat /\ Cardinality(S) # None
<1>1. IsFiniteSet(DOMAIN class)
  BY FS_Interval DEF IsClass
<1>2. QED
  BY <1>1, FS_Subset, FS_CardinalityType, NoneAssumption

LEMMA FewerAreLess ==
  ASSUME NEW class, IsClass(class), NEW T \in SUBSET (DOMAIN class), NEW S \in SUBSET T
  PROVE  Cardinality(S) <= Cardinality(T)
BY ClassIsFinite, FS_Subset

\* What the last audits of the enrollments say.
LEMMA SnapshotMeans ==
  ASSUME NEW class, IsClass(class)
  PROVE  /\ DOMAIN Snapshots(class) = Audited(class)
         /\ Audited(class) \subseteq Enrolled(class) /\ Enrolled(class) \subseteq DOMAIN class
         /\ \A i \in Audited(class) :
               /\ IsRevision(class[i].revision) /\ IsRecord(class[i].audited)
               /\ Snapshots(class)[i] = Payload(class[i].revision, Facts(class[i].revision, class[i].audited))
<1>1. DOMAIN Snapshots(class) = Audited(class)
  BY DEF Snapshots, Audited
<1>2. Audited(class) \subseteq Enrolled(class) /\ Enrolled(class) \subseteq DOMAIN class
  BY DEF Audited, Enrolled
<1>3. ASSUME NEW i \in Audited(class)
      PROVE  /\ IsRevision(class[i].revision) /\ IsRecord(class[i].audited)
             /\ Snapshots(class)[i] = Payload(class[i].revision, Facts(class[i].revision, class[i].audited))
  <2>1. IsEnrollment(class[i]) /\ class[i].audited # None
    BY <1>2 DEF IsClass, Audited
  <2>2. Snapshots(class)[i] = Payload(class[i].revision, Facts(class[i].revision, class[i].audited))
    BY DEF Snapshots, Audited
  <2>3. QED
    BY <2>1, <2>2 DEF IsEnrollment
<1>4. QED
  BY <1>1, <1>2, <1>3

\* The students counted as able to take a course.
CouldTake(class, c) == {i \in Audited(class) : c \in Eligible(Snapshots(class)[i], Selected(class[i].student))}

\* The students who plan it.
WouldTake(class, term, k) ==
    {i \in Enrolled(class) :
        term \in {None, k[1]} /\ [course |-> k[2], term |-> k[1]] \in ActiveItems(class[i])}

\* Those who could take a course in the term that is asked for.
CouldTakeIn(class, term, k) == {i \in CouldTake(class, k[2]) : k[1] = term}

LEMMA DemandMeans ==
  ASSUME NEW class, IsClass(class), NEW term, NEW minimum,
         NEW demand, demand = Demand(class, Snapshots(class), term, minimum)
  PROVE  /\ \A k \in DOMAIN demand :
               /\ demand[k].planned   = Cell(Cardinality(WouldTake(class, term, k)), minimum)
               /\ demand[k].eligible  = Cell(Cardinality(CouldTakeIn(class, term, k)), minimum)
               /\ demand[k].potential =
                     Cell(Cardinality(WouldTake(class, term, k) \cup CouldTakeIn(class, term, k)), minimum)
         /\ \A c \in Courses : <<term, c>> \notin DOMAIN demand => CouldTake(class, c) = {}
<1> DEFINE Wanting(k) == {i \in Enrolled(class) :
                             term \in {None, k[1]} /\ [course |-> k[2], term |-> k[1]] \in ActiveItems(class[i])}
           Possible(k) == {i \in DOMAIN Snapshots(class) :
                             k[1] = term /\ k[2] \in Eligible(Snapshots(class)[i], Selected(class[i].student))}
           terms == {term} \cup UNION {{p.term : p \in ActiveItems(class[i])} : i \in Enrolled(class)}
           keys == {l \in terms \X Courses : Wanting(l) \cup Possible(l) # {}}
<1>1. demand = [k \in keys |->
                   [planned   |-> Cell(Cardinality(Wanting(k)), minimum),
                    eligible  |-> Cell(Cardinality(Possible(k)), minimum),
                    potential |-> Cell(Cardinality(Wanting(k) \cup Possible(k)), minimum)]]
  BY Zenon DEF Demand
<1>2. \A k : Wanting(k) = WouldTake(class, term, k)
  BY Zenon DEF WouldTake
<1>3. \A k : Possible(k) = CouldTakeIn(class, term, k)
  BY SnapshotMeans DEF CouldTakeIn, CouldTake
<1>4. ASSUME NEW c \in Courses, <<term, c>> \notin keys PROVE CouldTake(class, c) = {}
  <2>1. <<term, c>> \in terms \X Courses
    OBVIOUS
  <2>2. Possible(<<term, c>>) = {}
    BY <1>4, <2>1
  <2>3. CouldTakeIn(class, term, <<term, c>>) = CouldTake(class, c)
    BY DEF CouldTakeIn, CouldTake
  <2>4. QED
    BY <1>3, <2>2, <2>3
<1> HIDE DEF Wanting, Possible, keys
<1>5. DOMAIN demand = keys
  BY <1>1
<1>6. ASSUME NEW k \in DOMAIN demand
      PROVE  /\ demand[k].planned   = Cell(Cardinality(Wanting(k)), minimum)
             /\ demand[k].eligible  = Cell(Cardinality(Possible(k)), minimum)
             /\ demand[k].potential = Cell(Cardinality(Wanting(k) \cup Possible(k)), minimum)
  BY <1>1, <1>5
<1>7. QED
  BY <1>2, <1>3, <1>4, <1>5, <1>6

\* Who plans or could take a course is counted once.
LEMMA DemandCountsOnce ==
  ASSUME NEW class, IsClass(class), NEW P \in SUBSET (DOMAIN class), NEW Q \in SUBSET (DOMAIN class),
         NEW minimum \in Nat, NEW d,
         d.planned = Cell(Cardinality(P), minimum), d.eligible = Cell(Cardinality(Q), minimum),
         d.potential = Cell(Cardinality(P \cup Q), minimum)
  PROVE  CountsOnce(d)
<1> DEFINE p == Cardinality(P)
           q == Cardinality(Q)
           u == Cardinality(P \cup Q)
<1>1. /\ p \in Nat /\ q \in Nat /\ u \in Nat /\ p # None /\ q # None /\ u # None
      /\ Cardinality(P \cap Q) \in Nat
  BY ClassIsFinite
<1>2. p <= u /\ q <= u
  BY FewerAreLess
<1>3. u <= p + q
  <2>1. Cardinality(P \cup Q) = Cardinality(P) + Cardinality(Q) - Cardinality(P \cap Q)
    BY ClassIsFinite, FS_Union
  <2>2. QED
    BY <1>1, <2>1
<1>4. /\ d.planned = IF p < minimum THEN None ELSE p
      /\ d.eligible = IF q < minimum THEN None ELSE q
      /\ d.potential = IF u < minimum THEN None ELSE u
  BY DEF Cell
<1> HIDE DEF p, q, u
<1>5. CASE u < minimum
  BY <1>1, <1>2, <1>4, <1>5 DEF CountsOnce
<1>6. CASE ~(u < minimum)
  <2>1. d.potential = u
    BY <1>4, <1>6
  <2>2. /\ Known(d.planned) \in Nat /\ Known(d.planned) <= u
        /\ Known(d.eligible) \in Nat /\ Known(d.eligible) <= u
    BY <1>1, <1>2, <1>4 DEF Known
  <2>3. u >= Max({Known(d.planned), Known(d.eligible)})
    BY <1>1, <2>2, MaxOfTwo
  <2>4. None \notin {d.planned, d.eligible} => u <= d.planned + d.eligible
    BY <1>3, <1>4
  <2>5. QED
    BY <1>1, <2>1, <2>3, <2>4 DEF CountsOnce
<1>7. QED
  BY <1>5, <1>6

\* Students counted as able to take a course have not passed it; with fresh audits they
\* are those whose page calls it eligible, or in progress.
LEMMA CountedCould ==
  ASSUME NEW class, IsClass(class), NEW c \in Courses, NEW minimum \in Nat \ {0}, NEW counted,
         counted = IF Cardinality(CouldTake(class, c)) < minimum THEN 0 ELSE Cardinality(CouldTake(class, c))
  PROVE  CountsWhoCould(class, c, counted, minimum)
<1> DEFINE could == CouldTake(class, c)
           free  == {i \in DOMAIN class : c \notin Selected(class[i].student)}
           shown(answers) == {i \in DOMAIN class : /\ class[i].published /\ class[i].audited # None
                                                   /\ Eligibility(class[i].revision, class[i].student, c) \in answers}
           may   == {"ELIGIBLE"}
           might == {"ELIGIBLE", "IN_PROGRESS"}
<1>1. Audited(class) \subseteq DOMAIN class
  BY SnapshotMeans
<1>2. could \in SUBSET (DOMAIN class) /\ could \in SUBSET free /\ free \in SUBSET (DOMAIN class)
  BY <1>1 DEF CouldTake, Eligible
<1>3. ASSUME Fresh(class, c), NEW i \in DOMAIN class
      PROVE  (i \in shown(may) => i \in could) /\ (i \in could => i \in shown(might))
  <2> DEFINE e == class[i]
             statuses == {RequirementStatus(q, Facts(e.revision, e.student)) :
                             q \in {o \in e.revision.requirements : o.owner = c}}
             answer == Eligibility(e.revision, e.student, c)
  <2>1. IsRevision(e.revision) /\ IsRecord(e.student)
    BY DEF IsClass, IsEnrollment
  <2>2. /\ answer = "IN_PROGRESS" <=> c \notin Selected(e.student) /\ c \in InProgress(e.student)
        /\ answer = "ELIGIBLE" <=> /\ c \notin Selected(e.student) \cup InProgress(e.student)
                                   /\ statuses # {} /\ statuses \subseteq {"SATISFIED", "NOT_APPLICABLE"}
    BY <2>1, EligibilityMeans, Zenon
  <2>3. e.audited \in {None, e.student} \/ c \in Selected(e.student)
    BY <1>3 DEF Fresh
  <2>4. ASSUME i \in Audited(class), c \notin Selected(e.student)
        PROVE  c \in Eligible(Snapshots(class)[i], Selected(e.student))
                  <=> statuses # {} /\ statuses \subseteq {"SATISFIED", "NOT_APPLICABLE"}
    <3>1. e.audited = e.student
      BY <2>3, <2>4 DEF Audited
    <3>2. Snapshots(class)[i] = Payload(e.revision, Facts(e.revision, e.student))
      BY <2>4, <3>1, SnapshotMeans
    <3>3. StatusesOf(Snapshots(class)[i], c) = statuses
      BY <2>1, <3>2, PayloadMeans
    <3> HIDE DEF statuses
    <3>4. QED
      BY <2>4, <3>3 DEF Eligible, Settled
  <2>5. i \in Audited(class) <=> e.published /\ e.audited # None
    BY DEF Audited, Enrolled
  <2> HIDE DEF statuses, answer
  <2>6. i \in shown(may) => i \in could
    BY <2>2, <2>4, <2>5 DEF CouldTake, answer
  <2>7. i \in could => i \in Audited(class) /\ c \notin Selected(e.student)
                       /\ c \in Eligible(Snapshots(class)[i], Selected(e.student))
    BY DEF CouldTake, Eligible
  <2>8. i \in could => answer \in might
    BY <2>2, <2>4, <2>7
  <2>9. i \in could => i \in shown(might)
    BY <2>5, <2>7, <2>8 DEF answer
  <2>10. QED
    BY <2>6, <2>9
<1>4. shown(may) \in SUBSET (DOMAIN class) /\ shown(might) \in SUBSET (DOMAIN class)
  OBVIOUS
<1>5. /\ Showing(class, c, may) = Cardinality(shown(may))
      /\ Showing(class, c, might) = Cardinality(shown(might))
  BY Zenon DEF Showing
<1> HIDE DEF could, free, shown
<1>6. Cardinality(could) \in Nat /\ Cardinality(free) \in Nat
      /\ Cardinality(shown(may)) \in Nat /\ Cardinality(shown(might)) \in Nat
  BY <1>2, <1>4, ClassIsFinite
<1>7. Cardinality(could) <= Cardinality(free)
  BY <1>2, FewerAreLess
<1>8. Fresh(class, c) => /\ Cardinality(shown(may)) <= Cardinality(could)
                         /\ Cardinality(could) <= Cardinality(shown(might))
  <2>1. SUFFICES ASSUME Fresh(class, c)
                 PROVE  /\ Cardinality(shown(may)) <= Cardinality(could)
                        /\ Cardinality(could) <= Cardinality(shown(might))
    OBVIOUS
  <2>2. shown(may) \in SUBSET could /\ could \in SUBSET shown(might)
    BY <1>2, <1>3, <1>4, <2>1
  <2>3. QED
    BY <1>2, <1>4, <2>2, FewerAreLess
<1>9. counted = IF Cardinality(could) < minimum THEN 0 ELSE Cardinality(could)
  BY DEF could
<1>10. counted <= Cardinality(free)
  BY <1>6, <1>7, <1>9
<1>11. Fresh(class, c) /\ counted # 0 =>
          Cardinality(shown(may)) <= counted /\ counted <= Cardinality(shown(might))
  BY <1>6, <1>8, <1>9
<1>12. Fresh(class, c) /\ counted = 0 => Cardinality(shown(may)) < minimum
  BY <1>6, <1>8, <1>9
<1>13. QED
  BY <1>5, <1>10, <1>11, <1>12, Zenon DEF CountsWhoCould, free

\* A time to the degree has the terms the student was there in, and no more than there are.
LEMMA TermsCounted ==
  ASSUME NEW class, IsClass(class), NEW completed \in SUBSET (DOMAIN class), NEW i \in completed
  PROVE  CountsTerms(class[i], Duration(class, completed, i))
<1> DEFINE e     == class[i]
           seen  == UNION {{class[j].admission} \cup class[j].taken : j \in completed}
           first == e.admission
           last  == Max(e.taken)
           terms == {t \in seen : first <= t /\ t <= last}
           own   == {first} \cup {t \in e.taken : t >= first}
           duration == Duration(class, completed, i)
<1>1. first \in Nat /\ e.taken \in SUBSET Nat /\ IsFiniteSet(e.taken)
  BY DEF IsClass, IsEnrollment
<1>2. seen \in SUBSET Nat
  BY DEF IsClass, IsEnrollment
<1>3. {first} \cup e.taken \subseteq seen
  OBVIOUS
<1>4. duration = IF e.taken = {} \/ last < first THEN None ELSE Cardinality(terms)
  BY Zenon DEF Duration
<1>5. SUFFICES ASSUME duration # None
               PROVE  duration >= Cardinality(own) /\ duration <= last - first + 1
  BY Zenon DEF CountsTerms
<1>6. e.taken # {} /\ ~(last < first) /\ duration = Cardinality(terms)
  BY <1>4, <1>5
<1>7. last \in Nat /\ \A m \in e.taken : m <= last
  BY <1>1, <1>6, MaxBounds
<1> HIDE DEF e, seen, first, last, duration
<1>8. terms \in SUBSET (first..last)
  <2>1. ASSUME NEW t \in seen, first <= t, t <= last PROVE t \in first..last
    <3>1. first \in Int /\ last \in Int /\ t \in Int
      BY <1>1, <1>2, <1>7
    <3>2. QED
      BY <2>1, <3>1
  <2>2. QED
    BY <2>1, Zenon
<1>9. own \in SUBSET terms
  <2>1. first \in terms
    BY <1>1, <1>3, <1>6, <1>7
  <2>2. ASSUME NEW t \in e.taken, t >= first PROVE t \in terms
    <3>1. t \in seen /\ t \in Nat /\ t <= last
      BY <1>1, <1>3, <1>7
    <3>2. QED
      BY <1>1, <2>2, <3>1
  <2>3. QED
    BY <2>1, <2>2
<1> DEFINE years == first..last
<1>10. IsFiniteSet(years) /\ Cardinality(years) = last - first + 1
  <2>1. first \in Int /\ last \in Int
    BY <1>1, <1>7
  <2>2. IsFiniteSet(years) /\ Cardinality(years) = IF first > last THEN 0 ELSE last - first + 1
    BY <2>1, FS_Interval, Zenon
  <2> HIDE DEF years
  <2>3. QED
    BY <1>1, <1>6, <1>7, <2>2
<1> HIDE DEF terms, own, years
<1>11. IsFiniteSet(terms) /\ Cardinality(terms) <= Cardinality(years)
  BY <1>8, <1>10, FS_Subset DEF years
<1>12. Cardinality(own) <= Cardinality(terms) /\ Cardinality(terms) \in Nat /\ Cardinality(own) \in Nat
  BY <1>9, <1>11, FS_Subset, FS_CardinalityType
<1>13. QED
  BY <1>6, <1>10, <1>11, <1>12

\* Those whose progress is in a bucket.
InBucket(class, b) == {i \in Audited(class) : Percent(Snapshots(class)[i]) \in b[1]..b[2]}

LEMMA OneBucketEach ==
  /\ \A p \in 0..100 : \E b \in Buckets : p \in b[1]..b[2]
  /\ \A p \in Int : \A a \in Buckets : \A b \in Buckets : p \in a[1]..a[2] /\ p \in b[1]..b[2] => a = b
<1>1. ASSUME NEW p \in 0..100 PROVE \E b \in Buckets : p \in b[1]..b[2]
  BY DEF Buckets
<1>2. ASSUME NEW p \in Int, NEW a \in Buckets, NEW b \in Buckets, p \in a[1]..a[2], p \in b[1]..b[2]
      PROVE  a = b
  BY <1>2 DEF Buckets
<1>3. QED
  BY <1>1, <1>2

LEMMA PercentInRange ==
  ASSUME NEW r, IsRevision(r), NEW s, IsRecord(s)
  PROVE  Percent(Payload(r, Facts(r, s))) \in 0..100
<1> DEFINE p == Payload(r, Facts(r, s))
           q == (p.applied * 100) \div p.required
<1>1. p.required \in Nat /\ p.applied \in Nat
  BY PayloadMeans DEF IsRevision
<1>2. CASE p.required <= 0
  BY <1>2 DEF Percent
<1>3. CASE ~(p.required <= 0)
  <2>1. Percent(p) = Min({100, q})
    BY <1>3 DEF Percent
  <2> HIDE DEF p
  <2>2. q \in Nat
    BY <1>1, <1>3, Percents
  <2> HIDE DEF q
  <2>3. Percent(p) = IF 100 <= q THEN 100 ELSE q
    BY <2>1, <2>2, MinOfTwo
  <2>4. QED
    BY <2>2, <2>3 DEF p
<1>4. QED
  BY <1>2, <1>3

LEMMA ValuesSummed ==
  ASSUME NEW A, NEW d, NEW v, \A b \in A : v[b] = d[b]
  PROVE  Sums(d, A) = Sums(v, A)
<1>1. ASSUME NEW f, NEW T \in SUBSET A PROVE TakenFrom(v, T, f) = TakenFrom(d, T, f)
  <2>1. ASSUME T # {} PROVE v[CHOOSE a \in T : TRUE] = d[CHOOSE a \in T : TRUE]
    <3>1. (CHOOSE a \in T : TRUE) \in A
      BY <2>1
    <3>2. QED
      BY <3>1
  <2>2. QED
    BY <2>1 DEF TakenFrom
<1>2. \A f : [T \in SUBSET A |-> TakenFrom(v, T, f)] = [T \in SUBSET A |-> TakenFrom(d, T, f)]
  BY <1>1
<1>3. QED
  BY <1>2, Zenon DEF Sums

LEMMA FiveAreFinite ==
  ASSUME NEW a, NEW b, NEW c, NEW d, NEW e
  PROVE  IsFiniteSet({a, b, c, d, e})
<1>1. IsFiniteSet({a})
  BY FS_Singleton
<1>2. IsFiniteSet({a} \cup {b})
  BY <1>1, FS_AddElement
<1>3. IsFiniteSet(({a} \cup {b}) \cup {c})
  BY <1>2, FS_AddElement
<1>4. IsFiniteSet((({a} \cup {b}) \cup {c}) \cup {d})
  BY <1>3, FS_AddElement
<1>5. IsFiniteSet(((({a} \cup {b}) \cup {c}) \cup {d}) \cup {e})
  BY <1>4, FS_AddElement
<1>6. ((({a} \cup {b}) \cup {c}) \cup {d}) \cup {e} = {a, b, c, d, e}
  OBVIOUS
<1>7. QED
  BY <1>5, <1>6

\* The students in the buckets that are not hidden.
ShownIn(shares, hidden) == MapThenSumSet(LAMBDA b : shares[b], Buckets \ hidden)

\* Each student audited is in one bucket, shown or hidden.
LEMMA BucketsAddUp ==
  ASSUME NEW class, IsClass(class), NEW minimum \in Nat \ {0},
         NEW shares, shares = Distribution(Snapshots(class), minimum),
         NEW hidden, hidden = {b \in Buckets : shares[b] = None}
  PROVE  Cardinality(Audited(class)) - ShownIn(shares, hidden) \in 0..(Cardinality(hidden) * (minimum - 1))
<1> DEFINE D    == Audited(class)
           sets == [b \in Buckets |-> InBucket(class, b)]
           w    == [b \in Buckets |-> Cardinality(sets[b])]
           kept == Buckets \ hidden
           sum  == Sums(w, Buckets)
           k    == minimum - 1
<1>1. D \in SUBSET (DOMAIN class)
  BY SnapshotMeans
<1>2. IsFiniteSet(D) /\ Cardinality(D) \in Nat /\ \A b \in Buckets : Cardinality(sets[b]) \in Nat \ {None}
  BY <1>1, ClassIsFinite DEF InBucket
<1>3. shares = [b \in Buckets |-> Cell(Cardinality(sets[b]), minimum)]
  <2>1. DOMAIN Snapshots(class) = D
    BY SnapshotMeans
  <2>2. shares = [b \in Buckets |->
                    Cell(Cardinality({i \in D : Percent(Snapshots(class)[i]) \in b[1]..b[2]}), minimum)]
    BY <2>1, Zenon DEF Distribution
  <2>3. QED
    BY <2>2 DEF InBucket
<1>4. \A i \in D : Percent(Snapshots(class)[i]) \in 0..100
  BY SnapshotMeans, PercentInRange
<1>5. sets \in [Buckets -> SUBSET D]
  BY DEF InBucket
<1>6. \A a \in Buckets : \A b \in Buckets : sets[a] \cap sets[b] # {} => a = b
  <2>1. ASSUME NEW a \in Buckets, NEW b \in Buckets, NEW i \in D, i \in sets[a], i \in sets[b] PROVE a = b
    <3> DEFINE p == Percent(Snapshots(class)[i])
    <3>1. p \in Int /\ p \in a[1]..a[2] /\ p \in b[1]..b[2]
      BY <1>4, <2>1 DEF InBucket
    <3> HIDE DEF p
    <3>2. QED
      BY <3>1, OneBucketEach
  <2>2. QED
    BY <1>5, <2>1
<1>7. UNION {sets[b] : b \in Buckets} = D
  <2>1. ASSUME NEW i \in D PROVE \E b \in Buckets : i \in sets[b]
    <3>1. PICK b \in Buckets : Percent(Snapshots(class)[i]) \in b[1]..b[2]
      BY <1>4, OneBucketEach
    <3>2. QED
      BY <3>1 DEF InBucket
  <2> HIDE DEF D, sets
  <2>2. QED
    BY <1>5, <2>1
<1>8. IsFiniteSet(Buckets)
  BY FiveAreFinite, Zenon DEF Buckets
<1> HIDE DEF D, sets
<1>9. w \in [Buckets -> Nat] /\ sum[Buckets] = Cardinality(D)
  <2>0. w = [b \in Buckets |-> Cardinality(sets[b])]
    OBVIOUS
  <2> HIDE DEF w
  <2>1. \A b \in Buckets : w[b] = Cardinality(sets[b])
    BY <2>0
  <2>2. \A x : x \in D <=> \E b \in Buckets : x \in sets[b]
    BY <1>7
  <2>3. QED
    BY <2>0, <2>1, <2>2, <1>2, <1>5, <1>6, <1>8, CountsAddUp
<1>10. \A b \in Buckets : shares[b] = IF w[b] < minimum THEN None ELSE w[b]
  BY <1>3 DEF Cell
<1>11. \A b \in Buckets : w[b] # None
  BY <1>2
<1> HIDE DEF w, sum
<1>12. /\ \A b \in kept : shares[b] = w[b]
       /\ \A b \in hidden : w[b] <= k
  BY <1>9, <1>10, <1>11
<1> DEFINE shown == MapThenSumSet(LAMBDA b : shares[b], Buckets \ hidden)
           v == [b \in kept |-> shares[b]]
<1>13. shown = Sums(v, kept)[kept]
  <2>1. shown = (CHOOSE f : f = [T \in SUBSET kept |-> TakenFrom(shares, T, f)])[kept]
    BY Zenon DEF MapThenSumSet, MapThenFoldSet, TakenFrom
  <2>2. \A b \in kept : v[b] = shares[b]
    OBVIOUS
  <2> HIDE DEF shown, kept, v
  <2>3. Sums(shares, kept) = Sums(v, kept)
    BY <2>2, ValuesSummed
  <2>4. QED
    BY <2>1, <2>3, Zenon DEF Sums
<1>14. v \in [kept -> Nat] /\ kept \in SUBSET Buckets /\ \A b \in kept : v[b] = w[b]
  BY <1>9, <1>12
<1>15. hidden \in SUBSET Buckets /\ Buckets \ kept = hidden /\ k \in Nat
  OBVIOUS
<1> HIDE DEF shown, kept, v, k
<1>16. shown = sum[kept]
  BY <1>8, <1>9, <1>13, <1>14, SumsWithin DEF sum
<1>17. sum \in [SUBSET Buckets -> Nat]
  BY <1>8, <1>9, SumsUnfold DEF sum
<1>18. sum[Buckets] = sum[kept] + sum[hidden]
  BY <1>8, <1>9, <1>14, <1>15, SumsSplit DEF sum
<1>19. sum[hidden] <= Cardinality(hidden) * k
  BY <1>8, <1>9, <1>12, <1>15, SumsBounded DEF sum
<1>20. Cardinality(hidden) \in Nat
  BY <1>8, <1>15, FS_Subset, FS_CardinalityType
<1> DEFINE most == Cardinality(hidden) * k
<1>21. most \in Nat
  BY <1>15, <1>20
<1>22. Cardinality(D) - shown = sum[hidden] /\ sum[hidden] \in Nat
  BY <1>9, <1>14, <1>15, <1>16, <1>17, <1>18
<1>23. sum[hidden] <= most
  BY <1>19
<1> HIDE DEF most
<1>24. Cardinality(D) - shown \in 0..most
  BY <1>21, <1>22, <1>23
<1>25. QED
  BY <1>24 DEF D, shown, most, k, ShownIn

\* The numbers of a report are those that the enrollments add up to.
LEMMA ReportTellsTheTruth ==
  ASSUME NEW class, IsClass(class), NEW term, NEW minimum \in Nat \ {0},
         NEW report, report = InstitutionReport(class, Snapshots(class), term, minimum)
  PROVE  ReportAgrees(class, term, minimum, report)
<1>1. SUFFICES ASSUME report # None PROVE ReportAgrees(class, term, minimum, report)
  BY Zenon DEF ReportAgrees
<1>2. /\ report.audited = Cardinality(Audited(class))
      /\ report.distribution = Distribution(Snapshots(class), minimum)
      /\ report.demand = Demand(class, Snapshots(class), term, minimum)
  BY <1>1, SnapshotMeans DEF InstitutionReport
<1> DEFINE demand == report.demand
           Count(c) == IF <<term, c>> \in DOMAIN demand THEN Known(demand[<<term, c>>].eligible) ELSE 0
<1>3. /\ \A k \in DOMAIN demand :
            /\ demand[k].planned   = Cell(Cardinality(WouldTake(class, term, k)), minimum)
            /\ demand[k].eligible  = Cell(Cardinality(CouldTakeIn(class, term, k)), minimum)
            /\ demand[k].potential =
                  Cell(Cardinality(WouldTake(class, term, k) \cup CouldTakeIn(class, term, k)), minimum)
      /\ \A c \in Courses : <<term, c>> \notin DOMAIN demand => CouldTake(class, c) = {}
  BY <1>2, DemandMeans
<1>4. \A c \in Courses : CouldTake(class, c) \in SUBSET (DOMAIN class)
  BY SnapshotMeans DEF CouldTake
<1>5. ASSUME NEW c \in Courses
      PROVE  CountsWhoCould(class, c, Count(c), minimum)
  <2> DEFINE n == Cardinality(CouldTake(class, c))
             counted == Count(c)
  <2>1. n \in Nat /\ n # None
    BY <1>4, ClassIsFinite
  <2>2. counted = IF n < minimum THEN 0 ELSE n
    <3>1. CASE <<term, c>> \in DOMAIN demand
      <4>1. CouldTakeIn(class, term, <<term, c>>) = CouldTake(class, c)
        BY DEF CouldTakeIn
      <4>2. demand[<<term, c>>].eligible = Cell(n, minimum)
        BY <1>3, <3>1, <4>1
      <4> HIDE DEF n
      <4>3. QED
        BY <2>1, <3>1, <4>2 DEF Known, Cell
    <3>2. CASE <<term, c>> \notin DOMAIN demand
      <4>1. n = 0
        BY <1>3, <3>2, FS_EmptySet
      <4> HIDE DEF n
      <4>2. QED
        BY <3>2, <4>1
    <3>3. QED
      BY <3>1, <3>2
  <2> HIDE DEF counted
  <2>3. CountsWhoCould(class, c, counted, minimum)
    BY <2>2, CountedCould
  <2>4. QED
    BY <2>3 DEF counted
<1>6. ASSUME NEW key \in DOMAIN demand PROVE CountsOnce(demand[key])
  <2> DEFINE would == WouldTake(class, term, key)
             could == CouldTakeIn(class, term, key)
             d     == demand[key]
  <2>1. would \in SUBSET (DOMAIN class) /\ could \in SUBSET (DOMAIN class)
    BY SnapshotMeans DEF WouldTake, CouldTakeIn, CouldTake
  <2>2. /\ d.planned = Cell(Cardinality(would), minimum) /\ d.eligible = Cell(Cardinality(could), minimum)
        /\ d.potential = Cell(Cardinality(would \cup could), minimum)
    BY <1>3
  <2> HIDE DEF would, could, d
  <2>3. CountsOnce(d)
    BY <2>1, <2>2, DemandCountsOnce
  <2>4. QED
    BY <2>3 DEF d
<1> DEFINE hidden == {b \in Buckets : report.distribution[b] = None}
           shown  == MapThenSumSet(LAMBDA b : report.distribution[b], Buckets \ hidden)
<1>7. report.audited - shown \in 0..(Cardinality(hidden) * (minimum - 1))
  <2> DEFINE shares == report.distribution
  <2>1. shares = Distribution(Snapshots(class), minimum)
    BY <1>2
  <2>2. Cardinality(Audited(class)) - ShownIn(shares, hidden) \in 0..(Cardinality(hidden) * (minimum - 1))
    BY <2>1, BucketsAddUp
  <2>3. shown = ShownIn(shares, hidden)
    BY Zenon DEF ShownIn
  <2> HIDE DEF shown, hidden, shares
  <2>4. QED
    BY <1>2, <2>2, <2>3, Zenon
<1> DEFINE completed == {j \in Enrolled(class) : class[j].status = "COMPLETED"}
<1>8. ASSUME NEW i \in Enrolled(class), class[i].status = "COMPLETED"
      PROVE  CountsTerms(class[i], Duration(class, completed, i))
  <2>1. completed \in SUBSET (DOMAIN class) /\ i \in completed
    BY <1>8, SnapshotMeans
  <2> HIDE DEF completed
  <2>2. QED
    BY <2>1, TermsCounted
<1> HIDE DEF Count, hidden, shown, completed
<1>9. \A c \in Courses : CountsWhoCould(class, c, Count(c), minimum)
  BY <1>5
<1>10. \A key \in DOMAIN report.demand : CountsOnce(report.demand[key])
  BY <1>6
<1>11. \A i \in Enrolled(class) : class[i].status = "COMPLETED" => CountsTerms(class[i], Duration(class, completed, i))
  BY <1>8
<1>12. QED
  BY <1>7, <1>9, <1>10, <1>11, Zenon DEF ReportAgrees, Count, hidden, shown, completed

\* The numbers of analytics are those that the page of each student adds up to.
LEMMA AnalyticsAreShown ==
  ASSUME TypeOK
  PROVE  AgreesWithAnalytics
<1>1. SUFFICES ASSUME study.classmates # None,
                      NEW audited \in {NewStudent, student}, NEW term \in {None} \cup DOMAIN study.calendar,
                      NEW class \in {Class(audited)}, NEW minimum \in {MinimumCell(1, None)}
               PROVE  ReportAgrees(class, term, minimum, InstitutionReport(class, Snapshots(class), term, minimum))
  BY Zenon DEF AgreesWithAnalytics
<1>2. IsRecord(audited)
  <2>1. NewStudent \in Records /\ IsFiniteSet(NewStudent.attempts)
    BY FS_EmptySet DEF NewStudent, Records
  <2>2. IsRecord(student)
    BY StudentIsSound
  <2>3. QED
    BY <2>1, <2>2 DEF IsRecord
<1>3. IsClass(class)
  <2>1. /\ Len(study.classmates) \in Nat
        /\ DOMAIN Class(audited) = 1..(Len(study.classmates) + 1)
        /\ \A i \in DOMAIN Class(audited) : IsEnrollment(Class(audited)[i])
    BY <1>1, <1>2, ClassIsSound
  <2>2. class = Class(audited)
    OBVIOUS
  <2>3. QED
    BY <2>1, <2>2 DEF IsClass
<1>4. minimum = 2
  <2>1. {2, 1, Known(None)} = {0, 1, 2}
    BY DEF Known
  <2>2. {0, 1, 2} \in SUBSET Nat /\ IsFiniteSet({0, 1, 2}) /\ {0, 1, 2} # {}
    <3>1. IsFiniteSet({0, 1, 2, 2, 2})
      BY FiveAreFinite, Zenon
    <3>2. {0, 1, 2, 2, 2} = {0, 1, 2}
      OBVIOUS
    <3>3. QED
      BY <3>1, <3>2
  <2>3. Max({0, 1, 2}) \in {0, 1, 2} /\ \A m \in {0, 1, 2} : m <= Max({0, 1, 2})
    BY <2>2, MaxBounds, Zenon
  <2>4. minimum = Max({0, 1, 2})
    BY <2>1, Zenon DEF MinimumCell
  <2>5. QED
    BY <2>3, <2>4
<1>5. QED
  BY <1>3, <1>4, ReportTellsTheTruth

\* Whatever an overview, a page of analytics or a report of the institution shows is
\* what the planner and the audit would answer for the same record.
THEOREM PagesAreTrue == Spec => []PagesTellTheTruth
<1>1. ASSUME TypeOK PROVE PagesTellTheTruth
  BY <1>1, PlannerIsShown, VerdictIsShown, AnalyticsAreShown, AuditIsShown DEF PagesTellTheTruth
<1>2. QED
  BY <1>1, TypeCorrect, PTL
=============================================================================
