--------------------- MODULE StudentAdministration_proofs ---------------------
(***************************************************************************)
(* Proofs about StudentAdministration and the AssignmentPolicies below it, *)
(* for every number of enrollments, policies, records, authorizations,     *)
(* people, contexts and dates.                                             *)
(*                                                                         *)
(* That at most one policy decides follows from a fact about the rows      *)
(* alone (NoContradiction).  A submission keeps it, for what it checked is *)
(* still so when it commits (ChecksHold): another row of the scope can     *)
(* only have been submitted by somebody who held the advisory lock.        *)
(*                                                                         *)
(* Seen from the policies, a request that enrolls only takes and leaves    *)
(* the lock of a scope (StepIsPolicyStep), so all that is proved of the    *)
(* policies holds here.  Whoever holds a scope can rely on the answer the  *)
(* resolver gave (ScopeHeld), and the rows a request writes from are those *)
(* their decisions explain.                                                *)
(***************************************************************************)
EXTENDS StudentAdministration, FiniteSetTheorems, TLAPS

-----------------------------------------------------------------------------
(* Policies.                                                               *)

\* A transaction has its policy to itself, in the status it found it in.
LocksKept ==
    \A a \in Admins : review[a].step # "idle" =>
        /\ review[a].op \in {"submit", "publish"}
        /\ review[a].policy \in Policies
        /\ policies[review[a].policy].status = IF review[a].op = "submit" THEN "DRAFT" ELSE "IN_REVIEW"
        /\ \A b \in Admins : review[b].step # "idle" /\ review[b].policy = review[a].policy => b = a

\* One that made its checks holds the scope, and they still hold.
ChecksHold ==
    \A a \in Admins : review[a].step = "checked" =>
        /\ holder[policies[review[a].policy].content.context] = a
        /\ revisions[policies[review[a].policy].content.revision] \in {"PUBLISHED", "SUPERSEDED"}
        /\ review[a].op = "submit" => NoOverlap(review[a].policy)

\* Rows that claim a scope overlap only if one replaces the other.
NoContradiction ==
    \A p, q \in Policies :
        /\ p # q /\ Standing(p) /\ Standing(q)
        /\ Overlap(policies[p].content, policies[q].content)
        => policies[p].content.supersedes = q \/ policies[q].content.supersedes = p

PolicyInv == PolicyTypeOK /\ LocksKept /\ ChecksHold /\ NoContradiction

-----------------------------------------------------------------------------
(* The overlap check covers the resolver.                                  *)

LEMMA OverlapSymmetric ==
  ASSUME NEW c, NEW o
  PROVE  Overlap(c, o) => Overlap(o, c)
BY DEF Overlap, Agree

LEMMA OverlapInContext ==
  ASSUME NEW c, NEW o, Overlap(c, o)
  PROVE  c.context = o.context
BY DEF Overlap

\* An applicable policy has begun and has not ended.
LEMMA AppliesInInterval ==
  ASSUME NEW c \in Content, NEW v \in Inputs, Applies(c, v)
  PROVE  Start(c) <= v.date /\ v.date < End(c) /\ Start(c) \in Nat /\ End(c) \in Nat
<1> USE PolicyAssumption DEF Dates
<1>1. v.date \in Nat /\ v.date < MaxDate
  BY DEF Inputs
<1>2. /\ Known(c.admission_from, 0) \in Nat /\ Known(c.admission_from, 0) <= v.date
      /\ Known(c.effective_from, 0) \in Nat /\ Known(c.effective_from, 0) <= v.date
  BY <1>1 DEF Known, Applies, Content
<1>3. /\ Known(c.admission_to, MaxDate) \in Nat /\ v.date < Known(c.admission_to, MaxDate)
      /\ Known(c.effective_to, MaxDate) \in Nat /\ v.date < Known(c.effective_to, MaxDate)
  BY <1>1 DEF Known, Applies, Content
<1>4. QED
  BY <1>2, <1>3 DEF Start, End

LEMMA ApplicableOverlap ==
  ASSUME NEW c \in Content, NEW o \in Content, NEW v \in Inputs, Applies(c, v), Applies(o, v)
  PROVE  Overlap(c, o)
<1>1. Start(c) < End(o) /\ Start(o) < End(c)
  <2>1. v.date \in Nat
    BY PolicyAssumption DEF Inputs
  <2>2. QED
    BY <2>1, AppliesInInterval
<1>2. c.context = o.context /\ Agree(c.cohort, o.cohort) /\ Agree(c.previous_plan, o.previous_plan)
  BY DEF Applies, Agree
<1>3. QED
  BY <1>1, <1>2 DEF Overlap

LEMMA NoContradictionDecides ==
  ASSUME PolicyTypeOK, NoContradiction
  PROVE  OnePolicyDecides
<1> SUFFICES ASSUME NEW v \in Inputs, NEW p \in Deciding(v), NEW q \in Deciding(v), p # q
             PROVE  FALSE
  BY DEF OnePolicyDecides
<1>1. /\ p \in Policies /\ q \in Policies /\ p \in Applicable(v) /\ q \in Applicable(v)
      /\ policies[q].content.supersedes # p /\ policies[p].content.supersedes # q
  BY DEF Deciding, Effective, Applicable
<1>2. /\ policies[p].status = "PUBLISHED" /\ Applies(policies[p].content, v)
      /\ policies[q].status = "PUBLISHED" /\ Applies(policies[q].content, v)
  BY <1>1 DEF Applicable
<1>3. policies[p].content \in Content /\ policies[q].content \in Content
  BY <1>1, <1>2, PolicyAssumption DEF PolicyTypeOK
<1>4. Overlap(policies[p].content, policies[q].content)
  BY <1>2, <1>3, ApplicableOverlap
<1>5. Standing(p) /\ Standing(q)
  BY <1>2 DEF Standing
<1>6. QED
  BY <1>1, <1>4, <1>5 DEF NoContradiction

-----------------------------------------------------------------------------
(* Every step keeps the invariant.                                         *)

LEMMA PolicyInvInit == PolicyInit => PolicyInv
<1> SUFFICES ASSUME PolicyInit PROVE PolicyInv
  OBVIOUS
<1>1. PolicyTypeOK
  BY PolicyAssumption DEF PolicyInit, PolicyTypeOK, NoRow, Idle
<1>2. LocksKept /\ ChecksHold
  BY DEF PolicyInit, LocksKept, ChecksHold, Idle
<1>3. NoContradiction
  BY DEF PolicyInit, NoContradiction, Standing, NoRow
<1>4. QED
  BY <1>1, <1>2, <1>3 DEF PolicyInv

\* A draft may be written: nobody has it in a transaction, and it claims nothing.
LEMMA DraftWritten ==
  ASSUME PolicyInv, NEW p \in Policies,
         policies[p].status \in {"NONE", "DRAFT"}, policies'[p].status = "DRAFT",
         \A a \in Admins : review[a].step # "idle" => review[a].policy # p,
         \A q \in Policies : q # p => policies'[q] = policies[q],
         revisions' = revisions, holder' = holder, review' = review, PolicyTypeOK'
  PROVE  PolicyInv'
<1> USE DEF PolicyInv, PolicyTypeOK
<1>1. \A q \in Policies : Standing(q)' <=> Standing(q)
  BY DEF Standing
<1>2. \A q \in Policies : q # p => policies'[q] = policies[q]
  OBVIOUS
<1>3. ~Standing(p) /\ ~Standing(p)'
  BY <1>1 DEF Standing
<1>4. LocksKept'
  BY <1>2 DEF LocksKept
<1>5. ChecksHold'
  <2> SUFFICES ASSUME NEW a \in Admins, review[a].step = "checked"
               PROVE  /\ holder[policies'[review[a].policy].content.context] = a
                      /\ revisions[policies'[review[a].policy].content.revision] \in {"PUBLISHED", "SUPERSEDED"}
                      /\ review[a].op = "submit" => NoOverlap(review[a].policy)'
    BY DEF ChecksHold
  <2>1. review[a].policy \in Policies /\ review[a].policy # p
    BY DEF LocksKept
  <2>2. policies'[review[a].policy] = policies[review[a].policy]
    BY <1>2, <2>1
  <2>3. ASSUME NoOverlap(review[a].policy) PROVE NoOverlap(review[a].policy)'
    BY <1>1, <1>2, <1>3, <2>1, <2>2, <2>3 DEF NoOverlap
  <2>4. QED
    BY <2>2, <2>3 DEF ChecksHold
<1>6. NoContradiction'
  BY <1>1, <1>2, <1>3 DEF NoContradiction
<1>7. QED
  BY <1>4, <1>5, <1>6

LEMMA PrepareKeeps ==
  ASSUME PolicyInv, NEW a \in Admins, NEW p \in Policies, NEW c \in Contents, Prepare(a, p, c)
  PROVE  PolicyInv'
<1>1. PolicyTypeOK'
  BY DEF PolicyInv, PolicyTypeOK, Prepare
<1>2. \A b \in Admins : review[b].step # "idle" => review[b].policy # p
  BY DEF PolicyInv, PolicyTypeOK, Prepare
<1>3. /\ policies[p].status \in {"NONE", "DRAFT"} /\ policies'[p].status = "DRAFT"
      /\ \A q \in Policies : q # p => policies'[q] = policies[q]
      /\ revisions' = revisions /\ holder' = holder /\ review' = review
  BY DEF PolicyInv, PolicyTypeOK, Prepare
<1>4. QED
  BY <1>1, <1>2, <1>3, DraftWritten

LEMMA EditKeeps ==
  ASSUME PolicyInv, NEW p \in Policies, NEW c \in Contents, Edit(p, c)
  PROVE  PolicyInv'
<1>1. PolicyTypeOK'
  BY DEF PolicyInv, PolicyTypeOK, Edit
<1>2. \A b \in Admins : review[b].step # "idle" => review[b].policy # p
  BY DEF Edit, RowLocked
<1>3. /\ policies[p].status \in {"NONE", "DRAFT"} /\ policies'[p].status = "DRAFT"
      /\ \A q \in Policies : q # p => policies'[q] = policies[q]
      /\ revisions' = revisions /\ holder' = holder /\ review' = review
  BY DEF PolicyInv, PolicyTypeOK, Edit
<1>4. QED
  BY <1>1, <1>2, <1>3, DraftWritten

\* As long as the rows stay, what is left to show is about locks.
LEMMA RowsStay ==
  ASSUME PolicyInv, UNCHANGED policies
  PROVE  NoContradiction' /\ \A p \in Policies : NoOverlap(p)' <=> NoOverlap(p)
BY DEF PolicyInv, NoContradiction, NoOverlap, Standing

LEMMA LockPolicyKeeps ==
  ASSUME PolicyInv, NEW a \in Admins, NEW op \in {"submit", "publish"}, NEW p \in Policies,
         LockPolicy(a, op, p)
  PROVE  PolicyInv'
<1> USE DEF PolicyInv
<1>1. /\ policies' = policies /\ revisions' = revisions /\ holder' = holder
      /\ review' = [review EXCEPT ![a] = [step |-> "locked", op |-> op, policy |-> p]]
      /\ policies[p].status = IF op = "submit" THEN "DRAFT" ELSE "IN_REVIEW"
      /\ \A b \in Admins : review[b].step # "idle" => review[b].policy # p
  BY DEF LockPolicy, MaySubmit, MayPublish, RowLocked
<1>2. PolicyTypeOK'
  BY <1>1 DEF PolicyTypeOK
<1>3. LocksKept'
  <2>1. review'[a] = [step |-> "locked", op |-> op, policy |-> p]
    BY <1>1 DEF PolicyTypeOK
  <2>2. \A b \in Admins \ {a} : review'[b] = review[b]
    BY <1>1 DEF PolicyTypeOK
  <2>3. QED
    BY <1>1, <2>1, <2>2 DEF LocksKept
<1>4. ChecksHold'
  <2>1. \A b \in Admins : review'[b].step = "checked" => review'[b] = review[b]
    BY <1>1 DEF PolicyTypeOK
  <2>2. QED
    BY SMT, <1>1, <2>1, RowsStay DEF ChecksHold, LocksKept
<1>5. QED
  BY <1>1, <1>2, <1>3, <1>4, RowsStay

LEMMA CheckKeeps ==
  ASSUME PolicyInv, NEW a \in Admins, Check(a)
  PROVE  PolicyInv'
<1> DEFINE p == review[a].policy
           x == policies[p].content.context
<1> USE DEF PolicyInv
<1>1. /\ policies' = policies /\ revisions' = revisions
      /\ review[a].step = "locked" /\ holder[x] = None
  BY DEF Check, ScopeFree
<1>2. p \in Policies /\ policies[p].content \in Contents /\ x \in Contexts
  BY <1>1, PolicyAssumption DEF PolicyTypeOK, LocksKept, Content
<1>3. CASE Passes(a)
  <2>1. /\ holder' = [holder EXCEPT ![x] = a]
        /\ review' = [review EXCEPT ![a].step = "checked"]
    BY <1>3 DEF Check
  <2>2. /\ NoOverlap(p)
        /\ revisions[policies[p].content.revision] \in {"PUBLISHED", "SUPERSEDED"}
    BY <1>3 DEF Passes, Publishable
  <2>3. /\ review'[a].step = "checked" /\ review'[a].op = review[a].op
        /\ review'[a].policy = p /\ holder'[x] = a
        /\ \A b \in Admins \ {a} : review'[b] = review[b]
    BY <1>2, <2>1 DEF PolicyTypeOK
  <2>4. PolicyTypeOK'
    BY ZenonT(60), <1>1, <2>1 DEF PolicyTypeOK
  <2>5. LocksKept'
    BY <1>1, <2>3 DEF LocksKept
  <2>6. \A b \in Admins \ {a} : review[b].step = "checked" =>
            /\ review[b].policy \in Policies
            /\ holder'[policies[review[b].policy].content.context] = b
    <3> SUFFICES ASSUME NEW b \in Admins \ {a}, review[b].step = "checked"
                 PROVE  /\ review[b].policy \in Policies
                        /\ holder'[policies[review[b].policy].content.context] = b
      OBVIOUS
    <3>1. holder[policies[review[b].policy].content.context] = b
      BY DEF ChecksHold
    <3>2. /\ review[b].policy \in Policies
          /\ policies[review[b].policy].content.context \in Contexts
      BY PolicyAssumption DEF PolicyTypeOK, LocksKept, Content
    <3>3. b # None
      BY PolicyAssumption
    <3>4. QED
      BY <1>1, <2>1, <3>1, <3>2, <3>3 DEF PolicyTypeOK
  <2>7. ChecksHold'
    BY SMTT(60), <1>1, <1>2, <2>2, <2>3, <2>6, RowsStay DEF ChecksHold
  <2>8. QED
    BY <1>1, <2>4, <2>5, <2>7, RowsStay
<1>4. CASE ~Passes(a)
  <2>1. review' = [review EXCEPT ![a] = Idle] /\ holder' = holder
    BY <1>4 DEF Check
  <2>2. review'[a] = Idle /\ \A b \in Admins \ {a} : review'[b] = review[b]
    BY <2>1 DEF PolicyTypeOK
  <2>3. PolicyTypeOK'
    BY <1>1, <2>1 DEF PolicyTypeOK, Idle
  <2>4. LocksKept'
    BY <1>1, <2>2 DEF LocksKept, Idle
  <2>5. ChecksHold'
    BY SMTT(60), <1>1, <2>1, <2>2, RowsStay DEF ChecksHold, LocksKept, Idle
  <2>6. QED
    BY <1>1, <2>3, <2>4, <2>5, RowsStay
<1>5. QED
  BY <1>3, <1>4

\* Ending a transaction frees what it held and nothing else.
LEMMA FreeScopeSpares ==
  ASSUME PolicyTypeOK, NEW a \in Admins
  PROVE  /\ FreeScope(a) \in [Contexts -> Admins \cup {None}]
         /\ \A x \in Contexts, b \in Admins : b # a /\ holder[x] = b => FreeScope(a)[x] = b
BY DEF FreeScope, PolicyTypeOK

LEMMA CommitKeeps ==
  ASSUME PolicyInv, NEW a \in Admins, Commit(a)
  PROVE  PolicyInv'
<1> USE DEF PolicyInv
<1>0. PICK p \in Policies : p = review[a].policy
  BY DEF Commit, LocksKept
<1>1. /\ policies' = [policies EXCEPT ![p] = Outcome(a)] /\ holder' = FreeScope(a)
      /\ review' = [review EXCEPT ![a] = Idle] /\ revisions' = revisions
      /\ review[a].step = "checked" /\ p = review[a].policy
  BY <1>0 DEF Commit
<1>2. /\ policies[p].content \in Contents
      /\ review[a].op \in {"submit", "publish"}
      /\ policies[p].status = IF review[a].op = "submit" THEN "DRAFT" ELSE "IN_REVIEW"
  BY <1>1 DEF PolicyTypeOK, LocksKept
<1>3. /\ Outcome(a).content = policies[p].content
      /\ Outcome(a).status = IF review[a].op = "submit" THEN "IN_REVIEW" ELSE "PUBLISHED"
      /\ Outcome(a) \in [status : {"NONE", "DRAFT", "IN_REVIEW", "PUBLISHED"},
                         content : Contents \cup {None}, preparer : Admins \cup {None},
                         approver : Admins \cup {None}, sealed : {"PUBLISHED", "SUPERSEDED", None}]
  <2>1. revisions[policies[p].content.revision] \in {"PUBLISHED", "SUPERSEDED"}
    BY <1>1 DEF ChecksHold
  <2>2. policies[p] \in [status : {"NONE", "DRAFT", "IN_REVIEW", "PUBLISHED"},
                         content : Contents \cup {None}, preparer : Admins \cup {None},
                         approver : Admins \cup {None}, sealed : {"PUBLISHED", "SUPERSEDED", None}]
    BY <1>2 DEF PolicyTypeOK
  <2>3. CASE review[a].op = "submit"
    BY <1>1, <2>1, <2>2, <2>3 DEF Outcome
  <2>4. CASE review[a].op # "submit"
    BY <1>1, <2>2, <2>4 DEF Outcome
  <2>5. QED
    BY <2>3, <2>4
<1>4. /\ policies'[p] = Outcome(a)
      /\ \A q \in Policies \ {p} : policies'[q] = policies[q]
      /\ \A q \in Policies : policies'[q].content = policies[q].content
  BY <1>1, <1>2, <1>3 DEF PolicyTypeOK
<1>5. review'[a] = Idle /\ \A b \in Admins \ {a} : review'[b] = review[b]
  BY <1>1 DEF PolicyTypeOK
<1>6. PolicyTypeOK'
  BY <1>1, <1>2, <1>3, <1>4, <1>5, FreeScopeSpares DEF PolicyTypeOK, Idle
<1>7. \A b \in Admins \ {a} : review[b].step # "idle" => review[b].policy # p
  BY <1>1 DEF LocksKept
<1>8. LocksKept'
  BY <1>4, <1>5, <1>7 DEF LocksKept, Idle
<1>9. /\ \A q \in Policies \ {p} : Standing(q)' <=> Standing(q)
      /\ Standing(p)' /\ (Standing(p) <=> review[a].op = "publish")
  <2>1. \A q \in Policies \ {p} : Standing(q)' <=> Standing(q)
    BY <1>4 DEF Standing
  <2>2. policies'[p].status \in {"IN_REVIEW", "PUBLISHED"}
    BY <1>3, <1>4
  <2>3. policies[p].status \in {"IN_REVIEW", "PUBLISHED"} <=> review[a].op = "publish"
    BY <1>2
  <2>4. Standing(p)'
    BY <2>2 DEF Standing
  <2>5. Standing(p) <=> review[a].op = "publish"
    BY <2>3 DEF Standing
  <2>6. QED
    BY <2>1, <2>4, <2>5
<1>10. ChecksHold'
  <2> SUFFICES ASSUME NEW b \in Admins \ {a}, review[b].step = "checked"
               PROVE  \E q \in Policies :
                      /\ q = review[b].policy
                      /\ holder'[policies'[q].content.context] = b
                      /\ revisions'[policies'[q].content.revision] \in {"PUBLISHED", "SUPERSEDED"}
                      /\ review[b].op = "submit" => NoOverlap(q)'
    BY <1>5 DEF ChecksHold, Idle
  <2>0. PICK q \in Policies \ {p} : q = review[b].policy
    BY <1>7 DEF LocksKept
  <2>1. /\ policies[q].content \in Contents
        /\ policies[q].content.context \in Contexts
    BY <2>0, PolicyAssumption DEF LocksKept, PolicyTypeOK, Content
  <2>2. holder'[policies'[q].content.context] = b
    BY <1>1, <1>4, <2>0, <2>1, FreeScopeSpares DEF ChecksHold
  <2>3. revisions'[policies'[q].content.revision] \in {"PUBLISHED", "SUPERSEDED"}
    BY <1>1, <1>4, <2>0, <2>1 DEF ChecksHold
  <2>4. ~Overlap(policies[q].content, policies[p].content)
    <3>1. policies[q].content.context # policies[p].content.context
      BY <1>1, <2>0 DEF ChecksHold
    <3>2. QED
      BY <3>1, OverlapInContext
  <2>5. review[b].op = "submit" => NoOverlap(q)'
    <3> SUFFICES ASSUME NoOverlap(q) PROVE NoOverlap(q)'
      BY <2>0 DEF ChecksHold
    <3>1. SUFFICES ASSUME NEW r \in Policies \ {q, policies[q].content.supersedes}, Standing(r)'
                   PROVE  ~Overlap(policies[q].content, policies[r].content)
      BY <1>4, <2>1 DEF NoOverlap
    <3>2. CASE r = p
      BY <2>4, <3>2
    <3>3. CASE r # p
      BY <1>9, <3>1, <3>3 DEF NoOverlap
    <3>4. QED
      BY <3>2, <3>3
  <2>6. QED
    BY <2>0, <2>2, <2>3, <2>5
<1>11. NoContradiction'
  <2> SUFFICES ASSUME NEW q \in Policies, NEW r \in Policies, q # r, Standing(q)', Standing(r)',
                      Overlap(policies[q].content, policies[r].content)
               PROVE  policies[q].content.supersedes = r \/ policies[r].content.supersedes = q
    BY <1>4 DEF NoContradiction
  <2>1. CASE Standing(q) /\ Standing(r)
    BY <2>1 DEF NoContradiction
  <2>2. CASE ~(Standing(q) /\ Standing(r))
    <3>1. NoOverlap(p) /\ p \in {q, r} /\ ~Standing(p)
      BY <1>1, <1>2, <1>9, <2>2 DEF ChecksHold
    <3>2. Overlap(policies[r].content, policies[q].content)
      BY OverlapSymmetric
    <3>3. (p = q => Standing(r)) /\ (p = r => Standing(q))
      BY <1>9
    <3>4. QED
      BY <3>1, <3>2, <3>3 DEF NoOverlap
  <2>3. QED
    BY <2>1, <2>2
<1>12. QED
  BY <1>6, <1>8, <1>10, <1>11

\* A transaction that ends, or a request that leaves its scope, writes nothing.
LEMMA EndKeeps ==
  ASSUME PolicyInv, NEW a \in Admins, holder' = FreeScope(a),
         review' = [review EXCEPT ![a] = Idle], UNCHANGED <<policies, revisions>>
  PROVE  PolicyInv'
<1> USE DEF PolicyInv
<1>1. review'[a] = Idle /\ \A b \in Admins \ {a} : review'[b] = review[b]
  BY DEF PolicyTypeOK
<1>2. PolicyTypeOK'
  BY <1>1, FreeScopeSpares DEF PolicyTypeOK, Idle
<1>3. LocksKept'
  BY <1>1 DEF LocksKept, Idle
<1>4. ChecksHold'
  <2> SUFFICES ASSUME NEW b \in Admins \ {a}, review[b].step = "checked"
               PROVE  /\ holder'[policies[review[b].policy].content.context] = b
                      /\ review[b].op = "submit" => NoOverlap(review[b].policy)'
    BY <1>1 DEF ChecksHold, Idle
  <2>1. /\ review[b].policy \in Policies
        /\ policies[review[b].policy].content.context \in Contexts
    BY PolicyAssumption DEF LocksKept, PolicyTypeOK, Content
  <2>2. QED
    BY <2>1, FreeScopeSpares, RowsStay DEF ChecksHold
<1>5. QED
  BY <1>2, <1>3, <1>4, RowsStay

LEMMA LeaveKeeps ==
  ASSUME PolicyInv, NEW a \in Admins, Leave(a)
  PROVE  PolicyInv'
<1>1. review' = [review EXCEPT ![a] = Idle]
  BY DEF Leave, PolicyInv, PolicyTypeOK
<1>2. QED
  BY <1>1, EndKeeps DEF Leave

LEMMA ConsultKeeps ==
  ASSUME PolicyInv, NEW a \in Admins, NEW x \in Contexts, Consult(a, x)
  PROVE  PolicyInv'
<1> USE DEF PolicyInv
<1>1. /\ holder[x] = None /\ holder' = [holder EXCEPT ![x] = a] /\ review' = review
      /\ policies' = policies /\ revisions' = revisions
  BY DEF Consult, ScopeFree
<1>2. PolicyTypeOK' /\ LocksKept'
  BY <1>1 DEF PolicyTypeOK, LocksKept
<1>3. ChecksHold'
  <2> SUFFICES ASSUME NEW b \in Admins, review[b].step = "checked"
               PROVE  /\ holder'[policies[review[b].policy].content.context] = b
                      /\ review[b].op = "submit" => NoOverlap(review[b].policy)'
    BY <1>1 DEF ChecksHold
  <2>1. /\ review[b].policy \in Policies
        /\ policies[review[b].policy].content.context \in Contexts
    BY PolicyAssumption DEF LocksKept, PolicyTypeOK, Content
  <2>2. b # None /\ holder[policies[review[b].policy].content.context] = b
    BY PolicyAssumption DEF ChecksHold
  <2>3. QED
    BY <1>1, <2>1, <2>2, RowsStay DEF PolicyTypeOK, ChecksHold
<1>4. QED
  BY <1>1, <1>2, <1>3, RowsStay

LEMMA PublishRevisionKeeps ==
  ASSUME PolicyInv, NEW r \in Revisions, PublishRevision(r)
  PROVE  PolicyInv'
<1> USE DEF PolicyInv
<1>1. /\ policies' = policies /\ holder' = holder /\ review' = review
      /\ revisions' \in [Revisions -> {"DRAFT", "PUBLISHED", "SUPERSEDED"}]
      /\ \A s \in Revisions : revisions[s] \in {"PUBLISHED", "SUPERSEDED"}
                               => revisions'[s] \in {"PUBLISHED", "SUPERSEDED"}
  BY DEF PublishRevision, PolicyTypeOK
<1>2. PolicyTypeOK' /\ LocksKept'
  BY <1>1 DEF PolicyTypeOK, LocksKept
<1>3. ChecksHold'
  <2> SUFFICES ASSUME NEW b \in Admins, review[b].step = "checked"
               PROVE  /\ revisions'[policies[review[b].policy].content.revision]
                              \in {"PUBLISHED", "SUPERSEDED"}
                      /\ review[b].op = "submit" => NoOverlap(review[b].policy)'
    BY <1>1 DEF ChecksHold
  <2>1. /\ review[b].policy \in Policies
        /\ policies[review[b].policy].content.revision \in Revisions
    BY PolicyAssumption DEF LocksKept, PolicyTypeOK, Content
  <2>2. QED
    BY <1>1, <2>1, RowsStay DEF ChecksHold
<1>4. QED
  BY <1>1, <1>2, <1>3, RowsStay

LEMMA PolicyInvStep == PolicyInv /\ [PolicyNext]_policyVars => PolicyInv'
<1> SUFFICES ASSUME PolicyInv, [PolicyNext]_policyVars PROVE PolicyInv'
  OBVIOUS
<1>1. CASE \E a \in Admins, p \in Policies, c \in Contents : Prepare(a, p, c)
  BY <1>1, PrepareKeeps
<1>2. CASE \E p \in Policies, c \in Contents : Edit(p, c)
  BY <1>2, EditKeeps
<1>3. CASE \E a \in Admins, op \in {"submit", "publish"}, p \in Policies : LockPolicy(a, op, p)
  BY <1>3, LockPolicyKeeps
<1>4. CASE \E a \in Admins : Check(a)
  BY <1>4, CheckKeeps
<1>5. CASE \E a \in Admins : Commit(a)
  BY <1>5, CommitKeeps
<1>6. CASE \E a \in Admins : Abort(a)
  BY <1>6, EndKeeps DEF Abort
<1>7. CASE \E r \in Revisions : PublishRevision(r)
  BY <1>7, PublishRevisionKeeps
<1>8. CASE \E a \in Admins : Leave(a)
  BY <1>8, LeaveKeeps
<1>9. CASE \E a \in Admins, x \in Contexts : Consult(a, x)
  BY <1>9, ConsultKeeps
<1>10. CASE UNCHANGED policyVars
  <2>1. PolicyTypeOK' /\ LocksKept'
    BY <1>10 DEF PolicyInv, policyVars, PolicyTypeOK, LocksKept
  <2>2. ChecksHold' /\ NoContradiction'
    BY <1>10, RowsStay DEF PolicyInv, policyVars, ChecksHold, LocksKept
  <2>3. QED
    BY <2>1, <2>2 DEF PolicyInv
<1>11. QED
  BY <1>1, <1>2, <1>3, <1>4, <1>5, <1>6, <1>7, <1>8, <1>9, <1>10 DEF PolicyNext, GovernanceNext

\* Whatever editors, reviewers and requests do at once, every reachable state
\* is well typed and its rows in force do not contradict each other.
THEOREM PoliciesConsistent == PolicySpec => []PolicyInv
BY PolicyInvInit, PolicyInvStep, PTL DEF PolicySpec

\* At most one policy in force decides any admission (resolve_curriculum_assignment
\* never meets a tie), for every set of drafts and every order of submissions,
\* refusals and publications.
THEOREM DecisionUnique == PolicySpec => []OnePolicyDecides
<1>1. PolicyInv => OnePolicyDecides
  BY NoContradictionDecides DEF PolicyInv
<1>2. QED
  BY <1>1, PoliciesConsistent, PTL

-----------------------------------------------------------------------------
(* Enrollments, records and decisions.                                     *)

EnrollmentRow == [status : {"NONE", "NEEDS_REVIEW", "ACTIVE", "TRANSITIONED"},
                  holds : SUBSET {"CURRICULUM_ASSIGNMENT", "IDENTITY_REVIEW"},
                  revision : Revisions \cup {None}, version : Nat,
                  input : Inputs \cup {None}, source : Enrollments \cup {None}]
DecisionRow == [method : {"AUTOMATIC", "POLICY_EVALUATION", "ADMIN_OVERRIDE"},
                revision : Revisions \cup {None}, policy : Policies \cup {None},
                fact : Facts \cup {None}, authorization : Authorizations \cup {None}]
AuthorizationRow == [status : {"NONE", "DRAFT", "APPROVED"},
                     enrollment : Enrollments \cup {None}, revision : Revisions \cup {None},
                     sealed : {"PUBLISHED", "SUPERSEDED", None},
                     preparer : Admins \cup {None}, approver : Admins \cup {None}]

\* An enrollment that waits for a curriculum is one that has none.
Explained(e, row) ==
    /\ row.status = "NEEDS_REVIEW" <=> row.holds # {}
    /\ row.status # "NONE" => /\ row.input \in Inputs /\ row.input.context = ContextOf[e]
                              /\ "CURRICULUM_ASSIGNMENT" \in row.holds <=> row.revision = None

RowsTyped ==
    /\ enrollments \in [Enrollments -> EnrollmentRow]
    /\ decisions \in [Enrollments -> Seq(DecisionRow)]
    /\ facts \subseteq Facts
    /\ authorizations \in [Authorizations -> AuthorizationRow]
    /\ \A z \in Authorizations : authorizations[z].status # "NONE" =>
           authorizations[z].revision \in Revisions /\ authorizations[z].enrollment \in Enrollments

RowsExplained ==
    \A e \in Enrollments : /\ Explained(e, enrollments[e])
                           /\ Exists(e) => /\ decisions[e] # <<>>
                                           /\ enrollments[e].revision = Last(decisions[e]).revision

IsWork(w) ==
    /\ w = [op |-> w.op, step |-> w.step, enrollment |-> w.enrollment, source |-> w.source,
            expected |-> w.expected, decision |-> w.decision, row |-> w.row,
            authorization |-> w.authorization]
    /\ w.step \in {"idle", "seen", "entered"}

\* What a request knows of its case.
Informed(w) ==
    /\ w.op \in {"create", "resolve", "override"} => w.enrollment \in Enrollments
    /\ w.op = "create" => /\ w.source \in Enrollments \cup {None}
                          /\ ContextOf[w.enrollment] = "PLAN_TRANSITION" => w.source # None
    /\ w.op \in {"resolve", "override"} =>
           w.row \in EnrollmentRow /\ Explained(w.enrollment, w.row) /\ w.row.status = "NEEDS_REVIEW"
    /\ w.op = "resolve" => w.source = None
    /\ w.op = "override" => w.authorization \in Authorizations

Requests ==
    /\ work = [a \in Admins |-> work[a]]
    /\ \A a \in Admins : IsWork(work[a]) /\ Informed(work[a])
    /\ \A a \in Admins : work[a].op = "override" => authorizations[work[a].authorization].status # "NONE"

\* The answer of the resolver a request goes on with.
Answer(w) ==
    LET d == w.decision IN
    /\ w.op \in {"create", "resolve"}
    /\ d.found.input \in Inputs /\ d.found.input.context = ContextOf[w.enrollment]
    /\ d.found.fact \in Facts \cup {None}
    /\ d.status # "RESOLVED" => d.revision = None
    /\ d.status = "RESOLVED" => d.revision \in Revisions /\ d.policy \in Policies
    /\ w.op = "resolve" => d.status = "RESOLVED" /\ w.row.input = d.found.input

\* It stays true while the request holds the scope.
ScopeHeldBy(a) ==
    work[a].step = "entered" =>
        /\ Answer(work[a]) /\ review[a] = Idle /\ holder[ContextOf[work[a].enrollment]] = a
        /\ work[a].decision.status = "RESOLVED" =>
               Deciding(work[a].decision.found.input) = {work[a].decision.policy}
ScopeHeld == \A a \in Admins : ScopeHeldBy(a)

\* The source of a transition waits for it, active.
SourceHeldBy(a) ==
    work[a].step = "entered" /\ work[a].source # None =>
        /\ work[a].op = "create"
        /\ ContextOf[work[a].enrollment] = "PLAN_TRANSITION" => enrollments[work[a].source].status = "ACTIVE"
        /\ \A b \in Admins : work[b].step = "entered" /\ work[b].source = work[a].source => b = a
SourceHeld == \A a \in Admins : SourceHeldBy(a)

EnrollingInv == RowsTyped /\ RowsExplained /\ Requests /\ ScopeHeld /\ SourceHeld
AdminInv == PolicyInv /\ EnrollingInv

-----------------------------------------------------------------------------
(* The policies under the requests.                                        *)

\* What a request does to the policies: nothing, but for the lock of a scope.
ScopeStep(a) == Leave(a) \/ (\E x \in Contexts : Consult(a, x)) \/ UNCHANGED policyVars

LEMMA EnterConsults ==
  ASSUME Requests, NEW a \in Admins, Enter(a) \/ Reevaluate(a)
  PROVE  ScopeStep(a)
<1>1. work[a].enrollment \in Enrollments
  BY AdministrationAssumption DEF Requests, Informed, Enter, Reevaluate
<1>2. ContextOf[work[a].enrollment] \in Contexts
  BY <1>1, AdministrationAssumption
<1>3. Consult(a, ContextOf[work[a].enrollment]) \/ UNCHANGED policyVars
  BY DEF Enter, Reevaluate
<1>4. QED
  BY <1>2, <1>3 DEF ScopeStep

LEMMA RequestIsScopeStep ==
  ASSUME Requests, Enrolling
  PROVE  (\E a \in Admins : ScopeStep(a)) \/ UNCHANGED policyVars
<1>1. CASE \E f \in Facts : VerifyFact(f)
  BY <1>1 DEF VerifyFact
<1>2. CASE \E a \in Admins, e \in Enrollments, source \in Enrollments \cup {None}, blind \in BOOLEAN :
               Preview(a, e, source, blind)
  BY <1>2 DEF Preview
<1>3. CASE \E a \in Admins : Enter(a) \/ Reevaluate(a)
  BY <1>3, EnterConsults
<1>4. CASE \E a \in Admins : \/ \E known \in BOOLEAN : Create(a, known)
                             \/ Settle(a) \/ GiveUp(a)
  BY <1>4 DEF Create, Settle, GiveUp, ScopeStep
<1>5. CASE \E a \in Admins : Override(a) \/ \E e \in Enrollments : ReadPending(a, e)
  BY <1>5 DEF Override, ReadPending
<1>6. CASE \E a \in Admins, z \in Authorizations, e \in Enrollments, r \in Revisions :
               PrepareOverride(a, z, e, r)
  BY <1>6 DEF PrepareOverride
<1>7. CASE \E a \in Admins, z \in Authorizations : ApproveOverride(a, z) \/ OpenOverride(a, z)
  BY <1>7 DEF ApproveOverride, OpenOverride
<1>8. CASE \E student \in {StudentOf[e] : e \in Enrollments} : ConfirmIdentity(student)
  BY <1>8 DEF ConfirmIdentity
<1>9. QED
  BY <1>1, <1>2, <1>3, <1>4, <1>5, <1>6, <1>7, <1>8 DEF Enrolling

LEMMA StepIsPolicyStep ==
  ASSUME Requests, [Next]_vars
  PROVE  [PolicyNext]_policyVars
<1>1. CASE Governance
  BY <1>1 DEF Governance, PolicyNext
<1>2. CASE Enrolling
  BY <1>2, RequestIsScopeStep DEF ScopeStep, PolicyNext
<1>3. CASE UNCHANGED vars
  BY <1>3 DEF vars
<1>4. QED
  BY <1>1, <1>2, <1>3 DEF Next

\* What decides an admission changes only with a policy in force that applies to it.
LEMMA SameDecision ==
  ASSUME NEW v \in Inputs,
         \A p \in Policies :
             \/ policies'[p] = policies[p]
             \/ /\ policies[p].status # "PUBLISHED" \/ ~Applies(policies[p].content, v)
                /\ policies'[p].status # "PUBLISHED" \/ ~Applies(policies'[p].content, v)
  PROVE  Deciding(v)' = Deciding(v)
<1>1. Applicable(v)' = Applicable(v)
  BY DEF Applicable
<1>2. \A p \in Applicable(v) : p \in Policies /\ policies'[p] = policies[p]
  BY DEF Applicable
<1>3. Effective(v)' = Effective(v)
  BY <1>1, <1>2 DEF Effective
<1>4. \A p \in Effective(v) : p \in Applicable(v)
  BY DEF Effective
<1>5. QED
  BY <1>2, <1>3, <1>4 DEF Deciding

\* Nobody publishes a policy into a scope another person holds.
LEMMA HolderSpared ==
  ASSUME PolicyInv, NEW b \in Admins, NEW x \in Contexts, NEW v \in Inputs, v.context = x,
         holder[x] = b, review[b] = Idle,
         GovernanceNext \/ \E a \in Admins \ {b} : ScopeStep(a)
  PROVE  holder'[x] = b /\ Deciding(v)' = Deciding(v)
<1> USE DEF PolicyInv
<1>0. b # None
  BY PolicyAssumption
<1>1. ASSUME NEW p \in Policies, NEW c \in Contents,
             Edit(p, c) \/ \E a \in Admins : Prepare(a, p, c)
      PROVE  holder'[x] = b /\ Deciding(v)' = Deciding(v)
  <2>1. /\ holder' = holder /\ policies[p].status # "PUBLISHED" /\ policies'[p].status # "PUBLISHED"
        /\ \A q \in Policies : q # p => policies'[q] = policies[q]
    BY <1>1 DEF Edit, Prepare, PolicyTypeOK
  <2>2. QED
    BY <2>1, SameDecision
<1>2. ASSUME NEW a \in Admins,
             Check(a) \/ (\E op \in {"submit", "publish"}, p \in Policies : LockPolicy(a, op, p))
      PROVE  holder'[x] = b /\ Deciding(v)' = Deciding(v)
  <2>1. /\ policies' = policies
        /\ \/ holder' = holder
           \/ \E y \in Contexts : holder[y] = None /\ holder' = [holder EXCEPT ![y] = a]
    <3>1. CASE Check(a)
      <4>1. policies[review[a].policy].content.context \in Contexts
        BY <3>1, PolicyAssumption DEF Check, LocksKept, PolicyTypeOK, Content
      <4>2. QED
        BY <3>1, <4>1 DEF Check, ScopeFree
    <3>2. QED
      BY <1>2, <3>1 DEF LockPolicy
  <2>2. holder'[x] = b
    BY <1>0, <2>1 DEF PolicyTypeOK
  <2>3. QED
    BY <2>1, <2>2, SameDecision
<1>3. ASSUME NEW a \in Admins, Commit(a) \/ Abort(a)
      PROVE  holder'[x] = b /\ Deciding(v)' = Deciding(v)
  <2>1. a # b /\ holder' = FreeScope(a)
    BY <1>3 DEF Commit, Abort, Idle
  <2>2. holder'[x] = b
    BY <2>1, FreeScopeSpares
  <2>3. CASE Abort(a)
    BY <2>2, <2>3, SameDecision DEF Abort
  <2>4. CASE Commit(a)
    <3>1. PICK p \in Policies : p = review[a].policy
      BY <2>4 DEF Commit, LocksKept
    <3>2. /\ policies[p].content.context # x /\ policies'[p].content = policies[p].content
          /\ \A q \in Policies : q # p => policies'[q] = policies[q]
      BY <2>1, <2>4, <3>1 DEF Commit, ChecksHold, Outcome, PolicyTypeOK
    <3>3. ~Applies(policies[p].content, v) /\ ~Applies(policies'[p].content, v)
      BY <3>2 DEF Applies
    <3>4. QED
      BY <2>2, <3>2, <3>3, SameDecision
  <2>5. QED
    BY <1>3, <2>3, <2>4
<1>4. ASSUME NEW r \in Revisions, PublishRevision(r)
      PROVE  holder'[x] = b /\ Deciding(v)' = Deciding(v)
  BY <1>4, SameDecision DEF PublishRevision
<1>5. ASSUME NEW a \in Admins \ {b}, ScopeStep(a)
      PROVE  holder'[x] = b /\ Deciding(v)' = Deciding(v)
  <2>1. policies' = policies
    BY <1>5 DEF ScopeStep, Leave, Consult, policyVars
  <2>2. ASSUME Leave(a) PROVE holder'[x] = b
    BY <2>2, FreeScopeSpares DEF Leave
  <2>3. ASSUME NEW y \in Contexts, Consult(a, y) PROVE holder'[x] = b
    BY <1>0, <2>3 DEF Consult, ScopeFree, PolicyTypeOK
  <2>4. holder'[x] = b
    BY <1>5, <2>2, <2>3 DEF ScopeStep, policyVars
  <2>5. QED
    BY <2>1, <2>4, SameDecision
<1>6. QED
  BY <1>1, <1>2, <1>3, <1>4, <1>5 DEF GovernanceNext

\* A resolved case has one policy that decides it.
LEMMA ResolutionSound ==
  ASSUME PolicyTypeOK, NEW v \in Inputs, NEW fact
  PROVE  LET d == Resolution(v, fact) IN
         /\ d.found.input = v /\ d.found.fact = fact
         /\ d.status = "RESOLVED" => /\ d.policy \in Policies /\ d.revision \in Revisions
                                     /\ Deciding(v) = {d.policy} /\ fact # None
         /\ d.status # "RESOLVED" => d.revision = None
<1> DEFINE d == Resolution(v, fact)
           p == CHOOSE q \in Deciding(v) : TRUE
           resolved == Applicable(v) # {} /\ Cardinality(Deciding(v)) = 1 /\ fact # None
<1>1. d.found.input = v /\ d.found.fact = fact
  BY DEF Resolution
<1>2. CASE ~resolved
  BY <1>1, <1>2 DEF Resolution
<1>3. CASE resolved
  <2>1. IsFiniteSet(Deciding(v))
    <3>1. IsFiniteSet(Policies)
      BY FS_Interval, PolicyAssumption DEF Policies
    <3>2. Deciding(v) \subseteq Policies
      BY DEF Deciding, Effective, Applicable
    <3>3. QED
      BY <3>1, <3>2, FS_Subset
  <2>2. Deciding(v) = {p}
    BY <1>3, <2>1, FS_Singleton
  <2>3. p \in Policies /\ policies[p].content \in Contents
    BY <2>2 DEF Deciding, Effective, Applicable, PolicyTypeOK
  <2>4. p # None /\ policies[p].content.revision \in Revisions
    BY <2>3, PolicyAssumption DEF Content
  <2>5. d.status = "RESOLVED" /\ d.policy = p /\ d.revision = policies[p].content.revision
    BY <1>3, <2>4 DEF Resolution
  <2>6. QED
    BY <1>1, <1>3, <2>2, <2>3, <2>4, <2>5
<1>4. QED
  BY <1>2, <1>3

-----------------------------------------------------------------------------
(* What a step leaves to the other requests.                               *)

LEMMA RequestChanged ==
  ASSUME Requests, NEW a \in Admins, NEW w, IsWork(w), Informed(w),
         work' = [work EXCEPT ![a] = w], authorizations' = authorizations,
         w.op = "override" => authorizations[w.authorization].status # "NONE"
  PROVE  Requests' /\ work'[a] = w /\ \A b \in Admins \ {a} : work'[b] = work[b]
<1>1. /\ work' = [b \in Admins |-> work'[b]] /\ work'[a] = w
      /\ \A b \in Admins \ {a} : work'[b] = work[b]
  BY DEF Requests
<1>2. \A b \in Admins : IsWork(work'[b]) /\ Informed(work'[b])
  BY <1>1 DEF Requests
<1>3. \A b \in Admins : work'[b].op = "override" => authorizations[work'[b].authorization].status # "NONE"
  BY <1>1 DEF Requests
<1>4. QED
  <2> HIDE DEF IsWork, Informed
  <2>1. QED
    BY <1>1, <1>2, <1>3 DEF Requests

LEMMA NoWorkFits == IsWork(NoWork) /\ Informed(NoWork) /\ NoWork.step = "idle" /\ NoWork.op # "override"
  BY AdministrationAssumption DEF NoWork, IsWork, Informed

LEMMA SameInput ==
  ASSUME NEW b, NEW v, v = work'[b].decision.found.input
  PROVE  Deciding(work[b].decision.found.input)' = Deciding(v)'
BY DEF Deciding, Effective, Applicable

LEMMA ScopeKept ==
  ASSUME AdminInv, NEW b \in Admins, work'[b] = work[b], review'[b] = review[b],
         GovernanceNext \/ (\E a \in Admins \ {b} : ScopeStep(a)) \/ UNCHANGED policyVars
  PROVE  ScopeHeldBy(b)'
<1> USE DEF AdminInv, EnrollingInv
<1> SUFFICES ASSUME work[b].step = "entered" PROVE ScopeHeldBy(b)'
  BY DEF ScopeHeldBy
<1>1. /\ Answer(work[b]) /\ review[b] = Idle /\ holder[ContextOf[work[b].enrollment]] = b
      /\ work[b].decision.status = "RESOLVED" =>
             Deciding(work[b].decision.found.input) = {work[b].decision.policy}
  BY DEF ScopeHeld, ScopeHeldBy
<1>2. PICK v \in Inputs : v = work[b].decision.found.input /\ v.context = ContextOf[work[b].enrollment]
  BY <1>1 DEF Answer
<1>3. PICK x \in Contexts : x = ContextOf[work[b].enrollment]
  BY <1>2 DEF Inputs
<1>4. holder'[x] = b /\ Deciding(v)' = Deciding(v)
  <2>1. CASE UNCHANGED policyVars
    BY <1>1, <1>3, <2>1, SameDecision DEF policyVars
  <2>2. CASE ~UNCHANGED policyVars
    BY <1>1, <1>2, <1>3, <2>2, HolderSpared
  <2>3. QED
    BY <2>1, <2>2
<1>5. work'[b].decision.status = "RESOLVED" => Deciding(v)' = {work'[b].decision.policy}
  BY <1>1, <1>2, <1>4
<1>6. v = work'[b].decision.found.input /\ x = ContextOf[work'[b].enrollment] /\ review'[b] = Idle
  BY <1>1, <1>2, <1>3
<1>7. Deciding(work[b].decision.found.input)' = Deciding(v)'
  BY <1>6, SameInput
<1>8. Answer(work[b])'
  BY <1>1 DEF Answer
<1>9. QED
  BY <1>3, <1>4, <1>5, <1>6, <1>7, <1>8 DEF ScopeHeldBy

LEMMA OthersKept ==
  ASSUME AdminInv, NEW a \in Admins, ScopeStep(a),
         \A b \in Admins \ {a} : work'[b] = work[b],
         work'[a].step = "entered" /\ work'[a].source # None => ~SourceLocked(work'[a].source),
         \A e \in Enrollments : \A b \in Admins \ {a} :
             /\ work[b].step = "entered" /\ work[b].source = e
             /\ ContextOf[work[b].enrollment] = "PLAN_TRANSITION"
             => enrollments'[e].status = enrollments[e].status
  PROVE  \A b \in Admins \ {a} : ScopeHeldBy(b)' /\ SourceHeldBy(b)'
<1> USE DEF AdminInv, EnrollingInv
<1> SUFFICES ASSUME NEW b \in Admins \ {a} PROVE ScopeHeldBy(b)' /\ SourceHeldBy(b)'
  OBVIOUS
<1>1. review' = review
  BY DEF ScopeStep, Leave, Consult, policyVars
<1>2. ScopeHeldBy(b)'
  BY <1>1, ScopeKept
<1>3. SourceHeldBy(b)'
  <2> SUFFICES ASSUME work[b].step = "entered", work[b].source # None PROVE SourceHeldBy(b)'
    BY DEF SourceHeldBy
  <2>1. SourceHeldBy(b)
    BY DEF SourceHeld
  <2>2. work[b].source \in Enrollments
    BY <2>1 DEF SourceHeldBy, Requests, Informed
  <2>3. \A c \in Admins : work'[c].step = "entered" /\ work'[c].source = work'[b].source => c = b
    BY <2>1 DEF SourceHeldBy, SourceLocked
  <2>4. ContextOf[work[b].enrollment] = "PLAN_TRANSITION" =>
            enrollments'[work[b].source].status = enrollments[work[b].source].status
    BY <2>2
  <2>5. QED
    BY <2>1, <2>3, <2>4 DEF SourceHeldBy
<1>4. QED
  BY <1>2, <1>3

\* A step of nobody's request.
LEMMA AllKept ==
  ASSUME AdminInv, work' = work, GovernanceNext \/ UNCHANGED policyVars,
         \A b \in Admins : work[b].step = "entered" => review'[b] = review[b],
         \A e \in Enrollments : SourceLocked(e) => enrollments'[e].status = enrollments[e].status
  PROVE  ScopeHeld' /\ SourceHeld'
<1> USE DEF AdminInv, EnrollingInv
<1>1. ASSUME NEW b \in Admins PROVE ScopeHeldBy(b)'
  <2>1. CASE work[b].step = "entered"
    BY <2>1, ScopeKept
  <2>2. CASE work[b].step # "entered"
    BY <2>2 DEF ScopeHeldBy
  <2>3. QED
    BY <2>1, <2>2
<1>2. ASSUME NEW b \in Admins PROVE SourceHeldBy(b)'
  <2> SUFFICES ASSUME work[b].step = "entered", work[b].source # None PROVE SourceHeldBy(b)'
    BY DEF SourceHeldBy
  <2>1. SourceHeldBy(b)
    BY DEF SourceHeld
  <2>2. work[b].source \in Enrollments
    BY <2>1 DEF SourceHeldBy, Requests, Informed
  <2>3. enrollments'[work[b].source].status = enrollments[work[b].source].status
    BY <2>2 DEF SourceLocked
  <2>4. QED
    BY <2>1, <2>3 DEF SourceHeldBy
<1>3. QED
  BY <1>1, <1>2 DEF ScopeHeld, SourceHeld

\* A request that ends, or has not entered its scope, owes nothing.
LEMMA NotEntered ==
  ASSUME NEW a \in Admins, work'[a].step # "entered",
         \A b \in Admins \ {a} : ScopeHeldBy(b)' /\ SourceHeldBy(b)'
  PROVE  ScopeHeld' /\ SourceHeld'
<1>1. ScopeHeldBy(a)' /\ SourceHeldBy(a)'
  BY DEF ScopeHeldBy, SourceHeldBy
<1>2. \A b \in Admins : b = a \/ b \in Admins \ {a}
  OBVIOUS
<1>3. QED
  BY <1>1, <1>2 DEF ScopeHeld, SourceHeld

LEMMA RowsKept ==
  ASSUME RowsTyped, RowsExplained, UNCHANGED <<enrollments, decisions>>,
         facts' \subseteq Facts, UNCHANGED authorizations
  PROVE  RowsTyped' /\ RowsExplained'
BY DEF RowsTyped, RowsExplained, Exists, Last

-----------------------------------------------------------------------------
(* Every step keeps the invariant.                                         *)

LEMMA InitHolds == Init => AdminInv
<1> SUFFICES ASSUME Init PROVE AdminInv
  OBVIOUS
<1>1. PolicyInv
  BY PolicyInvInit DEF Init
<1>2. RowsTyped
  BY DEF Init, RowsTyped, EnrollmentRow, AuthorizationRow, NoEnrollment, NoAuthorization
<1>3. RowsExplained
  BY DEF Init, RowsExplained, Explained, Exists, NoEnrollment
<1>4. Requests
  <2>1. work = [a \in Admins |-> NoWork]
    BY DEF Init
  <2>2. QED
    BY <2>1, NoWorkFits DEF Requests
<1>5. ScopeHeld /\ SourceHeld
  <2>1. \A a \in Admins : work[a].step # "entered"
    BY NoWorkFits DEF Init
  <2>2. QED
    BY <2>1 DEF ScopeHeld, ScopeHeldBy, SourceHeld, SourceHeldBy
<1>6. QED
  BY <1>1, <1>2, <1>3, <1>4, <1>5 DEF AdminInv, EnrollingInv

LEMMA GovernanceKeeps ==
  ASSUME AdminInv, Governance
  PROVE  EnrollingInv'
<1> USE DEF AdminInv, EnrollingInv
<1>1. UNCHANGED <<enrollments, decisions, facts, authorizations, work>> /\ GovernanceNext
  BY DEF Governance, adminVars
<1>2. \A b \in Admins : work[b].step = "entered" => review'[b] = review[b]
  BY NoWorkFits DEF Governance
<1>3. ScopeHeld' /\ SourceHeld'
  BY <1>1, <1>2, AllKept
<1>4. RowsTyped' /\ RowsExplained'
  <2>1. facts' \subseteq Facts
    BY <1>1 DEF RowsTyped
  <2>2. QED
    BY <1>1, <2>1, RowsKept
<1>5. Requests'
  BY <1>1 DEF Requests
<1>6. QED
  BY <1>3, <1>4, <1>5

LEMMA VerifyFactKeeps ==
  ASSUME AdminInv, NEW f \in Facts, VerifyFact(f)
  PROVE  EnrollingInv'
<1> USE DEF AdminInv, EnrollingInv
<1>1. /\ UNCHANGED <<enrollments, decisions, authorizations, work>> /\ UNCHANGED policyVars
      /\ facts' \subseteq Facts
  BY DEF VerifyFact, RowsTyped
<1>2. ScopeHeld' /\ SourceHeld'
  BY <1>1, AllKept DEF policyVars
<1>3. RowsTyped' /\ RowsExplained'
  BY <1>1, RowsKept
<1>4. Requests'
  BY <1>1 DEF Requests
<1>5. QED
  BY <1>2, <1>3, <1>4

\* Opening a request: a preview, or a form for a pending enrollment.
LEMMA OpeningKeeps ==
  ASSUME AdminInv, NEW a \in Admins, NEW w, IsWork(w), Informed(w), w.step = "seen",
         w.op = "override" => authorizations[w.authorization].status # "NONE",
         work' = [work EXCEPT ![a] = w], UNCHANGED policyVars,
         UNCHANGED <<enrollments, decisions, facts, authorizations>>
  PROVE  EnrollingInv'
<1> USE DEF AdminInv, EnrollingInv
<1>1. Requests' /\ work'[a] = w /\ \A b \in Admins \ {a} : work'[b] = work[b]
  BY RequestChanged
<1>2. ScopeStep(a)
  BY DEF ScopeStep
<1>3. ScopeHeld' /\ SourceHeld'
  BY <1>1, <1>2, OthersKept, NotEntered
<1>4. RowsTyped' /\ RowsExplained'
  <2>1. facts' \subseteq Facts
    BY DEF RowsTyped
  <2>2. QED
    BY <2>1, RowsKept
<1>5. QED
  BY <1>1, <1>3, <1>4

LEMMA PreviewKeeps ==
  ASSUME AdminInv, NEW a \in Admins, NEW e \in Enrollments, NEW source \in Enrollments \cup {None},
         NEW blind \in BOOLEAN, Preview(a, e, source, blind)
  PROVE  EnrollingInv'
<1>1. PICK w : w = [NoWork EXCEPT !.op = "create", !.step = "seen", !.enrollment = e,
                                  !.source = source,
                                  !.expected = IF blind THEN None
                                               ELSE Resolution(Input(e, source), FactFor(e))]
  OBVIOUS
<1>2. work' = [work EXCEPT ![a] = w]
  BY <1>1 DEF Preview
<1>3. IsWork(w) /\ w.step = "seen" /\ w.op = "create"
  BY <1>1 DEF NoWork, IsWork
<1>4. Informed(w)
  BY <1>1 DEF NoWork, Informed, Preview
<1>5. QED
  BY <1>2, <1>3, <1>4, OpeningKeeps DEF Preview

LEMMA ReadPendingKeeps ==
  ASSUME AdminInv, NEW a \in Admins, NEW e \in Enrollments, ReadPending(a, e)
  PROVE  EnrollingInv'
<1>1. PICK w : w = [NoWork EXCEPT !.op = "resolve", !.step = "seen", !.enrollment = e,
                                  !.row = enrollments[e]]
  OBVIOUS
<1>2. work' = [work EXCEPT ![a] = w]
  BY <1>1 DEF ReadPending
<1>3. IsWork(w) /\ w.step = "seen" /\ w.op = "resolve"
  BY <1>1 DEF NoWork, IsWork
<1>4. Informed(w)
  BY <1>1 DEF NoWork, Informed, ReadPending, AwaitsCurriculum, AdminInv, EnrollingInv, RowsTyped, RowsExplained
<1>5. QED
  BY <1>2, <1>3, <1>4, OpeningKeeps DEF ReadPending

LEMMA OpenOverrideKeeps ==
  ASSUME AdminInv, NEW a \in Admins, NEW z \in Authorizations, OpenOverride(a, z)
  PROVE  EnrollingInv'
<1> DEFINE e == authorizations[z].enrollment
<1>1. PICK w : w = [NoWork EXCEPT !.op = "override", !.step = "seen", !.enrollment = e,
                                  !.row = enrollments[e], !.authorization = z]
  OBVIOUS
<1>2. work' = [work EXCEPT ![a] = w]
  BY <1>1 DEF OpenOverride
<1>3. IsWork(w) /\ w.step = "seen" /\ authorizations[w.authorization].status # "NONE"
  BY <1>1 DEF NoWork, IsWork, OpenOverride
<1>4. Informed(w)
  BY <1>1 DEF NoWork, Informed, OpenOverride, AwaitsCurriculum, AdminInv, EnrollingInv, RowsTyped, RowsExplained
<1>5. QED
  BY <1>2, <1>3, <1>4, OpeningKeeps DEF OpenOverride

\* A request that ends without writing.
LEMMA GivingUpKeeps ==
  ASSUME AdminInv, NEW a \in Admins, Done(a), ScopeStep(a),
         UNCHANGED <<enrollments, decisions, facts, authorizations>>
  PROVE  EnrollingInv'
<1> USE DEF AdminInv, EnrollingInv
<1>1. Requests' /\ work'[a] = NoWork /\ \A b \in Admins \ {a} : work'[b] = work[b]
  BY RequestChanged, NoWorkFits DEF Done
<1>2. ScopeHeld' /\ SourceHeld'
  BY <1>1, NoWorkFits, OthersKept, NotEntered
<1>3. RowsTyped' /\ RowsExplained'
  <2>1. facts' \subseteq Facts
    BY DEF RowsTyped
  <2>2. QED
    BY <2>1, RowsKept
<1>4. QED
  BY <1>1, <1>2, <1>3

LEMMA InputFits ==
  ASSUME RowsTyped, NEW e \in Enrollments, NEW source \in Enrollments \cup {None},
         source # None => MayMove(source, e)
  PROVE  Input(e, source) \in Inputs /\ Input(e, source).context = ContextOf[e]
<1>1. source # None => enrollments[source].revision \in Revisions
  BY DEF MayMove, RowsTyped, EnrollmentRow
<1>2. QED
  BY <1>1, AdministrationAssumption DEF Input, Inputs, Plans

\* Entering the scope with the answer of the resolver.
LEMMA EnteringKeeps ==
  ASSUME AdminInv, NEW a \in Admins, NEW d, NEW v \in Inputs, NEW fact \in Facts \cup {None},
         work[a].op \in {"create", "resolve"}, d = Resolution(v, fact),
         v.context = ContextOf[work[a].enrollment],
         work[a].op = "resolve" => d.status = "RESOLVED" /\ work[a].row.input = v,
         work[a].source # None =>
             /\ work[a].op = "create" /\ ~SourceLocked(work[a].source)
             /\ ContextOf[work[a].enrollment] = "PLAN_TRANSITION" => enrollments[work[a].source].status = "ACTIVE",
         Consult(a, ContextOf[work[a].enrollment]),
         work' = [work EXCEPT ![a].step = "entered", ![a].expected = None, ![a].decision = d],
         UNCHANGED <<enrollments, decisions, facts, authorizations>>
  PROVE  EnrollingInv'
<1> USE DEF AdminInv, EnrollingInv
<1>1. PICK w : w = [work[a] EXCEPT !.step = "entered", !.expected = None, !.decision = d]
  OBVIOUS
<1>2. /\ w.op = work[a].op /\ w.step = "entered" /\ w.enrollment = work[a].enrollment
      /\ w.source = work[a].source /\ w.decision = d /\ w.row = work[a].row /\ IsWork(w)
  <2>1. IsWork(work[a])
    BY DEF Requests
  <2>2. QED
    BY <1>1, <2>1 DEF IsWork
<1>3. work' = [work EXCEPT ![a] = w]
  BY <1>1
<1>4. Informed(w) /\ w.op # "override" /\ w.enrollment \in Enrollments
  BY <1>2 DEF Requests, Informed
<1>5. Requests' /\ work'[a] = w /\ \A b \in Admins \ {a} : work'[b] = work[b]
  BY <1>2, <1>3, <1>4, RequestChanged
<1>6. ContextOf[w.enrollment] \in Contexts
  BY <1>4, AdministrationAssumption
<1>7. ScopeStep(a)
  BY <1>2, <1>6 DEF ScopeStep
<1>8. \A b \in Admins \ {a} : ScopeHeldBy(b)' /\ SourceHeldBy(b)'
  BY <1>2, <1>5, <1>7, OthersKept
<1>9. Answer(w)
  <2>1. /\ d.found.input = v /\ d.found.fact = fact
        /\ d.status = "RESOLVED" => d.policy \in Policies /\ d.revision \in Revisions
        /\ d.status # "RESOLVED" => d.revision = None
    BY ResolutionSound DEF PolicyInv
  <2>2. QED
    BY <1>2, <2>1 DEF Answer
<1>10. ScopeHeldBy(a)'
  <2>1. review' = review /\ review[a] = Idle /\ policies' = policies
    BY DEF Consult
  <2>2. holder'[ContextOf[w.enrollment]] = a
    BY <1>2, <1>6 DEF Consult, PolicyInv, PolicyTypeOK
  <2>3. d.status = "RESOLVED" => Deciding(v)' = {d.policy}
    BY <2>1, ResolutionSound, SameDecision DEF PolicyInv
  <2>4. d.found.input = v
    BY ResolutionSound DEF PolicyInv
  <2>5. work'[a].decision.status = "RESOLVED" =>
            Deciding(work[a].decision.found.input)' = {work'[a].decision.policy}
    <3>1. v = work'[a].decision.found.input
      BY <1>2, <1>5, <2>4
    <3>2. Deciding(work[a].decision.found.input)' = Deciding(v)'
      BY <3>1, SameInput
    <3>3. work'[a].decision = d
      BY <1>2, <1>5
    <3>4. QED
      BY <2>3, <3>2, <3>3
  <2>6. Answer(work[a])'
    BY <1>5, <1>9 DEF Answer
  <2>7. QED
    BY <1>5, <2>1, <2>2, <2>5, <2>6 DEF ScopeHeldBy
<1>11. SourceHeldBy(a)'
  BY <1>2, <1>5 DEF SourceHeldBy, SourceLocked
<1>12. ScopeHeld' /\ SourceHeld'
  <2>1. \A b \in Admins : b = a \/ b \in Admins \ {a}
    OBVIOUS
  <2>2. QED
    BY <1>8, <1>10, <1>11, <2>1 DEF ScopeHeld, SourceHeld
<1>13. RowsTyped' /\ RowsExplained'
  <2>1. facts' \subseteq Facts
    BY DEF RowsTyped
  <2>2. QED
    BY <2>1, RowsKept
<1>14. QED
  BY <1>5, <1>12, <1>13

LEMMA FactKnown ==
  ASSUME NEW e \in Enrollments
  PROVE  FactFor(e) \in Facts \cup {None}
BY AdministrationAssumption DEF FactFor, Verified

LEMMA EnterKeeps ==
  ASSUME AdminInv, NEW a \in Admins, Enter(a)
  PROVE  EnrollingInv'
<1> USE DEF AdminInv, EnrollingInv
<1>1. /\ work[a].op = "create" /\ work[a].enrollment \in Enrollments
      /\ work[a].source \in Enrollments \cup {None}
  BY DEF Enter, Requests, Informed
<1>2. PICK e \in Enrollments, source \in Enrollments \cup {None} :
          e = work[a].enrollment /\ source = work[a].source
  BY <1>1
<1>3. PICK d : d = Resolution(Input(e, source), FactFor(e))
  OBVIOUS
<1>4. CASE /\ source # None => MayMove(source, e)
           /\ Confirmed(a, d) /\ FactUsable(e, d)
  <2>1. PICK v \in Inputs : v = Input(e, source) /\ v.context = ContextOf[e]
    BY <1>4, InputFits
  <2>2. PICK fact \in Facts \cup {None} : fact = FactFor(e)
    BY FactKnown
  <2>3. /\ Consult(a, ContextOf[work[a].enrollment])
        /\ work' = [work EXCEPT ![a].step = "entered", ![a].expected = None, ![a].decision = d]
        /\ UNCHANGED <<enrollments, decisions, facts, authorizations>>
        /\ source # None => ~SourceLocked(source)
    BY <1>2, <1>3, <1>4 DEF Enter
  <2>4. source # None /\ ContextOf[e] = "PLAN_TRANSITION" => enrollments[source].status = "ACTIVE"
    BY <1>4 DEF MayMove
  <2>5. QED
    BY <1>1, <1>2, <1>3, <2>1, <2>2, <2>3, <2>4, EnteringKeeps
<1>5. CASE ~(/\ source # None => MayMove(source, e)
             /\ Confirmed(a, d) /\ FactUsable(e, d))
  <2>1. Done(a) /\ UNCHANGED policyVars /\ UNCHANGED <<enrollments, decisions, facts, authorizations>>
    BY <1>2, <1>3, <1>5 DEF Enter
  <2>2. QED
    BY <2>1, GivingUpKeeps DEF ScopeStep
<1>6. QED
  BY <1>4, <1>5

LEMMA ReevaluateKeeps ==
  ASSUME AdminInv, NEW a \in Admins, Reevaluate(a)
  PROVE  EnrollingInv'
<1> USE DEF AdminInv, EnrollingInv
<1>1. /\ work[a].op = "resolve" /\ work[a].enrollment \in Enrollments
      /\ work[a].row.status = "NEEDS_REVIEW" /\ Explained(work[a].enrollment, work[a].row)
  BY DEF Reevaluate, Requests, Informed
<1>2. PICK e \in Enrollments, v \in Inputs :
          e = work[a].enrollment /\ v = work[a].row.input /\ v.context = ContextOf[e]
  BY <1>1 DEF Explained
<1>3. PICK d : d = Resolution(v, FactFor(e))
  OBVIOUS
<1>4. CASE d.status = "RESOLVED" /\ FactUsable(e, d)
  <2>1. PICK fact \in Facts \cup {None} : fact = FactFor(e)
    BY FactKnown
  <2>2. /\ Consult(a, ContextOf[work[a].enrollment])
        /\ work' = [work EXCEPT ![a].step = "entered", ![a].expected = None, ![a].decision = d]
        /\ UNCHANGED <<enrollments, decisions, facts, authorizations>>
    BY <1>2, <1>3, <1>4 DEF Reevaluate
  <2>3. work[a].source = None
    BY <1>1 DEF Requests, Informed
  <2>4. QED
    BY <1>1, <1>2, <1>3, <1>4, <2>1, <2>2, <2>3, EnteringKeeps
<1>5. CASE ~(d.status = "RESOLVED" /\ FactUsable(e, d))
  <2>1. Done(a) /\ UNCHANGED policyVars /\ UNCHANGED <<enrollments, decisions, facts, authorizations>>
    BY <1>2, <1>3, <1>5 DEF Reevaluate
  <2>2. QED
    BY <2>1, GivingUpKeeps DEF ScopeStep
<1>6. QED
  BY <1>4, <1>5

-----------------------------------------------------------------------------
(* The steps that write an enrollment and its decision.                    *)

LEMMA Appended ==
  ASSUME NEW S, NEW s \in Seq(S), NEW x \in S
  PROVE  /\ Append(s, x) \in Seq(S) /\ Append(s, x) # <<>>
         /\ Last(Append(s, x)) = x /\ Len(Append(s, x)) = Len(s) + 1
BY DEF Last

LEMMA EvaluatedFits ==
  ASSUME NEW w, Answer(w)
  PROVE  /\ Evaluated(w.decision) \in DecisionRow
         /\ Evaluated(w.decision).revision = w.decision.revision
         /\ w.decision.revision \in Revisions \cup {None}
BY DEF Answer, Evaluated, Decision, DecisionRow

\* The row that is given the target loses the curriculum hold.
LEMMA AssignedFits ==
  ASSUME NEW e \in Enrollments, NEW row \in EnrollmentRow, Explained(e, row),
         row.status = "NEEDS_REVIEW", NEW r \in Revisions
  PROVE  /\ Assigned(row, r) \in EnrollmentRow /\ Explained(e, Assigned(row, r))
         /\ Assigned(row, r).revision = r /\ Assigned(row, r).input = row.input
<1> DEFINE holds == row.holds \ {"CURRICULUM_ASSIGNMENT"}
           new == Assigned(row, r)
<1>1. holds \in SUBSET {"CURRICULUM_ASSIGNMENT", "IDENTITY_REVIEW"} /\ "CURRICULUM_ASSIGNMENT" \notin holds
  BY DEF EnrollmentRow
<1>2. StatusFor(holds) \in {"NEEDS_REVIEW", "ACTIVE"} /\ (StatusFor(holds) = "NEEDS_REVIEW" <=> holds # {})
  BY DEF StatusFor
<1>3. new = [status |-> StatusFor(holds), holds |-> holds, revision |-> r,
             version |-> row.version + 1, input |-> row.input, source |-> row.source]
  <2>1. row = [status |-> row.status, holds |-> row.holds, revision |-> row.revision,
               version |-> row.version, input |-> row.input, source |-> row.source]
    BY DEF EnrollmentRow
  <2>2. PICK status, old, revision, version, input, source :
            /\ row = [status |-> status, holds |-> old, revision |-> revision,
                      version |-> version, input |-> input, source |-> source]
            /\ version = row.version /\ old = row.holds /\ input = row.input /\ source = row.source
    BY <2>1
  <2>3. new = [[status |-> status, holds |-> old, revision |-> revision,
                version |-> version, input |-> input, source |-> source]
                  EXCEPT !.revision = r, !.holds = holds, !.status = StatusFor(holds),
                         !.version = version + 1]
    BY <2>2 DEF Assigned
  <2>4. QED
    <3> HIDE DEF holds
    <3>1. QED
      BY <2>2, <2>3
<1>4. new \in EnrollmentRow
  <2>1. row.version + 1 \in Nat /\ row.input \in Inputs \cup {None} /\ row.source \in Enrollments \cup {None}
    BY DEF EnrollmentRow
  <2> HIDE DEF new, holds
  <2>2. QED
    BY <1>1, <1>2, <1>3, <2>1 DEF EnrollmentRow
<1>5. r # None
  BY AdministrationAssumption
<1>6. Explained(e, new)
  BY <1>1, <1>2, <1>3, <1>5 DEF Explained
<1>7. QED
  BY <1>3, <1>4, <1>6

LEMMA SourceUpdated ==
  ASSUME NEW old \in EnrollmentRow
  PROVE  LET new == [old EXCEPT !.status = "TRANSITIONED", !.version = @ + 1] IN
         /\ new \in EnrollmentRow /\ new.status = "TRANSITIONED" /\ new.holds = old.holds
         /\ new.revision = old.revision /\ new.input = old.input
<1>1. old.version + 1 \in Nat
  BY DEF EnrollmentRow
<1>2. QED
  BY <1>1 DEF EnrollmentRow

\* One enrollment is given a row, and a decision that explains it.
LEMMA WriteKeeps ==
  ASSUME RowsTyped, RowsExplained, NEW e \in Enrollments, NEW row \in EnrollmentRow,
         Explained(e, row), NEW x \in DecisionRow, row.revision = x.revision,
         enrollments' = [enrollments EXCEPT ![e] = row],
         decisions' = [decisions EXCEPT ![e] = Append(@, x)],
         UNCHANGED <<facts, authorizations>>
  PROVE  RowsTyped' /\ RowsExplained'
<1>1. /\ Append(decisions[e], x) \in Seq(DecisionRow) /\ Append(decisions[e], x) # <<>>
      /\ Last(Append(decisions[e], x)) = x
  BY Appended DEF RowsTyped
<1>2. RowsTyped'
  BY <1>1 DEF RowsTyped
<1>3. enrollments'[e] = row /\ decisions'[e] = Append(decisions[e], x)
  BY DEF RowsTyped
<1>4. \A o \in Enrollments \ {e} : enrollments'[o] = enrollments[o] /\ decisions'[o] = decisions[o]
  BY DEF RowsTyped
<1>5. ASSUME NEW o \in Enrollments
      PROVE  /\ Explained(o, enrollments'[o])
             /\ enrollments'[o].status # "NONE" => /\ decisions'[o] # <<>>
                                                   /\ enrollments'[o].revision = Last(decisions'[o]).revision
  <2>1. CASE o = e
    BY <1>1, <1>3, <2>1
  <2>2. CASE o # e
    BY <1>4, <2>2 DEF RowsExplained, Exists
  <2>3. QED
    BY <2>1, <2>2
<1>6. RowsExplained'
  BY <1>5 DEF RowsExplained, Exists
<1>7. QED
  BY <1>2, <1>6

LEMMA SettleKeeps ==
  ASSUME AdminInv, NEW a \in Admins, Settle(a)
  PROVE  EnrollingInv'
<1> USE DEF AdminInv, EnrollingInv
<1>1. /\ work[a].op = "resolve" /\ work[a].step = "entered" /\ Answer(work[a])
      /\ work[a].decision.status = "RESOLVED" /\ work[a].decision.revision \in Revisions
  BY DEF Settle, ScopeHeld, ScopeHeldBy, Answer
<1>2. PICK e \in Enrollments, r \in Revisions, old \in EnrollmentRow :
          /\ e = work[a].enrollment /\ r = work[a].decision.revision /\ old = work[a].row
          /\ Explained(e, old) /\ old.status = "NEEDS_REVIEW"
  BY <1>1 DEF Requests, Informed
<1>3. PICK x \in DecisionRow : x = Evaluated(work[a].decision) /\ x.revision = r
  BY <1>1, <1>2, EvaluatedFits
<1>4. PICK row : row = [Assigned(old, r) EXCEPT !.version = enrollments[e].version + 1]
  OBVIOUS
<1>5. row \in EnrollmentRow /\ Explained(e, row) /\ row.revision = r
  <2>1. PICK new \in EnrollmentRow : new = Assigned(old, r) /\ Explained(e, new) /\ new.revision = r
    BY <1>2, AssignedFits
  <2>2. enrollments[e].version + 1 \in Nat
    BY DEF RowsTyped, EnrollmentRow
  <2>3. row = [new EXCEPT !.version = enrollments[e].version + 1]
    BY <1>4, <2>1
  <2>4. QED
    BY <2>1, <2>2, <2>3 DEF EnrollmentRow, Explained
<1>6. /\ enrollments' = [enrollments EXCEPT ![e] = row]
      /\ decisions' = [decisions EXCEPT ![e] = Append(@, x)]
      /\ UNCHANGED <<facts, authorizations>> /\ Done(a) /\ Leave(a) /\ ~SourceLocked(e)
  BY <1>2, <1>3, <1>4 DEF Settle
<1>7. RowsTyped' /\ RowsExplained'
  BY <1>3, <1>5, <1>6, WriteKeeps
<1>8. Requests' /\ work'[a] = NoWork /\ \A b \in Admins \ {a} : work'[b] = work[b]
  BY <1>6, RequestChanged, NoWorkFits DEF Done
<1>9. \A o \in Enrollments : \A b \in Admins \ {a} :
          work[b].step = "entered" /\ work[b].source = o => enrollments'[o].status = enrollments[o].status
  BY <1>6 DEF SourceLocked, RowsTyped
<1>10. ScopeHeld' /\ SourceHeld'
  BY <1>6, <1>8, <1>9, NoWorkFits, OthersKept, NotEntered DEF ScopeStep
<1>11. QED
  BY <1>7, <1>8, <1>10

LEMMA OverrideKeeps ==
  ASSUME AdminInv, NEW a \in Admins, Override(a)
  PROVE  EnrollingInv'
<1> USE DEF AdminInv, EnrollingInv
<1>1. PICK e \in Enrollments, z \in Authorizations :
          e = work[a].enrollment /\ z = work[a].authorization
  BY DEF Override, Requests, Informed
<1>2. PICK r \in Revisions : r = authorizations[z].revision
  BY <1>1 DEF Override, Requests, RowsTyped
<1>3. CASE enrollments[e].version = work[a].row.version /\ AwaitsCurriculum(enrollments[e])
  <2>1. PICK old \in EnrollmentRow : old = enrollments[e] /\ Explained(e, old) /\ old.status = "NEEDS_REVIEW"
    BY <1>3 DEF RowsTyped, RowsExplained, AwaitsCurriculum
  <2>2. PICK row \in EnrollmentRow : row = Assigned(old, r) /\ Explained(e, row) /\ row.revision = r
    BY <2>1, AssignedFits
  <2>3. PICK x \in DecisionRow : x = Decision("ADMIN_OVERRIDE", r, None, None, z) /\ x.revision = r
    <3>1. /\ Decision("ADMIN_OVERRIDE", r, None, None, z) \in DecisionRow
          /\ Decision("ADMIN_OVERRIDE", r, None, None, z).revision = r
      BY DEF Decision, DecisionRow
    <3>2. QED
      BY <3>1
  <2>4. /\ enrollments' = [enrollments EXCEPT ![e] = row]
        /\ decisions' = [decisions EXCEPT ![e] = Append(@, x)]
        /\ UNCHANGED <<facts, authorizations>> /\ Done(a) /\ UNCHANGED policyVars /\ ~SourceLocked(e)
    BY <1>1, <1>2, <1>3, <2>1, <2>2, <2>3 DEF Override
  <2>5. RowsTyped' /\ RowsExplained'
    BY <2>2, <2>3, <2>4, WriteKeeps
  <2>6. Requests' /\ work'[a] = NoWork /\ \A b \in Admins \ {a} : work'[b] = work[b]
    BY <2>4, RequestChanged, NoWorkFits DEF Done
  <2>7. \A o \in Enrollments : \A b \in Admins \ {a} :
            work[b].step = "entered" /\ work[b].source = o => enrollments'[o].status = enrollments[o].status
    BY <2>4 DEF SourceLocked, RowsTyped
  <2>8. ScopeHeld' /\ SourceHeld'
    BY <2>4, <2>6, <2>7, NoWorkFits, OthersKept, NotEntered DEF ScopeStep
  <2>9. QED
    BY <2>5, <2>6, <2>8
<1>4. CASE ~(enrollments[e].version = work[a].row.version /\ AwaitsCurriculum(enrollments[e]))
  <2>1. Done(a) /\ UNCHANGED policyVars /\ UNCHANGED <<enrollments, decisions, facts, authorizations>>
    BY <1>1, <1>4 DEF Override
  <2>2. QED
    BY <2>1, GivingUpKeeps DEF ScopeStep
<1>5. QED
  BY <1>3, <1>4

\* A new enrollment waits for a curriculum exactly if the policies chose none.
LEMMA NewEnrollmentFits ==
  ASSUME NEW w, Answer(w), w.enrollment \in Enrollments, w.source \in Enrollments \cup {None},
         NEW known \in BOOLEAN
  PROVE  LET row == NewEnrollment(w.decision, known, w.source) IN
         /\ row \in EnrollmentRow /\ Explained(w.enrollment, row)
         /\ row.revision = w.decision.revision /\ row.input = w.decision.found.input
<1> DEFINE row == NewEnrollment(w.decision, known, w.source)
           d == w.decision
<1>1. PICK holds \in SUBSET {"CURRICULUM_ASSIGNMENT", "IDENTITY_REVIEW"} :
          /\ holds = (IF d.status = "RESOLVED" THEN {} ELSE {"CURRICULUM_ASSIGNMENT"})
                         \cup (IF known THEN {} ELSE {"IDENTITY_REVIEW"})
          /\ "CURRICULUM_ASSIGNMENT" \in holds <=> d.status # "RESOLVED"
  <2> DEFINE holds == (IF d.status = "RESOLVED" THEN {} ELSE {"CURRICULUM_ASSIGNMENT"})
                         \cup (IF known THEN {} ELSE {"IDENTITY_REVIEW"})
  <2>1. holds \in SUBSET {"CURRICULUM_ASSIGNMENT", "IDENTITY_REVIEW"}
    OBVIOUS
  <2>2. "CURRICULUM_ASSIGNMENT" \in holds <=> d.status # "RESOLVED"
    OBVIOUS
  <2>3. QED
    BY <2>1, <2>2
<1>2. row = [status |-> StatusFor(holds), holds |-> holds, revision |-> d.revision, version |-> 1,
             input |-> d.found.input, source |-> w.source]
  BY <1>1 DEF NewEnrollment
<1>3. /\ d.revision \in Revisions \cup {None} /\ (d.status # "RESOLVED" <=> d.revision = None)
      /\ d.found.input \in Inputs /\ d.found.input.context = ContextOf[w.enrollment]
  BY AdministrationAssumption DEF Answer
<1>4. StatusFor(holds) \in {"NEEDS_REVIEW", "ACTIVE"} /\ (StatusFor(holds) = "NEEDS_REVIEW" <=> holds # {})
  BY DEF StatusFor
<1> HIDE DEF row
<1>5. row \in EnrollmentRow
  BY <1>2, <1>3, <1>4 DEF EnrollmentRow
<1>6. Explained(w.enrollment, row)
  BY <1>1, <1>2, <1>3, <1>4 DEF Explained
<1>7. row.revision = d.revision /\ row.input = d.found.input
  BY <1>2
<1>8. QED
  BY <1>5, <1>6, <1>7 DEF row

LEMMA CreateKeeps ==
  ASSUME AdminInv, NEW a \in Admins, NEW known \in BOOLEAN, Create(a, known)
  PROVE  EnrollingInv'
<1> USE DEF AdminInv, EnrollingInv
<1>1. /\ work[a].op = "create" /\ work[a].step = "entered" /\ Answer(work[a])
      /\ work[a].enrollment \in Enrollments /\ work[a].source \in Enrollments \cup {None}
      /\ Done(a) /\ Leave(a) /\ UNCHANGED <<facts, authorizations>>
  BY DEF Create, ScopeHeld, ScopeHeldBy, Requests, Informed
<1>2. PICK e \in Enrollments, source \in Enrollments \cup {None} :
          e = work[a].enrollment /\ source = work[a].source
  BY <1>1
<1>3. Requests' /\ work'[a] = NoWork /\ \A b \in Admins \ {a} : work'[b] = work[b]
  BY <1>1, RequestChanged, NoWorkFits DEF Done
<1>4. CASE Clashes(work[a])
  BY <1>1, <1>4, GivingUpKeeps DEF Create, ScopeStep
<1>5. CASE ~Clashes(work[a])
  <2> DEFINE moves == source # None /\ ContextOf[e] = "PLAN_TRANSITION"
  <2>1. PICK row \in EnrollmentRow :
            /\ row = NewEnrollment(work[a].decision, known, source) /\ Explained(e, row)
            /\ row.revision = work[a].decision.revision
    BY <1>1, <1>2, NewEnrollmentFits
  <2>2. PICK x \in DecisionRow : x = Evaluated(work[a].decision) /\ x.revision = row.revision
    BY <1>1, <2>1, EvaluatedFits
  <2>3. ~Exists(e)
    BY <1>2, <1>5 DEF Clashes, Moved, Enrolled
  <2>4. ASSUME moves
        PROVE  /\ source \in Enrollments /\ source # e /\ enrollments[source].status = "ACTIVE"
               /\ \A b \in Admins \ {a} : work[b].step = "entered" => work[b].source # source
    BY <1>1, <1>2, <2>3, <2>4 DEF SourceHeld, SourceHeldBy, Exists
  <2> DEFINE after(o) ==
          CASE o = work[a].enrollment -> NewEnrollment(work[a].decision, known, work[a].source)
            [] o = work[a].source /\ ContextOf[work[a].enrollment] = "PLAN_TRANSITION" ->
                   [enrollments[o] EXCEPT !.status = "TRANSITIONED", !.version = @ + 1]
            [] OTHER -> enrollments[o]
  <2>5. /\ decisions' = [decisions EXCEPT ![e] = Append(@, x)]
        /\ enrollments' = [o \in Enrollments |-> after(o)]
    BY <1>2, <1>5, <2>2 DEF Create
  <2>6. /\ enrollments'[e] = row
        /\ \A o \in Enrollments \ {e} : ~(moves /\ o = source) => enrollments'[o] = enrollments[o]
        /\ moves => enrollments'[source] =
                        [enrollments[source] EXCEPT !.status = "TRANSITIONED", !.version = @ + 1]
    <3>1. enrollments'[e] = row
      <4>1. enrollments'[e] = after(e)
        <5> HIDE DEF after
        <5>1. QED
          BY <2>5
      <4>2. after(e) = NewEnrollment(work[a].decision, known, work[a].source)
        <5>1. ~(e = work[a].source /\ ContextOf[work[a].enrollment] = "PLAN_TRANSITION")
          BY <1>2, <2>4, AdministrationAssumption
        <5>2. QED
          BY <1>2, <5>1
      <4>3. QED
        BY <1>2, <2>1, <4>1, <4>2
    <3>2. ASSUME NEW o \in Enrollments \ {e}, ~(moves /\ o = source)
          PROVE  enrollments'[o] = enrollments[o]
      <4>1. ~(o = work[a].source /\ ContextOf[work[a].enrollment] = "PLAN_TRANSITION")
        BY <1>2, <3>2, AdministrationAssumption
      <4>2. QED
        BY <1>2, <2>5, <4>1
    <3>3. ASSUME moves
          PROVE  enrollments'[source] =
                     [enrollments[source] EXCEPT !.status = "TRANSITIONED", !.version = @ + 1]
      BY <1>2, <2>4, <2>5, <3>3
    <3>4. QED
      BY <3>1, <3>2, <3>3
  <2> HIDE DEF after
  <2>7. /\ decisions'[e] = Append(decisions[e], x) /\ decisions'[e] \in Seq(DecisionRow)
        /\ decisions'[e] # <<>> /\ Last(decisions'[e]) = x
        /\ \A o \in Enrollments \ {e} : decisions'[o] = decisions[o]
    BY Z3, <2>5, Appended DEF RowsTyped
  <2>8. ASSUME moves
        PROVE  /\ enrollments'[source] \in EnrollmentRow /\ Explained(source, enrollments'[source])
               /\ enrollments'[source].revision = enrollments[source].revision
    <3>1. PICK old \in EnrollmentRow : old = enrollments[source] /\ Explained(source, old) /\ old.status = "ACTIVE"
      BY <2>4, <2>8 DEF RowsTyped, RowsExplained
    <3>2. enrollments'[source] = [old EXCEPT !.status = "TRANSITIONED", !.version = @ + 1]
      BY <2>6, <2>8, <3>1
    <3>3. /\ enrollments'[source] \in EnrollmentRow
          /\ enrollments'[source].status = "TRANSITIONED" /\ enrollments'[source].holds = old.holds
          /\ enrollments'[source].revision = old.revision /\ enrollments'[source].input = old.input
      BY <3>2, SourceUpdated
    <3>4. QED
      BY <3>1, <3>3 DEF Explained
  <2>9. RowsTyped'
    <3>1. \A o \in Enrollments : enrollments'[o] \in EnrollmentRow
      <4> SUFFICES ASSUME NEW o \in Enrollments PROVE enrollments'[o] \in EnrollmentRow
        OBVIOUS
      <4>1. CASE o = e
        BY <2>6, <4>1
      <4>2. CASE moves /\ o = source
        BY <2>8, <4>2
      <4>3. CASE o # e /\ ~(moves /\ o = source)
        BY <2>6, <4>3 DEF RowsTyped
      <4>4. QED
        BY <4>1, <4>2, <4>3
    <3>2. enrollments' = [o \in Enrollments |-> enrollments'[o]]
      BY <2>5
    <3>3. decisions' \in [Enrollments -> Seq(DecisionRow)]
      BY <2>5, <2>7 DEF RowsTyped
    <3>4. QED
      BY <1>1, <3>1, <3>2, <3>3 DEF RowsTyped
  <2>10. RowsExplained'
    <3> SUFFICES ASSUME NEW o \in Enrollments
                 PROVE  /\ Explained(o, enrollments'[o])
                        /\ enrollments'[o].status # "NONE" =>
                               /\ decisions'[o] # <<>>
                               /\ enrollments'[o].revision = Last(decisions'[o]).revision
      BY DEF RowsExplained, Exists
    <3>1. CASE o = e
      BY <2>1, <2>2, <2>6, <2>7, <3>1
    <3>2. CASE moves /\ o = source
      BY <2>4, <2>7, <2>8, <3>2 DEF RowsExplained, Exists
    <3>3. CASE o # e /\ ~(moves /\ o = source)
      BY <2>6, <2>7, <3>3 DEF RowsExplained, Exists
    <3>4. QED
      BY <3>1, <3>2, <3>3
  <2>11. \A o \in Enrollments : \A b \in Admins \ {a} :
             /\ work[b].step = "entered" /\ work[b].source = o
             /\ ContextOf[work[b].enrollment] = "PLAN_TRANSITION"
             => enrollments'[o].status = enrollments[o].status
    <3> SUFFICES ASSUME NEW o \in Enrollments, NEW b \in Admins \ {a}, work[b].step = "entered",
                        work[b].source = o, ContextOf[work[b].enrollment] = "PLAN_TRANSITION"
                 PROVE  enrollments'[o].status = enrollments[o].status
      OBVIOUS
    <3>1. o # None /\ enrollments[o].status = "ACTIVE"
      BY AdministrationAssumption DEF SourceHeld, SourceHeldBy
    <3>2. o # e
      BY <2>3, <3>1 DEF Exists
    <3>3. ~(moves /\ o = source)
      BY <2>4
    <3>4. QED
      BY <2>6, <3>2, <3>3
  <2>12. ScopeHeld' /\ SourceHeld'
    BY <1>1, <1>3, <2>11, NoWorkFits, OthersKept, NotEntered DEF ScopeStep
  <2>13. QED
    BY <1>3, <2>9, <2>10, <2>12
<1>6. QED
  BY <1>4, <1>5

LEMMA PrepareOverrideKeeps ==
  ASSUME AdminInv, NEW a \in Admins, NEW z \in Authorizations, NEW e \in Enrollments,
         NEW r \in Revisions, PrepareOverride(a, z, e, r)
  PROVE  EnrollingInv'
<1> USE DEF AdminInv, EnrollingInv
<1>1. /\ UNCHANGED <<enrollments, decisions, facts, work>> /\ UNCHANGED policyVars
      /\ authorizations' \in [Authorizations -> AuthorizationRow]
      /\ \A y \in Authorizations : y # z => authorizations'[y] = authorizations[y]
      /\ authorizations'[z].status # "NONE"
      /\ authorizations'[z].revision \in Revisions /\ authorizations'[z].enrollment \in Enrollments
  BY DEF PrepareOverride, RowsTyped, AuthorizationRow
<1>2. ScopeHeld' /\ SourceHeld'
  BY <1>1, AllKept DEF policyVars
<1>3. RowsTyped' /\ RowsExplained'
  <2>1. \A y \in Authorizations : authorizations'[y].status # "NONE" =>
            authorizations'[y].revision \in Revisions /\ authorizations'[y].enrollment \in Enrollments
    BY <1>1 DEF RowsTyped
  <2>2. QED
    BY <1>1, <2>1 DEF RowsTyped, RowsExplained, Exists, Last
<1>4. Requests'
  <2>1. \A b \in Admins : work[b].op = "override" => authorizations'[work[b].authorization].status # "NONE"
    BY <1>1 DEF Requests, Informed
  <2>2. QED
    BY <1>1, <2>1 DEF Requests
<1>5. QED
  BY <1>2, <1>3, <1>4

LEMMA ApproveOverrideKeeps ==
  ASSUME AdminInv, NEW a \in Admins, NEW z \in Authorizations, ApproveOverride(a, z)
  PROVE  EnrollingInv'
<1> USE DEF AdminInv, EnrollingInv
<1>1. /\ UNCHANGED <<enrollments, decisions, facts, work>> /\ UNCHANGED policyVars
      /\ authorizations' \in [Authorizations -> AuthorizationRow]
      /\ \A y \in Authorizations : y # z => authorizations'[y] = authorizations[y]
      /\ authorizations'[z].status # "NONE"
      /\ authorizations'[z].revision \in Revisions /\ authorizations'[z].enrollment \in Enrollments
  <2>1. /\ UNCHANGED <<enrollments, decisions, facts, work>> /\ UNCHANGED policyVars
        /\ authorizations' = [authorizations EXCEPT ![z].status = "APPROVED", ![z].approver = a]
        /\ authorizations[z].status = "DRAFT"
    BY DEF ApproveOverride
  <2>2. /\ authorizations \in [Authorizations -> AuthorizationRow]
        /\ authorizations[z].revision \in Revisions /\ authorizations[z].enrollment \in Enrollments
    BY <2>1 DEF RowsTyped
  <2>3. /\ authorizations[z] \in AuthorizationRow
        /\ authorizations'[z] = [authorizations[z] EXCEPT !.status = "APPROVED", !.approver = a]
    BY <2>1, <2>2
  <2>4. /\ authorizations'[z] \in AuthorizationRow /\ authorizations'[z].status = "APPROVED"
        /\ authorizations'[z].revision = authorizations[z].revision
        /\ authorizations'[z].enrollment = authorizations[z].enrollment
    BY <2>3 DEF AuthorizationRow
  <2>5. QED
    BY <2>1, <2>2, <2>4
<1>2. ScopeHeld' /\ SourceHeld'
  BY <1>1, AllKept DEF policyVars
<1>3. RowsTyped' /\ RowsExplained'
  <2>1. \A y \in Authorizations : authorizations'[y].status # "NONE" =>
            authorizations'[y].revision \in Revisions /\ authorizations'[y].enrollment \in Enrollments
    BY <1>1 DEF RowsTyped
  <2>2. QED
    BY <1>1, <2>1 DEF RowsTyped, RowsExplained, Exists, Last
<1>4. Requests'
  <2>1. \A b \in Admins : work[b].op = "override" => authorizations'[work[b].authorization].status # "NONE"
    BY <1>1 DEF Requests, Informed
  <2>2. QED
    BY <1>1, <2>1 DEF Requests
<1>5. QED
  BY <1>2, <1>3, <1>4

LEMMA ConfirmIdentityKeeps ==
  ASSUME AdminInv, NEW student \in {StudentOf[e] : e \in Enrollments}, ConfirmIdentity(student)
  PROVE  EnrollingInv'
<1> USE DEF AdminInv, EnrollingInv
<1>1. UNCHANGED <<decisions, facts, authorizations, work>> /\ UNCHANGED policyVars
  BY DEF ConfirmIdentity
<1>2. ASSUME NEW e \in Enrollments
      PROVE  /\ enrollments'[e] \in EnrollmentRow /\ Explained(e, enrollments'[e])
             /\ enrollments'[e].revision = enrollments[e].revision
             /\ enrollments'[e].status # "NONE" => enrollments[e].status # "NONE"
             /\ SourceLocked(e) => enrollments'[e].status = enrollments[e].status
  <2>1. PICK old \in EnrollmentRow : old = enrollments[e] /\ Explained(e, old)
    BY DEF RowsTyped, RowsExplained
  <2>2. CASE ~(StudentOf[e] = student /\ "IDENTITY_REVIEW" \in old.holds)
    BY <2>1, <2>2 DEF ConfirmIdentity
  <2>3. CASE StudentOf[e] = student /\ "IDENTITY_REVIEW" \in old.holds
    <3>1. PICK holds \in SUBSET {"CURRICULUM_ASSIGNMENT", "IDENTITY_REVIEW"} :
              /\ holds = old.holds \ {"IDENTITY_REVIEW"}
              /\ "CURRICULUM_ASSIGNMENT" \in holds <=> "CURRICULUM_ASSIGNMENT" \in old.holds
      <4> DEFINE holds == old.holds \ {"IDENTITY_REVIEW"}
      <4>1. holds \in SUBSET {"CURRICULUM_ASSIGNMENT", "IDENTITY_REVIEW"}
        BY DEF EnrollmentRow
      <4>2. "CURRICULUM_ASSIGNMENT" \in holds <=> "CURRICULUM_ASSIGNMENT" \in old.holds
        OBVIOUS
      <4>3. QED
        BY <4>1, <4>2
    <3>2. StatusFor(holds) \in {"NEEDS_REVIEW", "ACTIVE"} /\ (StatusFor(holds) = "NEEDS_REVIEW" <=> holds # {})
      BY DEF StatusFor
    <3>3. enrollments'[e] = [old EXCEPT !.holds = holds, !.status = StatusFor(holds), !.version = @ + 1]
      BY <2>1, <2>3, <3>1 DEF ConfirmIdentity
    <3>4. /\ enrollments'[e] \in EnrollmentRow
          /\ enrollments'[e].status = StatusFor(holds) /\ enrollments'[e].holds = holds
          /\ enrollments'[e].revision = old.revision /\ enrollments'[e].input = old.input
      <4>1. PICK status \in {"NEEDS_REVIEW", "ACTIVE"} : status = StatusFor(holds)
        BY <3>2
      <4>2. enrollments'[e] = [old EXCEPT !.holds = holds, !.status = status, !.version = @ + 1]
        BY <3>3, <4>1
      <4>3. /\ enrollments'[e] \in EnrollmentRow
            /\ enrollments'[e].status = status /\ enrollments'[e].holds = holds
            /\ enrollments'[e].revision = old.revision /\ enrollments'[e].input = old.input
        <5>1. old.version + 1 \in Nat
          BY DEF EnrollmentRow
        <5>2. holds \in SUBSET {"CURRICULUM_ASSIGNMENT", "IDENTITY_REVIEW"}
          BY <3>1
        <5>3. QED
          BY <4>2, <5>1, <5>2 DEF EnrollmentRow
      <4>4. QED
        BY <4>1, <4>3
    <3>5. old.status = "NEEDS_REVIEW"
      BY <2>1, <2>3 DEF Explained
    <3>6. ~SourceLocked(e)
      BY <2>3 DEF ConfirmIdentity
    <3>7. QED
      BY <2>1, <3>1, <3>2, <3>4, <3>5, <3>6 DEF Explained
  <2>4. QED
    BY <2>2, <2>3
<1>3. ScopeHeld' /\ SourceHeld'
  BY <1>1, <1>2, AllKept DEF policyVars
<1>4. RowsTyped'
  <2>1. enrollments' = [e \in Enrollments |-> enrollments'[e]]
    BY DEF ConfirmIdentity
  <2>2. QED
    BY <1>1, <1>2, <2>1 DEF RowsTyped
<1>5. RowsExplained'
  BY <1>1, <1>2 DEF RowsExplained, Exists, Last
<1>6. Requests'
  BY <1>1 DEF Requests
<1>7. QED
  BY <1>3, <1>4, <1>5, <1>6

LEMMA AdminInvStep == AdminInv /\ [Next]_vars => AdminInv'
<1> SUFFICES ASSUME AdminInv, [Next]_vars PROVE AdminInv'
  OBVIOUS
<1>1. PolicyInv'
  <2>1. [PolicyNext]_policyVars
    BY StepIsPolicyStep DEF AdminInv, EnrollingInv
  <2>2. QED
    BY <2>1, PolicyInvStep DEF AdminInv
<1>2. ASSUME Governance
      PROVE  EnrollingInv'
  BY <1>2, GovernanceKeeps
<1>3. ASSUME \E f \in Facts : VerifyFact(f)
      PROVE  EnrollingInv'
  BY <1>3, VerifyFactKeeps
<1>4. ASSUME \E a \in Admins, e \in Enrollments, source \in Enrollments \cup {None}, blind \in BOOLEAN :
               Preview(a, e, source, blind)
      PROVE  EnrollingInv'
  BY <1>4, PreviewKeeps
<1>5. ASSUME \E a \in Admins : Enter(a)
      PROVE  EnrollingInv'
  BY <1>5, EnterKeeps
<1>6. ASSUME \E a \in Admins, known \in BOOLEAN : Create(a, known)
      PROVE  EnrollingInv'
  BY <1>6, CreateKeeps
<1>7. ASSUME \E a \in Admins : Reevaluate(a)
      PROVE  EnrollingInv'
  BY <1>7, ReevaluateKeeps
<1>8. ASSUME \E a \in Admins : Settle(a)
      PROVE  EnrollingInv'
  BY <1>8, SettleKeeps
<1>9. ASSUME \E a \in Admins, e \in Enrollments : ReadPending(a, e)
      PROVE  EnrollingInv'
  BY <1>9, ReadPendingKeeps
<1>10. ASSUME \E a \in Admins, z \in Authorizations, e \in Enrollments, r \in Revisions :
               PrepareOverride(a, z, e, r)
       PROVE  EnrollingInv'
  BY <1>10, PrepareOverrideKeeps
<1>11. ASSUME \E a \in Admins, z \in Authorizations : ApproveOverride(a, z)
       PROVE  EnrollingInv'
  BY <1>11, ApproveOverrideKeeps
<1>12. ASSUME \E a \in Admins, z \in Authorizations : OpenOverride(a, z)
       PROVE  EnrollingInv'
  BY <1>12, OpenOverrideKeeps
<1>13. ASSUME \E a \in Admins : Override(a)
       PROVE  EnrollingInv'
  BY <1>13, OverrideKeeps
<1>14. ASSUME \E a \in Admins : GiveUp(a)
       PROVE  EnrollingInv'
  BY <1>14, GivingUpKeeps DEF GiveUp, ScopeStep
<1>15. ASSUME \E student \in {StudentOf[e] : e \in Enrollments} : ConfirmIdentity(student)
       PROVE  EnrollingInv'
  BY <1>15, ConfirmIdentityKeeps
<1>16. ASSUME UNCHANGED vars
       PROVE  EnrollingInv'
  <2>1. /\ UNCHANGED <<enrollments, decisions, facts, authorizations>> /\ work' = work
        /\ UNCHANGED policyVars
    BY <1>16 DEF vars, adminVars
  <2>2. ScopeHeld' /\ SourceHeld'
    BY <2>1, AllKept DEF policyVars
  <2>3. RowsTyped' /\ RowsExplained'
    <3>1. facts' \subseteq Facts
      BY <2>1 DEF AdminInv, EnrollingInv, RowsTyped
    <3>2. QED
      BY <2>1, <3>1, RowsKept DEF AdminInv, EnrollingInv
  <2>4. Requests'
    BY <2>1 DEF AdminInv, EnrollingInv, Requests
  <2>5. QED
    BY <2>2, <2>3, <2>4 DEF EnrollingInv
<1>17. QED
  BY <1>1, <1>2, <1>3, <1>4, <1>5, <1>6, <1>7, <1>8, <1>9, <1>10, <1>11, <1>12, <1>13, <1>14,
     <1>15, <1>16 DEF Next, Enrolling, AdminInv

LEMMA AdminInvAlways == Spec => []AdminInv
BY InitHolds, AdminInvStep, PTL DEF Spec

-----------------------------------------------------------------------------
(* Theorems.                                                               *)

\* Every row, decision, record, authorization and request is well typed, and an
\* enrollment needs review exactly while it has a hold.
THEOREM TypeCorrect == Spec => []TypeOK
<1>1. AdminInv => TypeOK
  <2> SUFFICES ASSUME AdminInv PROVE TypeOK
    OBVIOUS
  <2> USE DEF AdminInv, EnrollingInv
  <2>1. PolicyTypeOK
    BY DEF PolicyInv
  <2>2. ASSUME NEW e \in Enrollments
        PROVE  /\ enrollments[e].status \in {"NONE", "NEEDS_REVIEW", "ACTIVE"} \cup Historical
               /\ enrollments[e].holds \subseteq {"CURRICULUM_ASSIGNMENT", "IDENTITY_REVIEW"}
               /\ enrollments[e].revision \in Revisions \cup {None}
               /\ enrollments[e].status = "NEEDS_REVIEW" <=> enrollments[e].holds # {}
    BY DEF RowsTyped, EnrollmentRow, RowsExplained, Explained, Historical
  <2>3. ASSUME NEW e \in Enrollments, NEW i \in DOMAIN decisions[e]
        PROVE  decisions[e][i].fact \in Facts \cup {None} /\ decisions[e][i].policy \in Policies \cup {None}
    <3>1. decisions[e][i] \in DecisionRow
      BY DEF RowsTyped
    <3>2. QED
      BY <3>1 DEF DecisionRow
  <2>4. \A z \in Authorizations : authorizations[z].status \in {"NONE", "DRAFT", "APPROVED"}
    BY DEF RowsTyped, AuthorizationRow
  <2>5. facts \subseteq Facts /\ \A a \in Admins : work[a].step \in {"idle", "seen", "entered"}
    BY DEF RowsTyped, Requests, IsWork
  <2>6. QED
    BY <2>1, <2>2, <2>3, <2>4, <2>5 DEF TypeOK
<1>2. QED
  BY <1>1, AdminInvAlways, PTL

\* The trail of decisions explains every enrollment: its revision is the one the
\* latest decision selected, and it waits for a curriculum while none did.
THEOREM RowsAreExplained == Spec => []DecisionsExplainTheRow
<1>1. AdminInv => DecisionsExplainTheRow
  BY DEF AdminInv, EnrollingInv, RowsExplained, Explained, DecisionsExplainTheRow, Exists
<1>2. QED
  BY <1>1, AdminInvAlways, PTL

\* Seen from the policies, enrolling is taking and leaving the lock of a scope.
THEOREM EnrollingObeysPolicies == Spec => PolicySpec
<1>1. Init => PolicyInit
  BY DEF Init
<1>2. AdminInv /\ [Next]_vars => [PolicyNext]_policyVars
  BY StepIsPolicyStep DEF AdminInv, EnrollingInv
<1>3. QED
  BY <1>1, <1>2, AdminInvAlways, PTL DEF Spec, PolicySpec

\* No admission meets two policies of equal standing while requests and editors
\* work at once.
THEOREM AdmissionsHaveOneAnswer == Spec => []OnePolicyDecides
BY EnrollingObeysPolicies, DecisionUnique, PTL

\* An automatic decision commits what the policies in force decide at that very
\* step: the lock of the scope keeps the answer true from the question to the commit.
THEOREM RulesInForce == Spec => DecidedByTheRulesInForce
<1> DEFINE Decided == \A e \in Enrollments :
        Len(decisions'[e]) > Len(decisions[e]) /\ Last(decisions'[e]).method = "AUTOMATIC"
            => Deciding(enrollments'[e].input) = {Last(decisions'[e]).policy}
<1>1. ASSUME AdminInv, [Next]_vars PROVE [Decided]_vars
  <2> SUFFICES ASSUME NEW e \in Enrollments, Len(decisions'[e]) > Len(decisions[e]),
                      Last(decisions'[e]).method = "AUTOMATIC", Next
               PROVE  Deciding(enrollments'[e].input) = {Last(decisions'[e]).policy}
    BY <1>1
  <2> USE <1>1 DEF AdminInv, EnrollingInv
  <2>1. Len(decisions[e]) \in Nat /\ decisions'[e] # decisions[e]
    BY DEF RowsTyped
  <2>2. ASSUME NEW a \in Admins, work[a].step = "entered", e = work[a].enrollment,
               decisions' = [decisions EXCEPT ![e] = Append(@, Evaluated(work[a].decision))],
               enrollments'[e].input = work[a].decision.found.input
        PROVE  Deciding(enrollments'[e].input) = {Last(decisions'[e]).policy}
    <3>1. /\ Answer(work[a])
          /\ work[a].decision.status = "RESOLVED" =>
                 Deciding(work[a].decision.found.input) = {work[a].decision.policy}
      BY <2>2 DEF ScopeHeld, ScopeHeldBy
    <3>2. Last(decisions'[e]) = Evaluated(work[a].decision)
      <4>1. Evaluated(work[a].decision) \in DecisionRow
        BY <3>1, EvaluatedFits
      <4>2. decisions'[e] = Append(decisions[e], Evaluated(work[a].decision))
        BY <2>2 DEF RowsTyped
      <4>3. QED
        BY <4>1, <4>2, Appended DEF RowsTyped
    <3>3. /\ work[a].decision.status = "RESOLVED"
          /\ Last(decisions'[e]).policy = work[a].decision.policy
      BY <3>2 DEF Evaluated, Decision
    <3>4. QED
      BY <2>2, <3>1, <3>3
  <2>3. ASSUME NEW a \in Admins, NEW known \in BOOLEAN, Create(a, known)
        PROVE  Deciding(enrollments'[e].input) = {Last(decisions'[e]).policy}
    <3>1. /\ work[a].step = "entered" /\ ~Clashes(work[a]) /\ work[a].enrollment \in Enrollments
          /\ work[a].source \in Enrollments \cup {None} /\ work[a].op = "create"
      BY <2>1, <2>3 DEF Create, Requests, Informed
    <3>2. /\ decisions' = [decisions EXCEPT ![work[a].enrollment] = Append(@, Evaluated(work[a].decision))]
          /\ e = work[a].enrollment
      BY <2>1, <2>3, <3>1 DEF Create, RowsTyped
    <3>3. ~(e = work[a].source /\ ContextOf[e] = "PLAN_TRANSITION")
      BY <3>1, <3>2, AdministrationAssumption
         DEF Clashes, Moved, Enrolled, Exists, SourceHeld, SourceHeldBy
    <3>4. enrollments'[e] = NewEnrollment(work[a].decision, known, work[a].source)
      BY <2>3, <3>1, <3>2, <3>3 DEF Create
    <3>5. enrollments'[e].input = work[a].decision.found.input
      BY <3>4 DEF NewEnrollment
    <3>6. QED
      BY <2>2, <3>1, <3>2, <3>5
  <2>4. ASSUME NEW a \in Admins, Settle(a)
        PROVE  Deciding(enrollments'[e].input) = {Last(decisions'[e]).policy}
    <3>1. /\ work[a].step = "entered" /\ work[a].op = "resolve" /\ Answer(work[a])
          /\ work[a].row \in EnrollmentRow /\ work[a].row.status = "NEEDS_REVIEW"
          /\ Explained(work[a].enrollment, work[a].row) /\ work[a].enrollment \in Enrollments
      BY <2>4 DEF Settle, Requests, Informed, ScopeHeld, ScopeHeldBy
    <3>2. /\ decisions' = [decisions EXCEPT ![work[a].enrollment] = Append(@, Evaluated(work[a].decision))]
          /\ e = work[a].enrollment
      BY <2>1, <2>4, <3>1 DEF Settle, RowsTyped
    <3>3. PICK new \in EnrollmentRow :
              new = Assigned(work[a].row, work[a].decision.revision) /\ new.input = work[a].row.input
      BY <3>1, AssignedFits DEF Answer
    <3>4. enrollments'[e] = [new EXCEPT !.version = enrollments[e].version + 1]
      BY <2>4, <3>2, <3>3 DEF Settle, RowsTyped
    <3>5. enrollments'[e].input = work[a].decision.found.input
      BY <3>1, <3>3, <3>4 DEF EnrollmentRow, Answer
    <3>6. QED
      BY <2>2, <3>1, <3>2, <3>5
  <2>5. ASSUME NEW a \in Admins, Override(a)
        PROVE  FALSE
    <3>1. PICK x : /\ x = Decision("ADMIN_OVERRIDE", authorizations[work[a].authorization].revision,
                                   None, None, work[a].authorization)
                   /\ decisions' = [decisions EXCEPT ![work[a].enrollment] = Append(@, x)]
      BY <2>1, <2>5 DEF Override
    <3>2. decisions'[e] = Append(decisions[e], x) /\ x.method = "ADMIN_OVERRIDE"
      BY <2>1, <3>1 DEF RowsTyped, Decision
    <3>3. x \in DecisionRow
      <4>1. /\ work[a].authorization \in Authorizations
            /\ authorizations[work[a].authorization].revision \in Revisions
        BY <2>5 DEF Override, Requests, Informed, RowsTyped
      <4>2. QED
        BY <3>1, <4>1 DEF Decision, DecisionRow
    <3>4. Last(decisions'[e]) = x
      BY <3>2, <3>3, Appended DEF RowsTyped
    <3>5. QED
      BY <3>2, <3>4
  <2>6. CASE Governance
    BY <2>1, <2>6 DEF Governance, adminVars
  <2>7. CASE Enrolling
    BY <2>1, <2>3, <2>4, <2>5, <2>7 DEF Enrolling, VerifyFact, Preview, Enter, Reevaluate, ReadPending,
       PrepareOverride, ApproveOverride, OpenOverride, GiveUp, ConfirmIdentity
  <2>8. QED
    BY <2>6, <2>7 DEF Next
<1>2. QED
  BY <1>1, AdminInvAlways, PTL DEF Spec, DecidedByTheRulesInForce
-----------------------------------------------------------------------------
(* Admission records.  A record backs at most one decision, and a request  *)
(* that holds one (FOR UPDATE) is the only one that can write that it does.*)

Holds(a) == work[a].step = "entered" /\ work[a].decision.status = "RESOLVED"
Held(a) == work[a].decision.found.fact

HolderKnows(a) ==
    Holds(a) => /\ Held(a) # None /\ SubjectOf[Held(a)] = StudentOf[work[a].enrollment]
                /\ \A e \in Enrollments : \A i \in DOMAIN decisions[e] : decisions[e][i].fact # Held(a)

FactsHeld ==
    /\ FactBacksOneDecision
    /\ \A a \in Admins : HolderKnows(a)
    /\ \A a, b \in Admins : Holds(a) /\ Holds(b) /\ Held(a) = Held(b) => a = b

\* A step that enters no scope and decides nothing.
LEMMA FactsKept ==
  ASSUME FactsHeld, decisions' = decisions,
         \A a \in Admins : work'[a].step = "entered" => work'[a] = work[a]
  PROVE  FactsHeld'
<1>1. FactBacksOneDecision'
  BY DEF FactsHeld, FactBacksOneDecision
<1>2. \A a \in Admins : Holds(a)' => Holds(a) /\ work'[a] = work[a]
  BY DEF Holds
<1>3. \A a \in Admins : HolderKnows(a)'
  BY <1>2 DEF FactsHeld, HolderKnows, Held
<1>4. \A a, b \in Admins : Holds(a)' /\ Holds(b)' /\ Held(a)' = Held(b)' => a = b
  BY <1>2 DEF FactsHeld, Held
<1>5. QED
  BY <1>1, <1>3, <1>4 DEF FactsHeld

\* The request that enters has found its record free and unused.
LEMMA FactsEntered ==
  ASSUME FactsHeld, NEW a \in Admins, NEW d, decisions' = decisions,
         d.status = "RESOLVED" => d.found.fact # None /\ FactUsable(work[a].enrollment, d), FactFree(d),
         work'[a].step = "entered", work'[a].decision = d,
         work'[a].enrollment = work[a].enrollment,
         \A b \in Admins \ {a} : work'[b] = work[b]
  PROVE  FactsHeld'
<1>1. FactBacksOneDecision'
  BY DEF FactsHeld, FactBacksOneDecision
<1>2. \A b \in Admins \ {a} : /\ Holds(b)' <=> Holds(b)
                              /\ Held(b)' = Held(b)
  BY DEF Holds, Held
<1>3. \A b \in Admins \ {a} : HolderKnows(b)'
  BY <1>2 DEF FactsHeld, HolderKnows
<1>4. Holds(a)' => /\ Held(a)' = d.found.fact /\ d.found.fact # None
                   /\ SubjectOf[d.found.fact] = StudentOf[work[a].enrollment]
                   /\ d.found.fact \notin Consumed /\ d.found.fact \notin FactsInUse
  BY DEF Holds, Held, FactUsable, FactFree
<1>5. ASSUME d.found.fact \notin Consumed, NEW e \in Enrollments, NEW i \in DOMAIN decisions[e]
      PROVE  decisions[e][i].fact # d.found.fact
  <2>1. decisions[e][i] \in ToSet(decisions[e])
    BY DEF ToSet
  <2>2. decisions[e][i] \in UNION {ToSet(decisions[o]) : o \in Enrollments}
    BY <2>1
  <2>3. QED
    BY <1>5, <2>2 DEF Consumed
<1>6. HolderKnows(a)'
  BY <1>4, <1>5 DEF HolderKnows
<1>7. ASSUME NEW b \in Admins \ {a}, Holds(a)', Holds(b)' PROVE Held(a)' # Held(b)'
  <2>1. Holds(b) /\ Held(b)' = Held(b) /\ d.found.fact \notin FactsInUse
    BY <1>2, <1>4, <1>7
  <2>2. Held(b) \in FactsInUse
    BY <2>1 DEF Holds, Held, FactsInUse
  <2>3. QED
    BY <1>4, <1>7, <2>1, <2>2
<1>8. \A b, c \in Admins : Holds(b)' /\ Holds(c)' /\ Held(b)' = Held(c)' => b = c
  BY <1>2, <1>7 DEF FactsHeld
<1>9. \A b \in Admins : HolderKnows(b)'
  BY <1>3, <1>6
<1>10. QED
  BY <1>1, <1>8, <1>9 DEF FactsHeld

\* A decision is written by the request that holds its record, or without one.
LEMMA FactsWritten ==
  ASSUME RowsTyped, FactsHeld, NEW a \in Admins, NEW e \in Enrollments, NEW x \in DecisionRow,
         decisions' = [decisions EXCEPT ![e] = Append(@, x)],
         x.fact # None => Holds(a) /\ x.fact = Held(a) /\ e = work[a].enrollment,
         work'[a].step # "entered", \A b \in Admins \ {a} : work'[b] = work[b]
  PROVE  FactsHeld'
<1> DEFINE last == Len(decisions[e]) + 1
<1>1. /\ DOMAIN decisions[e] = 1 .. Len(decisions[e]) /\ Len(decisions[e]) \in Nat
      /\ DOMAIN decisions'[e] = DOMAIN decisions[e] \cup {last} /\ last \notin DOMAIN decisions[e]
      /\ decisions'[e][last] = x
      /\ \A i \in DOMAIN decisions[e] : decisions'[e][i] = decisions[e][i]
  <2>1. decisions[e] \in Seq(DecisionRow) /\ decisions'[e] = Append(decisions[e], x)
    BY DEF RowsTyped
  <2>2. QED
    BY <2>1
<1>2. \A o \in Enrollments \ {e} : decisions'[o] = decisions[o]
  BY DEF RowsTyped
<1>3. ASSUME NEW o \in Enrollments, NEW i \in DOMAIN decisions'[o]
      PROVE  \/ i \in DOMAIN decisions[o] /\ decisions'[o][i] = decisions[o][i]
             \/ o = e /\ i = last /\ decisions'[o][i] = x
  BY <1>1, <1>2, <1>3
<1>4. x.fact # None => /\ SubjectOf[x.fact] = StudentOf[e]
                       /\ \A o \in Enrollments : \A i \in DOMAIN decisions[o] : decisions[o][i].fact # x.fact
  BY DEF FactsHeld, HolderKnows
<1>5. FactBacksOneDecision'
  <2> SUFFICES ASSUME NEW o \in Enrollments, NEW p \in Enrollments, NEW i \in DOMAIN decisions'[o],
                      NEW j \in DOMAIN decisions'[p], decisions'[o][i].fact # None
               PROVE  /\ SubjectOf[decisions'[o][i].fact] = StudentOf[o]
                      /\ decisions'[p][j].fact = decisions'[o][i].fact => o = p /\ i = j
    BY DEF FactBacksOneDecision
  <2>1. CASE i \in DOMAIN decisions[o] /\ decisions'[o][i] = decisions[o][i]
    <3>1. CASE j \in DOMAIN decisions[p] /\ decisions'[p][j] = decisions[p][j]
      BY <2>1, <3>1 DEF FactsHeld, FactBacksOneDecision
    <3>2. CASE p = e /\ j = last /\ decisions'[p][j] = x
      BY <1>4, <2>1, <3>2 DEF FactsHeld, FactBacksOneDecision
    <3>3. QED
      BY <1>3, <3>1, <3>2
  <2>2. CASE o = e /\ i = last /\ decisions'[o][i] = x
    <3>1. CASE j \in DOMAIN decisions[p] /\ decisions'[p][j] = decisions[p][j]
      BY <1>4, <2>2, <3>1
    <3>2. CASE p = e /\ j = last /\ decisions'[p][j] = x
      BY <1>4, <2>2, <3>2
    <3>3. QED
      BY <1>3, <3>1, <3>2
  <2>3. QED
    BY <1>3, <2>1, <2>2
<1>6. \A b \in Admins : Holds(b)' => b # a /\ Holds(b) /\ work'[b] = work[b]
  BY DEF Holds
<1>7. ASSUME NEW b \in Admins, Holds(b)' PROVE HolderKnows(b)'
  <2>1. b # a /\ Holds(b) /\ work'[b] = work[b]
    BY <1>6, <1>7
  <2>2. HolderKnows(b) /\ Held(b)' = Held(b)
    BY <2>1 DEF FactsHeld, Held
  <2>3. x.fact # Held(b)
    BY <2>1, <2>2 DEF FactsHeld, HolderKnows
  <2>4. ASSUME NEW o \in Enrollments, NEW i \in DOMAIN decisions'[o] PROVE decisions'[o][i].fact # Held(b)
    BY <1>3, <2>1, <2>2, <2>3 DEF HolderKnows
  <2>5. QED
    BY <2>1, <2>2, <2>4 DEF HolderKnows
<1>8. \A b \in Admins : HolderKnows(b)'
  BY <1>7 DEF HolderKnows
<1>9. \A b, c \in Admins : Holds(b)' /\ Holds(c)' /\ Held(b)' = Held(c)' => b = c
  BY <1>6 DEF FactsHeld, Held
<1>10. QED
  BY <1>5, <1>8, <1>9 DEF FactsHeld

LEMMA FactsEnter ==
  ASSUME AdminInv, FactsHeld, NEW a \in Admins, Enter(a) \/ Reevaluate(a)
  PROVE  FactsHeld'
<1> USE DEF AdminInv, EnrollingInv
<1>1. CASE Done(a)
  <2>1. decisions' = decisions
    BY DEF Enter, Reevaluate
  <2>2. work'[a].step # "entered" /\ \A b \in Admins \ {a} : work'[b] = work[b]
    BY <1>1, NoWorkFits DEF Done, Requests
  <2>3. QED
    BY <2>1, <2>2, FactsKept
<1>2. ASSUME NEW v \in Inputs, NEW fact, NEW d, d = Resolution(v, fact),
             decisions' = decisions, FactUsable(work[a].enrollment, d), FactFree(d),
             work' = [work EXCEPT ![a].step = "entered", ![a].expected = None, ![a].decision = d]
      PROVE  FactsHeld'
  <2>1. d.status = "RESOLVED" => fact # None /\ d.found.fact = fact
    BY <1>2, ResolutionSound DEF PolicyInv
  <2>2. PICK w : w = [work[a] EXCEPT !.step = "entered", !.expected = None, !.decision = d]
    OBVIOUS
  <2>3. w.step = "entered" /\ w.decision = d /\ w.enrollment = work[a].enrollment
    <3>1. IsWork(work[a])
      BY DEF Requests
    <3>2. QED
      BY <2>2, <3>1 DEF IsWork
  <2>4. work' = [work EXCEPT ![a] = w]
    BY <1>2, <2>2
  <2>5. work'[a] = w /\ \A b \in Admins \ {a} : work'[b] = work[b]
    BY <2>4 DEF Requests
  <2>6. QED
    BY <1>2, <2>1, <2>3, <2>5, FactsEntered
<1>3. CASE Enter(a) /\ ~Done(a)
  <2>1. /\ work[a].enrollment \in Enrollments /\ work[a].source \in Enrollments \cup {None}
    BY <1>3 DEF Enter, Requests, Informed
  <2>2. work[a].source # None => MayMove(work[a].source, work[a].enrollment)
    BY <1>3 DEF Enter
  <2>3. Input(work[a].enrollment, work[a].source) \in Inputs
    BY <2>1, <2>2, InputFits
  <2>4. QED
    BY <1>2, <1>3, <2>3 DEF Enter
<1>4. CASE Reevaluate(a) /\ ~Done(a)
  <2>1. work[a].row.input \in Inputs
    BY <1>4 DEF Reevaluate, Requests, Informed, Explained
  <2>2. QED
    BY <1>2, <1>4, <2>1 DEF Reevaluate
<1>5. QED
  BY <1>1, <1>3, <1>4

LEMMA FactsDecided ==
  ASSUME AdminInv, FactsHeld, NEW a \in Admins,
         Settle(a) \/ Override(a) \/ \E known \in BOOLEAN : Create(a, known)
  PROVE  FactsHeld'
<1> USE DEF AdminInv, EnrollingInv
<1>1. /\ Done(a) /\ work[a].enrollment \in Enrollments
      /\ work'[a].step # "entered" /\ \A b \in Admins \ {a} : work'[b] = work[b]
  BY NoWorkFits DEF Settle, Override, Create, Done, Requests, Informed
<1>2. CASE decisions' = decisions
  <2>1. \A b \in Admins : work'[b].step = "entered" => work'[b] = work[b]
    BY <1>1
  <2>2. QED
    BY <1>2, <2>1, FactsKept
<1>3. CASE Override(a) /\ decisions' # decisions
  <2>1. PICK x : /\ x = Decision("ADMIN_OVERRIDE", authorizations[work[a].authorization].revision,
                                 None, None, work[a].authorization)
                 /\ decisions' = [decisions EXCEPT ![work[a].enrollment] = Append(@, x)]
    BY <1>3 DEF Override
  <2>2. x \in DecisionRow /\ x.fact = None
    <3>1. /\ work[a].authorization \in Authorizations
          /\ authorizations[work[a].authorization].revision \in Revisions
      BY <1>3 DEF Override, Requests, Informed, RowsTyped
    <3>2. QED
      BY <2>1, <3>1 DEF Decision, DecisionRow
  <2>3. QED
    BY <1>1, <2>1, <2>2, FactsWritten
<1>4. CASE (Settle(a) \/ \E known \in BOOLEAN : Create(a, known)) /\ decisions' # decisions
  <2>1. PICK x : /\ x = Evaluated(work[a].decision)
                 /\ decisions' = [decisions EXCEPT ![work[a].enrollment] = Append(@, x)]
    BY <1>4 DEF Settle, Create
  <2>2. work[a].step = "entered" /\ Answer(work[a])
    BY <1>4 DEF Settle, Create, ScopeHeld, ScopeHeldBy
  <2>3. x \in DecisionRow
    BY <2>1, <2>2, EvaluatedFits
  <2>4. x.fact # None => Holds(a) /\ x.fact = Held(a)
    BY <2>1, <2>2 DEF Evaluated, Decision, Holds, Held
  <2>5. QED
    BY <1>1, <2>1, <2>3, <2>4, FactsWritten
<1>5. QED
  BY <1>2, <1>3, <1>4

LEMMA FactsInvariant == Spec => []FactsHeld
<1>1. Init => FactsHeld
  BY NoWorkFits DEF Init, FactsHeld, FactBacksOneDecision, HolderKnows, Holds
<1>2. AdminInv /\ FactsHeld /\ [Next]_vars => FactsHeld'
  <2> SUFFICES ASSUME AdminInv, FactsHeld, [Next]_vars PROVE FactsHeld'
    OBVIOUS
  <2>1. CASE decisions' = decisions /\ work' = work
    BY <2>1, FactsKept
  <2>2. ASSUME NEW a \in Admins, NEW w, w.step # "entered", decisions' = decisions,
               work' = [work EXCEPT ![a] = w]
        PROVE  FactsHeld'
    <3>1. work'[a] = w /\ \A b \in Admins \ {a} : work'[b] = work[b]
      BY <2>2 DEF AdminInv, EnrollingInv, Requests
    <3>2. QED
      BY <2>2, <3>1, FactsKept
  <2>3. CASE Governance \/ UNCHANGED vars
    BY <2>1, <2>3 DEF Governance, adminVars, vars
  <2>4. CASE \E f \in Facts : VerifyFact(f)
    BY <2>1, <2>4 DEF VerifyFact, Verified
  <2>5. CASE \E a \in Admins, e \in Enrollments, source \in Enrollments \cup {None}, blind \in BOOLEAN :
                 Preview(a, e, source, blind)
    BY ZenonT(60), <2>2, <2>5 DEF Preview, NoWork
  <2>6. CASE \E a \in Admins : GiveUp(a) \/ \E e \in Enrollments : ReadPending(a, e)
    BY <2>2, <2>6 DEF GiveUp, Done, ReadPending, NoWork
  <2>7. CASE \E a \in Admins, z \in Authorizations : OpenOverride(a, z)
    BY <2>2, <2>7 DEF OpenOverride, NoWork
  <2>8. CASE \E a \in Admins, z \in Authorizations : \/ ApproveOverride(a, z)
                                                     \/ \E e \in Enrollments, r \in Revisions :
                                                            PrepareOverride(a, z, e, r)
    BY <2>1, <2>8 DEF ApproveOverride, PrepareOverride
  <2>9. CASE \E student \in {StudentOf[e] : e \in Enrollments} : ConfirmIdentity(student)
    BY <2>1, <2>9 DEF ConfirmIdentity
  <2>10. CASE \E a \in Admins : Enter(a) \/ Reevaluate(a)
    BY <2>10, FactsEnter
  <2>11. CASE \E a \in Admins : Settle(a) \/ Override(a) \/ \E known \in BOOLEAN : Create(a, known)
    BY <2>11, FactsDecided
  <2>12. QED
    BY <2>3, <2>4, <2>5, <2>6, <2>7, <2>8, <2>9, <2>10, <2>11 DEF Next, Enrolling
<1>3. QED
  BY <1>1, <1>2, AdminInvAlways, PTL DEF Spec

\* An authorization that backs a decision is of that enrollment, which has its revision.
AuthorizationsUsed ==
    /\ \A e \in Enrollments : \A i \in DOMAIN decisions[e] :
          LET z == decisions[e][i].authorization IN
          z # None => /\ authorizations[z].enrollment = e /\ authorizations[z].status # "NONE"
                      /\ Exists(e) /\ enrollments[e].revision # None
                      /\ \A j \in DOMAIN decisions[e] : decisions[e][j].authorization = z => i = j
    /\ \A a \in Admins : work[a].op = "override" =>
          authorizations[work[a].authorization].enrollment = work[a].enrollment

\* No enrollment goes back to having no revision, and no authorization changes hands.
AssignedStays ==
    /\ \A e \in Enrollments : Exists(e) /\ enrollments[e].revision # None =>
          enrollments'[e].status # "NONE" /\ enrollments'[e].revision # None
    /\ \A z \in Authorizations : authorizations[z].status # "NONE" =>
          authorizations'[z].status # "NONE" /\ authorizations'[z].enrollment = authorizations[z].enrollment

RequestsStay ==
    \A b \in Admins : work'[b].op = "override" =>
        \/ work'[b] = work[b]
        \/ authorizations'[work'[b].authorization].enrollment = work'[b].enrollment

LEMMA DecisionTyped ==
  ASSUME RowsTyped, NEW e \in Enrollments, NEW i \in DOMAIN decisions[e]
  PROVE  decisions[e][i].authorization \in Authorizations \cup {None}
<1>1. decisions[e] \in Seq(DecisionRow)
  BY DEF RowsTyped
<1>2. decisions[e][i] \in DecisionRow
  <2> HIDE DEF DecisionRow
  <2>1. DOMAIN decisions[e] = 1 .. Len(decisions[e])
    BY <1>1
  <2>2. QED
    BY <1>1, <2>1
<1>3. QED
  BY <1>2 DEF DecisionRow

LEMMA AuthorizationsKept ==
  ASSUME RowsTyped, Requests, AuthorizationsUsed, AssignedStays, RequestsStay, decisions' = decisions
  PROVE  AuthorizationsUsed'
<1>1. ASSUME NEW e \in Enrollments, NEW i \in DOMAIN decisions[e], decisions[e][i].authorization # None
      PROVE  decisions[e][i].authorization \in Authorizations
  BY <1>1, DecisionTyped
<1>2. ASSUME NEW b \in Admins, work'[b].op = "override"
      PROVE  authorizations'[work'[b].authorization].enrollment = work'[b].enrollment
  <2>1. CASE work'[b] = work[b]
    BY <1>2, <2>1 DEF AuthorizationsUsed, AssignedStays, Requests, Informed
  <2>2. QED
    BY <1>2, <2>1 DEF RequestsStay
<1>3. QED
  BY <1>1, <1>2 DEF AuthorizationsUsed, AssignedStays, Exists

\* A decision is written without an authorization, or for an enrollment that had no revision.
LEMMA AuthorizationsWritten ==
  ASSUME RowsTyped, Requests, AuthorizationsUsed, AssignedStays, RequestsStay,
         NEW e \in Enrollments, NEW x \in DecisionRow, decisions' = [decisions EXCEPT ![e] = Append(@, x)],
         x.authorization # None =>
             /\ enrollments[e].revision = None /\ enrollments'[e].revision # None /\ enrollments'[e].status # "NONE"
             /\ authorizations'[x.authorization].enrollment = e /\ authorizations'[x.authorization].status # "NONE"
  PROVE  AuthorizationsUsed'
<1> DEFINE last == Len(decisions[e]) + 1
<1>1. /\ DOMAIN decisions'[e] = DOMAIN decisions[e] \cup {last} /\ last \notin DOMAIN decisions[e]
      /\ decisions'[e][last] = x
      /\ \A i \in DOMAIN decisions[e] : decisions'[e][i] = decisions[e][i]
  <2>1. decisions[e] \in Seq(DecisionRow) /\ decisions'[e] = Append(decisions[e], x)
    BY DEF RowsTyped
  <2>2. QED
    BY <2>1
<1>2. \A o \in Enrollments \ {e} : decisions'[o] = decisions[o]
  BY DEF RowsTyped
<1>3. ASSUME NEW o \in Enrollments, NEW i \in DOMAIN decisions[o], decisions[o][i].authorization # None
      PROVE  /\ decisions[o][i].authorization \in Authorizations
             /\ o = e => x.authorization = None
  BY <1>3, DecisionTyped DEF AuthorizationsUsed
<1>4. ASSUME NEW o \in Enrollments, NEW i \in DOMAIN decisions'[o], decisions'[o][i].authorization # None
      PROVE  LET z == decisions'[o][i].authorization IN
             /\ authorizations'[z].enrollment = o /\ authorizations'[z].status # "NONE"
             /\ enrollments'[o].status # "NONE" /\ enrollments'[o].revision # None
             /\ \A j \in DOMAIN decisions'[o] : decisions'[o][j].authorization = z => i = j
  <2>1. CASE i \in DOMAIN decisions[o] /\ decisions'[o][i] = decisions[o][i]
    <3>1. /\ decisions[o][i].authorization \in Authorizations
          /\ o = e => x.authorization = None
      BY <1>3, <1>4, <2>1
    <3>2. \A j \in DOMAIN decisions'[o] : decisions'[o][j].authorization = decisions[o][i].authorization =>
              j \in DOMAIN decisions[o] /\ decisions'[o][j] = decisions[o][j]
      BY <1>1, <1>2, <1>4, <2>1, <3>1
    <3>3. QED
      BY <1>4, <2>1, <3>1, <3>2 DEF AuthorizationsUsed, AssignedStays, Exists
  <2>2. CASE o = e /\ i = last /\ decisions'[o][i] = x
    <3>1. \A j \in DOMAIN decisions[e] : decisions[e][j].authorization = None
      BY <1>3, <1>4, <2>2
    <3>2. QED
      BY <1>1, <1>4, <2>2, <3>1
  <2>3. QED
    BY <1>1, <1>2, <1>4, <2>1, <2>2
<1>5. ASSUME NEW b \in Admins, work'[b].op = "override"
      PROVE  authorizations'[work'[b].authorization].enrollment = work'[b].enrollment
  <2>1. CASE work'[b] = work[b]
    BY <1>5, <2>1 DEF AuthorizationsUsed, AssignedStays, Requests, Informed
  <2>2. QED
    BY <1>5, <2>1 DEF RequestsStay
<1>6. QED
  BY <1>4, <1>5 DEF AuthorizationsUsed, Exists

\* The steps that write a decision.
LEMMA AuthorizationsDecided ==
  ASSUME AdminInv, AuthorizationsUsed, NEW a \in Admins,
         Settle(a) \/ Override(a) \/ \E known \in BOOLEAN : Create(a, known)
  PROVE  AuthorizationsUsed'
<1> USE DEF AdminInv, EnrollingInv
<1>1. /\ work[a].enrollment \in Enrollments /\ authorizations' = authorizations
      /\ work' = [work EXCEPT ![a] = NoWork] /\ NoWork.op # "override"
  BY NoWorkFits DEF Settle, Override, Create, Done, Requests, Informed
<1>2. RequestsStay
  BY <1>1 DEF RequestsStay, Requests
<1>3. CASE Settle(a)
  <2>1. /\ work[a].op = "resolve" /\ work[a].step = "entered" /\ Answer(work[a])
        /\ work[a].decision.status = "RESOLVED" /\ work[a].decision.revision \in Revisions
    BY <1>3 DEF Settle, ScopeHeld, ScopeHeldBy, Answer
  <2>2. PICK e \in Enrollments, r \in Revisions, old \in EnrollmentRow :
            /\ e = work[a].enrollment /\ r = work[a].decision.revision /\ old = work[a].row
            /\ Explained(e, old) /\ old.status = "NEEDS_REVIEW"
    BY <2>1 DEF Requests, Informed
  <2>3. PICK new \in EnrollmentRow : new = Assigned(old, r) /\ Explained(e, new) /\ new.revision = r /\ new.status # "NONE"
    <3>1. Assigned(old, r) \in EnrollmentRow /\ Explained(e, Assigned(old, r)) /\ Assigned(old, r).revision = r
      BY <2>2, AssignedFits
    <3>2. \A holds : StatusFor(holds) # "NONE"
      BY DEF StatusFor
    <3>3. Assigned(old, r).status # "NONE"
      BY <2>2, <3>2 DEF Assigned, EnrollmentRow
    <3>4. QED
      BY <3>1, <3>3
  <2>4. enrollments' = [enrollments EXCEPT ![e] = [new EXCEPT !.version = enrollments[e].version + 1]]
    BY <1>3, <2>2, <2>3 DEF Settle
  <2>5. enrollments'[e].status # "NONE" /\ enrollments'[e].revision = r /\ r # None
    BY <2>3, <2>4, AdministrationAssumption DEF RowsTyped, EnrollmentRow
  <2>6. AssignedStays
    BY <1>1, <2>4, <2>5 DEF AssignedStays, RowsTyped, Exists
  <2>7. /\ decisions' = [decisions EXCEPT ![e] = Append(@, Evaluated(work[a].decision))]
        /\ Evaluated(work[a].decision) \in DecisionRow /\ Evaluated(work[a].decision).authorization = None
    BY <1>3, <2>1, <2>2, EvaluatedFits DEF Settle, Evaluated, Decision
  <2>8. QED
    BY <1>2, <2>6, <2>7, AuthorizationsWritten
<1>4. CASE Override(a)
  <2>1. PICK e \in Enrollments, z \in Authorizations :
            e = work[a].enrollment /\ z = work[a].authorization
    BY <1>4 DEF Override, Requests, Informed
  <2>2. PICK r \in Revisions : r = authorizations[z].revision
    BY <1>4, <2>1 DEF Override, Requests, RowsTyped
  <2>3. CASE decisions' = decisions /\ enrollments' = enrollments
    BY <1>1, <1>2, <2>3, AuthorizationsKept DEF AssignedStays, Exists
  <2>4. CASE enrollments[e].version = work[a].row.version /\ AwaitsCurriculum(enrollments[e])
    <3>1. /\ enrollments' = [enrollments EXCEPT ![e] = Assigned(enrollments[e], r)]
          /\ decisions' = [decisions EXCEPT ![e] = Append(@, Decision("ADMIN_OVERRIDE", r, None, None, z))]
      BY <1>4, <2>1, <2>2, <2>4 DEF Override
    <3>2. enrollments[e] \in EnrollmentRow /\ Explained(e, enrollments[e]) /\ enrollments[e].status = "NEEDS_REVIEW"
      BY <2>4 DEF RowsTyped, RowsExplained, AwaitsCurriculum
    <3>3. enrollments[e].revision = None
      BY <2>4, <3>2 DEF Explained, AwaitsCurriculum
    <3>4. enrollments'[e].revision = r /\ enrollments'[e].status # "NONE" /\ r # None
      <4>1. Assigned(enrollments[e], r).revision = r
        BY <3>2, AssignedFits
      <4>2. \A holds : StatusFor(holds) # "NONE"
        BY DEF StatusFor
      <4>3. Assigned(enrollments[e], r).status # "NONE"
        BY <3>2, <4>2 DEF Assigned, EnrollmentRow
      <4>4. enrollments'[e] = Assigned(enrollments[e], r)
        BY <3>1 DEF RowsTyped
      <4>5. QED
        BY <4>1, <4>3, <4>4, AdministrationAssumption
    <3>5. AssignedStays
      BY <1>1, <3>1, <3>4 DEF AssignedStays, RowsTyped, Exists
    <3>6. authorizations'[z].enrollment = e /\ authorizations'[z].status # "NONE"
      BY <1>1, <1>4, <2>1 DEF Override, AuthorizationsUsed, Requests
    <3>7. PICK x \in DecisionRow : x = Decision("ADMIN_OVERRIDE", r, None, None, z) /\ x.authorization = z
      <4>1. /\ Decision("ADMIN_OVERRIDE", r, None, None, z) \in DecisionRow
            /\ Decision("ADMIN_OVERRIDE", r, None, None, z).authorization = z
        BY DEF Decision, DecisionRow
      <4>2. QED
        BY <4>1
    <3>8. QED
      BY <1>2, <3>1, <3>3, <3>4, <3>5, <3>6, <3>7, AuthorizationsWritten
  <2>5. QED
    BY <1>4, <2>1, <2>3, <2>4 DEF Override
<1>5. ASSUME NEW known \in BOOLEAN, Create(a, known) PROVE AuthorizationsUsed'
  <2>1. PICK w : w = work[a] /\ w.enrollment \in Enrollments /\ Answer(w)
    BY <1>1, <1>5 DEF Create, ScopeHeld, ScopeHeldBy
  <2>2. CASE Clashes(w)
    <3>1. decisions' = decisions /\ enrollments' = enrollments
      BY <1>5, <2>1, <2>2 DEF Create
    <3>2. QED
      BY <1>1, <1>2, <3>1, AuthorizationsKept DEF AssignedStays, Exists
  <2>3. CASE ~Clashes(w)
    <3>1. ~Exists(w.enrollment)
      BY <2>1, <2>3 DEF Clashes, Enrolled
    <3>2. \A o \in Enrollments \ {w.enrollment} :
              \/ enrollments'[o] = enrollments[o]
              \/ enrollments'[o] = [enrollments[o] EXCEPT !.status = "TRANSITIONED", !.version = @ + 1]
      BY <1>5, <2>1, <2>3 DEF Create
    <3>3. \A o \in Enrollments \ {w.enrollment} :
              Exists(o) => enrollments'[o].status # "NONE" /\ enrollments'[o].revision = enrollments[o].revision
      BY <3>2, SourceUpdated DEF RowsTyped, Exists
    <3>4. AssignedStays
      BY <1>1, <3>1, <3>3 DEF AssignedStays
    <3>5. /\ decisions' = [decisions EXCEPT ![w.enrollment] = Append(@, Evaluated(w.decision))]
          /\ Evaluated(w.decision) \in DecisionRow /\ Evaluated(w.decision).authorization = None
      BY <1>5, <2>1, <2>3, EvaluatedFits DEF Create, Evaluated, Decision
    <3>6. QED
      BY <1>2, <2>1, <3>4, <3>5, AuthorizationsWritten
  <2>4. QED
    BY <2>2, <2>3
<1>6. QED
  BY <1>3, <1>4, <1>5

LEMMA AuthorizationsInvariant == Spec => []AuthorizationsUsed
<1>1. Init => AuthorizationsUsed
  BY NoWorkFits DEF Init, AuthorizationsUsed
<1>2. AdminInv /\ AuthorizationsUsed /\ [Next]_vars => AuthorizationsUsed'
  <2> SUFFICES ASSUME AdminInv, AuthorizationsUsed, [Next]_vars PROVE AuthorizationsUsed'
    OBVIOUS
  <2> USE DEF AdminInv, EnrollingInv
  <2>1. CASE UNCHANGED <<enrollments, decisions, authorizations>> /\ RequestsStay
    BY <2>1, AuthorizationsKept DEF AssignedStays, Exists
  <2>2. ASSUME NEW a \in Admins, NEW w, UNCHANGED <<enrollments, decisions, authorizations>>,
               work' = [work EXCEPT ![a] = w],
               w.op = "override" => authorizations[w.authorization].enrollment = w.enrollment
        PROVE  AuthorizationsUsed'
    <3>1. RequestsStay
      BY <2>2 DEF RequestsStay, Requests
    <3>2. QED
      BY <2>1, <2>2, <3>1
  <2>3. CASE Governance \/ UNCHANGED vars
    BY <2>1, <2>3 DEF Governance, adminVars, vars, RequestsStay
  <2>4. CASE \E f \in Facts : VerifyFact(f)
    BY <2>1, <2>4 DEF VerifyFact, RequestsStay
  <2>5. ASSUME NEW a \in Admins, NEW e \in Enrollments, NEW source \in Enrollments \cup {None},
               NEW blind \in BOOLEAN, Preview(a, e, source, blind)
        PROVE  AuthorizationsUsed'
    <3>1. PICK w : w = [NoWork EXCEPT !.op = "create", !.step = "seen", !.enrollment = e,
                                      !.source = source,
                                      !.expected = IF blind THEN None
                                                   ELSE Resolution(Input(e, source), FactFor(e))]
      OBVIOUS
    <3>2. work' = [work EXCEPT ![a] = w]
      BY <2>5, <3>1 DEF Preview
    <3>3. w.op = "create"
      BY <3>1 DEF NoWork
    <3>4. QED
      BY <2>2, <2>5, <3>2, <3>3 DEF Preview
  <2>6. ASSUME NEW a \in Admins, GiveUp(a) PROVE AuthorizationsUsed'
    BY <2>2, <2>6, NoWorkFits DEF GiveUp, Done
  <2>7. ASSUME NEW a \in Admins, NEW e \in Enrollments, ReadPending(a, e) PROVE AuthorizationsUsed'
    <3>1. PICK w : w = [NoWork EXCEPT !.op = "resolve", !.step = "seen", !.enrollment = e, !.row = enrollments[e]]
      OBVIOUS
    <3>2. work' = [work EXCEPT ![a] = w]
      BY <2>7, <3>1 DEF ReadPending
    <3>3. w.op = "resolve"
      BY <3>1 DEF NoWork
    <3>4. QED
      BY <2>2, <2>7, <3>2, <3>3 DEF ReadPending
  <2>8. ASSUME NEW a \in Admins, NEW z \in Authorizations, OpenOverride(a, z) PROVE AuthorizationsUsed'
    <3> DEFINE e == authorizations[z].enrollment
    <3>1. PICK w : w = [NoWork EXCEPT !.op = "override", !.step = "seen", !.enrollment = e,
                                      !.row = enrollments[e], !.authorization = z]
      OBVIOUS
    <3>2. work' = [work EXCEPT ![a] = w]
      BY <2>8, <3>1 DEF OpenOverride
    <3>3. w.authorization = z /\ w.enrollment = e
      BY <3>1 DEF NoWork
    <3>4. QED
      BY <2>2, <2>8, <3>2, <3>3 DEF OpenOverride
  <2>9. ASSUME NEW a \in Admins, NEW z \in Authorizations,
               \/ ApproveOverride(a, z)
               \/ \E e \in Enrollments, r \in Revisions : PrepareOverride(a, z, e, r)
        PROVE  AuthorizationsUsed'
    <3>1. UNCHANGED <<enrollments, decisions, work>>
      BY <2>9 DEF ApproveOverride, PrepareOverride
    <3>2. ASSUME NEW y \in Authorizations, authorizations[y].status # "NONE"
          PROVE  authorizations'[y].status # "NONE" /\ authorizations'[y].enrollment = authorizations[y].enrollment
      <4>1. authorizations \in [Authorizations -> AuthorizationRow] /\ authorizations[y] \in AuthorizationRow
        BY DEF RowsTyped
      <4>2. CASE y = z
        <5>1. ApproveOverride(a, z)
          BY <2>9, <3>2, <4>2 DEF PrepareOverride
        <5>2. authorizations'[y] = [authorizations[y] EXCEPT !.status = "APPROVED", !.approver = a]
          BY <4>1, <4>2, <5>1 DEF ApproveOverride
        <5>3. QED
          BY <4>1, <5>2 DEF AuthorizationRow
      <4>3. CASE y # z
        <5>1. authorizations'[y] = authorizations[y]
          BY <2>9, <4>1, <4>3 DEF ApproveOverride, PrepareOverride
        <5>2. QED
          BY <3>2, <5>1
      <4>4. QED
        BY <4>2, <4>3
    <3>3. AssignedStays /\ RequestsStay
      BY <3>1, <3>2 DEF AssignedStays, RequestsStay, Exists
    <3>4. QED
      BY <3>1, <3>3, AuthorizationsKept
  <2>10. CASE \E student \in {StudentOf[e] : e \in Enrollments} : ConfirmIdentity(student)
    <3>1. UNCHANGED <<decisions, authorizations, work>>
      BY <2>10 DEF ConfirmIdentity
    <3>2. ASSUME NEW e \in Enrollments, Exists(e), enrollments[e].revision # None
          PROVE  enrollments'[e].status # "NONE" /\ enrollments'[e].revision # None
      <4>1. enrollments[e] \in EnrollmentRow /\ \A holds : StatusFor(holds) # "NONE"
        BY DEF RowsTyped, StatusFor
      <4>2. \/ enrollments'[e] = enrollments[e]
            \/ \E holds : enrollments'[e] = [enrollments[e] EXCEPT !.holds = holds, !.status = StatusFor(holds),
                                                                   !.version = @ + 1]
        BY <2>10 DEF ConfirmIdentity
      <4>3. CASE \E holds : enrollments'[e] = [enrollments[e] EXCEPT !.holds = holds, !.status = StatusFor(holds),
                                                                     !.version = @ + 1]
        <5>1. PICK holds, status, version :
                  /\ status = StatusFor(holds) /\ status # "NONE"
                  /\ enrollments'[e] = [enrollments[e] EXCEPT !.holds = holds, !.status = status, !.version = version]
          BY <4>1, <4>3
        <5>2. QED
          BY <3>2, <4>1, <5>1 DEF EnrollmentRow
      <4>4. QED
        BY <3>2, <4>2, <4>3 DEF Exists
    <3>3. AssignedStays /\ RequestsStay
      BY <3>1, <3>2 DEF AssignedStays, RequestsStay
    <3>4. QED
      BY <3>1, <3>3, AuthorizationsKept
  <2>11. ASSUME NEW a \in Admins, Enter(a) \/ Reevaluate(a) PROVE AuthorizationsUsed'
    <3>1. UNCHANGED <<enrollments, decisions, authorizations>>
      BY <2>11 DEF Enter, Reevaluate
    <3>2. CASE Done(a)
      BY <2>2, <3>1, <3>2, NoWorkFits DEF Done
    <3>3. CASE \E d : work' = [work EXCEPT ![a].step = "entered", ![a].expected = None, ![a].decision = d]
      <4>1. PICK d, w : /\ w = [work[a] EXCEPT !.step = "entered", !.expected = None, !.decision = d]
                        /\ work' = [work EXCEPT ![a] = w]
        BY <3>3
      <4>2. w.op # "override"
        <5>1. IsWork(work[a]) /\ work[a].op # "override"
          BY <2>11 DEF Requests, Enter, Reevaluate
        <5>2. QED
          BY <4>1, <5>1 DEF IsWork
      <4>3. QED
        BY <2>2, <3>1, <4>1, <4>2
    <3>4. QED
      BY <2>11, <3>2, <3>3 DEF Enter, Reevaluate
  <2>12. CASE \E a \in Admins : Settle(a) \/ Override(a) \/ \E known \in BOOLEAN : Create(a, known)
    BY <2>12, AuthorizationsDecided
  <2>13. QED
    BY <2>3, <2>4, <2>5, <2>6, <2>7, <2>8, <2>9, <2>10, <2>11, <2>12 DEF Next, Enrolling
<1>3. QED
  BY <1>1, <1>2, AdminInvAlways, PTL DEF Spec

\* An admission record (_lock_unconsumed_admission_fact) backs one decision at most,
\* of its own subject, however many requests ask for it at once; and so does an
\* authorization of an override, of its own enrollment, though no row says it was used.
THEOREM DecisionsHaveTheirOwnEvidence == Spec => []EvidenceBacksOneDecision
<1>1. FactsHeld => FactBacksOneDecision
  BY DEF FactsHeld
<1>2. AuthorizationsUsed => OverrideBacksOneDecision
  BY DEF AuthorizationsUsed, OverrideBacksOneDecision
<1>3. QED
  BY <1>1, <1>2, FactsInvariant, AuthorizationsInvariant, PTL DEF EvidenceBacksOneDecision
=============================================================================
