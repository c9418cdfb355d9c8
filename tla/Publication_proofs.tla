-------------------------- MODULE Publication_proofs --------------------------
(***************************************************************************)
(* Proofs about Publication, for every number of revisions, proposals,     *)
(* enrollments and concurrent requests.                                    *)
(***************************************************************************)
EXTENDS Publication, FiniteSetTheorems, WellFoundedInduction, TLAPS

\* Requests that hold the lock of their proposal.
Deciding == {"write", "audit", "lock_candidate", "lock_plan", "find_current",
             "lock_current", "find_again", "lock_again", "apply"}

\* What a request in progress has in hand.
HasJob ==
    \A t \in Txns :
        /\ pc[t] # "idle" => job[t] \in Proposals
        /\ pc[t] \in {"write", "audit"} => verdict[t] \in DOMAIN ProposalAfter
        /\ pc[t] \in {"lock_current", "lock_again"} => seen[t] \in Revisions

Typed == TypeOK /\ HasJob

\* A set of revisions has a latest one.
LEMMA LatestExists ==
  ASSUME NEW others \in SUBSET Revisions, others # {}
  PROVE  \E q \in others : \A s \in others : s <= q
<1> DEFINE gaps == {NumRevisions - s : s \in others}
           before == OpToRel(<, Nat)
<1>1. gaps \subseteq Nat /\ gaps # {}
  <2>1. \A s \in others : NumRevisions - s \in Nat
    BY NumRevisionsAssumption DEF Revisions
  <2>2. QED
    BY <2>1
<1>2. PICK g \in gaps : \A h \in gaps : ~(<<h, g>> \in before)
  BY <1>1, NatLessThanWellFounded, WFMin
<1>3. \A h \in gaps : g <= h
  <2>1. before = {pair \in Nat \X Nat : pair[1] < pair[2]}
    BY DEF OpToRel
  <2>2. ASSUME NEW h \in gaps, h < g PROVE FALSE
    <3>1. g \in Nat /\ h \in Nat
      BY <1>1
    <3>2. <<h, g>> \in before
      BY <2>1, <2>2, <3>1
    <3>3. QED
      BY <1>2, <3>2
  <2>3. QED
    BY <1>1, <2>2
<1>4. PICK q \in others : g = NumRevisions - q
  OBVIOUS
<1>5. ASSUME NEW s \in others PROVE s <= q
  <2>1. NumRevisions - q <= NumRevisions - s
    BY <1>3, <1>4
  <2>2. q \in Int /\ s \in Int
    BY DEF Revisions
  <2>3. QED
    BY <2>1, <2>2, NumRevisionsAssumption
<1>6. QED
  BY <1>5

LEMMA TypedInit == Init => Typed
  BY NumRevisionsAssumption DEF Init, Typed, TypeOK, HasJob, RevisionStatus, ProposalStatus,
     Open, Steps

LEMMA FinishTyped ==
  ASSUME Typed, NEW t \in Txns, Finish(t)
  PROVE  /\ pc' \in [Txns -> Steps] /\ job' \in [Txns -> Proposals \cup {None}]
         /\ verdict' \in [Txns -> Reviews \cup {"submit", None}]
         /\ seen' \in [Txns -> Revisions \cup {None}]
         /\ replaced' \in [Txns -> Revisions \cup {None}]
         /\ rows' \in [Txns -> SUBSET Rows]
         /\ HasJob'
  BY DEF Finish, Typed, TypeOK, HasJob, Steps

LEMMA TypedBegin ==
  ASSUME Typed, NEW t \in Txns, NEW p \in Proposals,
         \/ ImportBegin(t, p) \/ Submit(t, p) \/ Publish(t, p)
         \/ \E decision \in Reviews : Review(t, p, decision)
  PROVE  Typed'
<1> USE CandidateAssumption DEF Typed, TypeOK, HasJob, records, Steps
<1>1. CASE ImportBegin(t, p)
  BY <1>1 DEF ImportBegin, Upserted, Rows
<1>2. CASE Submit(t, p)
  BY <1>2 DEF Submit, Start, ProposalAfter
<1>3. CASE Publish(t, p)
  BY <1>3 DEF Publish, Start
<1>4. ASSUME NEW decision \in Reviews, Review(t, p, decision) PROVE Typed'
  BY <1>4 DEF Review, Start, Reviews, ProposalAfter
<1>5. QED
  BY <1>1, <1>2, <1>3, <1>4

LEMMA TypedImport ==
  ASSUME Typed, NEW t \in Txns,
         ImportPlan(t) \/ ImportSave(t) \/ ImportLock(t) \/ ImportCommit(t)
  PROVE  Typed'
<1> USE CandidateAssumption DEF Typed
<1>1. CASE ImportSave(t)
  <2>1. CASE Rollback(t)
    BY <2>1, FinishTyped DEF Rollback, records, TypeOK
  <2>2. CASE ~Rollback(t)
    BY <1>1, <2>2 DEF ImportSave, TypeOK, HasJob, records, Steps
  <2>3. QED
    BY <2>1, <2>2
<1>2. CASE ImportLock(t)
  BY <1>2 DEF ImportLock, TypeOK, HasJob, records, Steps, Rows
<1>3. CASE ImportCommit(t)
  <2> DEFINE r == Candidate[job[t]]
  <2>1. job[t] \in Proposals /\ r \in Revisions
    BY <1>3 DEF ImportCommit, HasJob
  <2>2. LatestBase(r) \in Revisions \cup {None}
    <3> DEFINE others == {q \in Revisions \ {r} : revision[q] # "NONE"}
               latest == CHOOSE q \in others : \A s \in others : s <= q
    <3>1. CASE others = {}
      BY <3>1 DEF LatestBase
    <3>2. CASE others # {}
      <4>1. \E q \in others : \A s \in others : s <= q
        BY <3>2, LatestExists
      <4>2. latest \in others
        BY <4>1
      <4>3. QED
        BY <3>2, <4>2 DEF LatestBase
    <3>3. QED
      BY <3>1, <3>2
  <2>3. QED
    BY <1>3, <2>1, <2>2, FinishTyped DEF ImportCommit, Extracted, TypeOK, RevisionStatus, ProposalStatus,
       Open
<1>4. CASE ImportPlan(t)
  <2>1. CASE Rollback(t)
    BY <2>1, FinishTyped DEF Rollback, records, TypeOK
  <2>2. CASE ~Rollback(t)
    BY <1>4, <2>2 DEF ImportPlan, Upserted, TypeOK, HasJob, records, Steps, Rows
  <2>3. QED
    BY <2>1, <2>2
<1>5. QED
  BY <1>1, <1>2, <1>3, <1>4

LEMMA TypedWaits ==
  ASSUME Typed, NEW t \in Txns,
         \/ LockReviewed(t) \/ LockCandidate(t) \/ LockPlan(t) \/ FindCurrent(t)
         \/ LockCurrent(t) \/ FindAgain(t) \/ LockAgain(t)
  PROVE  Typed'
<1> USE CandidateAssumption DEF Typed
<1>1. CASE LockReviewed(t) \/ LockCandidate(t) \/ LockPlan(t)
  <2>1. CASE LockReviewed(t) \/ LockCandidate(t)
    BY <2>1 DEF LockReviewed, LockCandidate, TypeOK, HasJob, records, Steps, Rows
  <2>2. CASE LockPlan(t)
    BY <2>2 DEF LockPlan, WithPlan, TypeOK, HasJob, records, Steps, Rows
  <2>3. QED
    BY <1>1, <2>1, <2>2
<1>2. ASSUME NEW here, NEW waiting \in {"lock_current", "lock_again"},
             NEW found \in {"find_again", "apply"}, here # "idle", Find(t, here, waiting, found)
      PROVE  Typed'
  BY <1>2 DEF Find, TypeOK, HasJob, records, Steps
<1>3. ASSUME NEW found \in {"find_again", "apply"}, pc[t] # "idle", Drop(t, found) PROVE Typed'
  BY <1>3 DEF Drop, TypeOK, HasJob, records, Steps
<1>4. CASE FindCurrent(t) \/ FindAgain(t)
  BY <1>2, <1>4 DEF FindCurrent, FindAgain
<1>5. CASE LockCurrent(t)
  <2>1. CASE Drop(t, "find_again")
    BY <1>3, <1>5, <2>1 DEF LockCurrent
  <2>2. CASE Rollback(t)
    BY <2>2, FinishTyped DEF Rollback, records, TypeOK
  <2>3. CASE ~Drop(t, "find_again") /\ ~Rollback(t)
    BY <1>5, <2>3 DEF LockCurrent, WithCurrent, TypeOK, HasJob, records, Steps, Rows
  <2>4. QED
    BY <2>1, <2>2, <2>3
<1>6. CASE LockAgain(t)
  <2>1. CASE Drop(t, "apply")
    BY <1>3, <1>6, <2>1 DEF LockAgain
  <2>2. CASE ~Drop(t, "apply")
    BY <1>6, <2>2 DEF LockAgain, WithCurrent, TypeOK, HasJob, records, Steps, Rows
  <2>3. QED
    BY <2>1, <2>2
<1>7. QED
  BY <1>1, <1>4, <1>5, <1>6

LEMMA TypedWrites ==
  ASSUME Typed, NEW t \in Txns, WriteDecision(t) \/ Apply(t)
  PROVE  Typed'
<1> USE CandidateAssumption DEF Typed
<1>1. CASE WriteDecision(t)
  <2>1. job[t] \in Proposals /\ verdict[t] \in DOMAIN ProposalAfter
    BY <1>1 DEF WriteDecision, HasJob
  <2>2. ProposalAfter[verdict[t]] \in ProposalStatus /\ RevisionAfter[verdict[t]] \in RevisionStatus
    BY <2>1 DEF ProposalAfter, RevisionAfter, ProposalStatus, RevisionStatus, Open
  <2>3. QED
    BY <1>1, <2>1, <2>2, FinishTyped DEF WriteDecision, TypeOK
<1>2. CASE Apply(t)
  <2>1. CASE Rollback(t)
    BY <2>1, FinishTyped DEF Rollback, records, TypeOK
  <2>2. CASE ~Rollback(t)
    <3>1. job[t] \in Proposals /\ Candidate[job[t]] \in Revisions
      BY <1>2 DEF Apply, HasJob
    <3>2. Finish(t) /\ UNCHANGED <<content, base, pending>>
      BY <1>2, <2>2 DEF Apply
    <3>3. revision' \in [Revisions -> RevisionStatus]
      BY <1>2, <2>2 DEF Apply, TypeOK, RevisionStatus
    <3>4. /\ supersedes' \in [Revisions -> Revisions \cup {None}]
          /\ receipt' \in [Revisions -> Proposals \cup {None}]
          /\ announced' \in [Revisions -> Revisions \cup {None}]
          /\ proposal' \in [Proposals -> ProposalStatus]
      BY <1>2, <2>2, <3>1 DEF Apply, TypeOK, ProposalStatus
    <3>5. impacts' \in SUBSET (Revisions \X Enrollments)
      BY <1>2, <2>2, <3>1 DEF Apply, Affected, TypeOK
    <3>6. QED
      BY <3>2, <3>3, <3>4, <3>5, FinishTyped DEF TypeOK
  <2>3. QED
    BY <2>1, <2>2
<1>3. QED
  BY <1>1, <1>2

LEMMA TypedInvariant == Spec => []Typed
<1>1. Typed /\ [Next]_vars => Typed'
  <2> SUFFICES ASSUME Typed, [Next]_vars PROVE Typed'  OBVIOUS
  <2>1. CASE UNCHANGED vars
    BY <2>1 DEF vars, records, locals, Typed, TypeOK, HasJob
  <2>2. ASSUME NEW t \in Txns, Begin(t) PROVE Typed'
    BY <2>2, TypedBegin DEF Begin
  <2>3. ASSUME NEW t \in Txns, Continue(t) PROVE Typed'
    BY <2>3, TypedImport, TypedWaits, TypedWrites DEF Continue
  <2>4. ASSUME NEW t \in Txns, Abort(t) PROVE Typed'
    BY <2>4, FinishTyped DEF Abort, Rollback, records, Typed, TypeOK
  <2>5. ASSUME NEW p \in Proposals, ReviewCandidate(p) PROVE Typed'
    BY <2>5 DEF ReviewCandidate, locals, Typed, TypeOK, HasJob
  <2>6. ASSUME NEW r \in Revisions, Retire(r) PROVE Typed'
    BY <2>6 DEF Retire, locals, Typed, TypeOK, HasJob, RevisionStatus
  <2>7. QED
    BY <2>1, <2>2, <2>3, <2>4, <2>5, <2>6 DEF Next
<1>2. QED
  BY <1>1, TypedInit, PTL DEF Spec

\* Every variable keeps its type, however many requests run at once.
THEOREM TypeCorrect == Spec => []TypeOK
<1>1. Typed => TypeOK
  BY DEF Typed
<1>2. QED
  BY <1>1, TypedInvariant, PTL

-----------------------------------------------------------------------------
(* Receipts.  A request that decides on a proposal holds its lock, so the  *)
(* status it read is still the stored one when it writes.                  *)

Owned ==
    \A t \in Txns : pc[t] \in Deciding =>
        /\ proposal[job[t]] \notin {"NONE", "APPLIED"}
        /\ \A u \in Txns : pc[u] \in Deciding /\ job[u] = job[t] => u = t

\* A receipt belongs to an applied proposal of its revision.
ReceiptsAreOwn ==
    \A r \in Revisions : receipt[r] # None =>
        Candidate[receipt[r]] = r /\ proposal[receipt[r]] = "APPLIED"

Receipts == Owned /\ ReceiptsAreOwn /\ AppliedHasReceipt

\* A step that ends or moves on one request and decides nothing.
LEMMA UndecidedStep ==
  ASSUME Receipts, UNCHANGED <<proposal, receipt>>,
         \A t \in Txns : pc'[t] \in Deciding => pc[t] \in Deciding /\ job'[t] = job[t]
  PROVE  Receipts'
  BY DEF Receipts, Owned, ReceiptsAreOwn, AppliedHasReceipt

LEMMA ReceiptsBegin ==
  ASSUME Typed, Receipts, NEW t \in Txns, Begin(t)
  PROVE  Receipts'
<1> PICK p \in Proposals : \/ ImportBegin(t, p) \/ Submit(t, p) \/ Publish(t, p)
                          \/ \E decision \in Reviews : Review(t, p, decision)
  BY DEF Begin
<1>1. CASE ImportBegin(t, p)
  BY <1>1, UndecidedStep DEF ImportBegin, Deciding, records, Typed, TypeOK
<1>2. ASSUME NEW step \in Deciding, Start(t, p, step), ProposalFree(p),
             proposal[p] \notin {"NONE", "APPLIED"}
      PROVE  Receipts'
  <2>1. UNCHANGED <<proposal, receipt>> /\ pc' = [pc EXCEPT ![t] = step]
        /\ job' = [job EXCEPT ![t] = p]
    BY <1>2 DEF Start, records
  <2>2. \A u \in Txns : pc[u] \in Deciding => job[u] # p
    BY <1>2 DEF ProposalFree, Importing, Deciding
  <2>3. Owned'
    BY <1>2, <2>1, <2>2 DEF Receipts, Owned, Typed, TypeOK
  <2>4. QED
    BY <2>1, <2>3 DEF Receipts, ReceiptsAreOwn, AppliedHasReceipt
<1>3. CASE Submit(t, p) \/ Publish(t, p) \/ \E decision \in Reviews : Review(t, p, decision)
  BY <1>2, <1>3 DEF Submit, Publish, Review, Deciding
<1>4. QED
  BY <1>1, <1>3

LEMMA ReceiptsImport ==
  ASSUME Typed, Receipts, NEW t \in Txns,
         ImportPlan(t) \/ ImportSave(t) \/ ImportLock(t) \/ ImportCommit(t)
  PROVE  Receipts'
<1>1. pc'[t] \notin Deciding
  BY DEF ImportPlan, ImportSave, ImportLock, ImportCommit, Rollback, Finish, Deciding, Typed, TypeOK
<1>2. \A u \in Txns \ {t} : pc'[u] = pc[u] /\ job'[u] = job[u]
  BY DEF ImportPlan, ImportSave, ImportLock, ImportCommit, Rollback, Finish, Typed, TypeOK
<1>3. CASE UNCHANGED proposal
  <2>1. UNCHANGED receipt
    BY DEF ImportPlan, ImportSave, ImportLock, ImportCommit, Rollback, records
  <2>2. QED
    BY <1>1, <1>2, <1>3, <2>1, UndecidedStep
<1>4. CASE ~UNCHANGED proposal
  <2> DEFINE p == job[t]
  <2>1. /\ p \in Proposals /\ proposal[p] = "NONE"
        /\ proposal' = [proposal EXCEPT ![p] = "DRAFT"] /\ receipt' = receipt
    BY <1>4 DEF ImportPlan, ImportSave, ImportLock, ImportCommit, Rollback, records, Typed, HasJob
  <2>2. Owned'
    BY <1>1, <1>2, <2>1 DEF Receipts, Owned, Typed, TypeOK
  <2>3. ReceiptsAreOwn' /\ AppliedHasReceipt'
    BY <2>1, NoneAssumption DEF Receipts, ReceiptsAreOwn, AppliedHasReceipt, Typed, TypeOK
  <2>4. QED
    BY <2>2, <2>3 DEF Receipts
<1>5. QED
  BY <1>3, <1>4

LEMMA ReceiptsWrite ==
  ASSUME Typed, Receipts, NEW t \in Txns, WriteDecision(t)
  PROVE  Receipts'
<1> DEFINE p == job[t]
<1>1. /\ p \in Proposals /\ pc[t] \in Deciding
      /\ proposal' = [proposal EXCEPT ![p] = ProposalAfter[verdict[t]]]
      /\ receipt' = receipt
  BY DEF WriteDecision, Typed, HasJob, Deciding
<1>2. proposal[p] # "APPLIED" /\ ProposalAfter[verdict[t]] \notin {"NONE", "APPLIED"}
  BY <1>1 DEF Receipts, Owned, WriteDecision, Typed, HasJob, ProposalAfter
<1>3. pc'[t] \notin Deciding /\ \A u \in Txns \ {t} : pc'[u] = pc[u] /\ job'[u] = job[u]
  BY DEF WriteDecision, Finish, Deciding, Typed, TypeOK
<1>4. Owned'
  BY <1>1, <1>2, <1>3 DEF Receipts, Owned, Typed, TypeOK
<1>5. ReceiptsAreOwn' /\ AppliedHasReceipt'
  BY <1>1, <1>2, NoneAssumption DEF Receipts, ReceiptsAreOwn, AppliedHasReceipt, Typed, TypeOK
<1>6. QED
  BY <1>4, <1>5 DEF Receipts

LEMMA ReceiptsWaits ==
  ASSUME Typed, Receipts, NEW t \in Txns,
         \/ LockReviewed(t) \/ LockCandidate(t) \/ LockPlan(t) \/ FindCurrent(t)
         \/ LockCurrent(t) \/ FindAgain(t) \/ LockAgain(t)
  PROVE  Receipts'
<1>1. UNCHANGED <<proposal, receipt>>
  BY DEF LockReviewed, LockCandidate, LockPlan, FindCurrent, LockCurrent, FindAgain, LockAgain, Find, Drop, Rollback,
     records
<1>2. pc[t] \in Deciding
  BY DEF LockReviewed, LockCandidate, LockPlan, FindCurrent, LockCurrent, FindAgain, LockAgain, Find, Deciding
<1>3. pc'[t] = "idle" \/ job' = job
  BY DEF LockReviewed, LockCandidate, LockPlan, FindCurrent, LockCurrent, FindAgain, LockAgain, Find, Drop, Rollback,
     Finish, Typed, TypeOK
<1>4. \A u \in Txns \ {t} : pc'[u] = pc[u] /\ job'[u] = job[u]
  BY DEF LockReviewed, LockCandidate, LockPlan, FindCurrent, LockCurrent, FindAgain, LockAgain, Find, Drop, Rollback,
     Finish, Typed, TypeOK
<1>5. QED
  BY <1>1, <1>2, <1>3, <1>4, UndecidedStep DEF Deciding

LEMMA ReceiptsApply ==
  ASSUME Typed, Receipts, NEW t \in Txns, Apply(t)
  PROVE  Receipts'
<1> DEFINE p == job[t]
           r == Candidate[p]
<1>1. p \in Proposals /\ r \in Revisions /\ pc[t] \in Deciding
  BY CandidateAssumption DEF Apply, Typed, HasJob, Deciding
<1>2. pc'[t] \notin Deciding /\ \A u \in Txns \ {t} : pc'[u] = pc[u] /\ job'[u] = job[u]
  BY DEF Apply, Rollback, Finish, Deciding, Typed, TypeOK
<1>3. CASE Rollback(t)
  BY <1>2, <1>3, UndecidedStep DEF Rollback, records
<1>4. CASE ~Rollback(t)
  <2>1. /\ receipt[r] = None
        /\ receipt' = [receipt EXCEPT ![r] = p]
        /\ proposal' = [proposal EXCEPT ![p] = "APPLIED"]
    BY <1>4 DEF Apply, HasReceipt
  <2>2. Owned'
    BY <1>1, <1>2, <2>1 DEF Receipts, Owned, Typed, TypeOK
  <2>3. ReceiptsAreOwn'
    BY <1>1, <2>1 DEF Receipts, ReceiptsAreOwn, Typed, TypeOK
  <2>4. AppliedHasReceipt'
    <3>1. ASSUME NEW q \in Proposals PROVE (proposal'[q] = "APPLIED") <=> receipt'[Candidate[q]] = q
      <4>1. CASE q = p
        BY <1>1, <2>1, <4>1 DEF Typed, TypeOK
      <4>2. CASE q # p /\ Candidate[q] = r
        BY <1>1, <2>1, <4>2, NoneAssumption DEF Receipts, AppliedHasReceipt, Typed, TypeOK
      <4>3. CASE q # p /\ Candidate[q] # r
        BY <1>1, <2>1, <4>3 DEF Receipts, AppliedHasReceipt, Typed, TypeOK
      <4>4. QED
        BY <4>1, <4>2, <4>3
    <3>2. QED
      BY <3>1 DEF AppliedHasReceipt
  <2>5. QED
    BY <2>2, <2>3, <2>4 DEF Receipts
<1>5. QED
  BY <1>3, <1>4

LEMMA ReceiptsInvariant == Spec => []Receipts
<1>1. Init => Receipts
  BY CandidateAssumption, NoneAssumption
     DEF Init, Receipts, Owned, ReceiptsAreOwn, AppliedHasReceipt, Deciding
<1>2. Typed /\ Receipts /\ [Next]_vars => Receipts'
  <2> SUFFICES ASSUME Typed, Receipts, [Next]_vars PROVE Receipts'  OBVIOUS
  <2>1. CASE UNCHANGED vars
    BY <2>1, UndecidedStep DEF vars, records, locals
  <2>2. ASSUME NEW t \in Txns, Begin(t) PROVE Receipts'
    BY <2>2, ReceiptsBegin
  <2>3. ASSUME NEW t \in Txns, Continue(t) PROVE Receipts'
    BY <2>3, ReceiptsImport, ReceiptsWrite, ReceiptsWaits, ReceiptsApply DEF Continue
  <2>4. ASSUME NEW t \in Txns, Abort(t) PROVE Receipts'
    <3>1. UNCHANGED <<proposal, receipt>>
      BY <2>4 DEF Abort, Rollback, records
    <3>2. \A u \in Txns : pc'[u] \in Deciding => pc[u] \in Deciding /\ job'[u] = job[u]
      BY <2>4 DEF Abort, Rollback, Finish, Deciding, Typed, TypeOK
    <3>3. QED
      BY <3>1, <3>2, UndecidedStep
  <2>5. ASSUME NEW p \in Proposals, ReviewCandidate(p) PROVE Receipts'
    BY <2>5, UndecidedStep DEF ReviewCandidate, locals
  <2>6. ASSUME NEW r \in Revisions, Retire(r) PROVE Receipts'
    BY <2>6, UndecidedStep DEF Retire, locals
  <2>7. QED
    BY <2>1, <2>2, <2>3, <2>4, <2>5, <2>6 DEF Next
<1>3. QED
  BY <1>1, <1>2, TypedInvariant, PTL DEF Spec

\* A proposal is APPLIED exactly when it owns the receipt of its candidate
\* revision (publish_proposal): of any number of sibling proposals one at most
\* is ever applied, and nothing takes an applied proposal back.
THEOREM AppliedIsReceipted == Spec => []AppliedHasReceipt
<1>1. Receipts => AppliedHasReceipt
  BY DEF Receipts
<1>2. QED
  BY <1>1, ReceiptsInvariant, PTL

-----------------------------------------------------------------------------
(* The published revision.  From the moment it holds the plan's row, a     *)
(* publisher is the only one that can publish, so what it found can only   *)
(* leave PUBLISHED, never be joined by another revision.                   *)

\* Requests that hold the plan, and publishers that have asked for the last time.
Writing == {"import_save", "import_lock", "import_commit"}
Planned == Writing \cup {"find_current", "lock_current", "find_again", "lock_again", "apply"}
Knowing == {"lock_again", "apply"}

PlanIsLock ==
    /\ \A t, u \in Txns : Plan \in rows[t] /\ Plan \in rows[u] => t = u
    /\ \A t \in Txns : pc[t] \in Planned => Plan \in rows[t]

OnePublished == \A q, r \in Published : q = r

Known ==
    \A t \in Txns : pc[t] \in Knowing =>
        Published \ {Candidate[job[t]]} \subseteq {seen[t]}

Alone == PlanIsLock /\ OnePublished /\ Known

LEMMA PlanBegin ==
  ASSUME Typed, PlanIsLock, NEW t \in Txns, Begin(t)
  PROVE  PlanIsLock'
<1>1. pc'[t] \notin Planned /\ (Plan \notin rows'[t] \/ rows' = rows)
  <2>1. ASSUME NEW p \in Proposals, ImportBegin(t, p)
        PROVE  pc'[t] \notin Planned /\ Plan \notin rows'[t]
    BY <2>1, RowsAssumption DEF ImportBegin, Upserted, Planned, Writing, Typed, TypeOK
  <2>2. ASSUME NEW p \in Proposals, NEW step \in {"write", "lock_candidate"}, Start(t, p, step)
        PROVE  pc'[t] \notin Planned /\ rows' = rows
    BY <2>2 DEF Start, Planned, Writing, Typed, TypeOK
  <2>3. QED
    BY <2>1, <2>2 DEF Begin, Submit, Publish, Review
<1>2. \A u \in Txns \ {t} : pc'[u] = pc[u] /\ rows'[u] = rows[u]
  BY DEF Begin, ImportBegin, Submit, Publish, Review, Start, Typed, TypeOK
<1>3. QED
  BY <1>1, <1>2 DEF PlanIsLock

LEMMA PlanFinish ==
  ASSUME Typed, PlanIsLock, NEW t \in Txns, Finish(t)
  PROVE  PlanIsLock'
  BY DEF Finish, PlanIsLock, Planned, Writing, Typed, TypeOK

\* The locks that Continue adds while a request goes on.
LEMMA PlanContinue ==
  ASSUME Typed, PlanIsLock, NEW t \in Txns, Continue(t)
  PROVE  PlanIsLock'
<1> USE DEF Typed, TypeOK
<1>1. CASE Finish(t)
  BY <1>1, PlanFinish
<1>2. CASE ImportPlan(t) /\ ~Finish(t)
  BY <1>2 DEF ImportPlan, Rollback, Upserted, RowFree, PlanIsLock, Planned, Writing
<1>3. CASE (ImportSave(t) \/ ImportLock(t)) /\ ~Finish(t)
  <2>1. /\ pc[t] \in Planned /\ \A u \in Txns \ {t} : pc'[u] = pc[u] /\ rows'[u] = rows[u]
        /\ (Plan \in rows'[t]) <=> (Plan \in rows[t])
    BY <1>3, CandidateAssumption, RowsAssumption
       DEF ImportSave, ImportLock, Rollback, Planned, Writing, HasJob
  <2>2. QED
    BY <2>1 DEF PlanIsLock
<1>4. CASE LockReviewed(t) \/ LockCandidate(t)
  <2>1. /\ pc'[t] \notin Planned /\ \A u \in Txns \ {t} : pc'[u] = pc[u] /\ rows'[u] = rows[u]
        /\ Plan \notin rows'[t]
    BY <1>4, CandidateAssumption, RowsAssumption DEF LockReviewed, LockCandidate, Planned, Writing, HasJob
  <2>2. QED
    BY <2>1 DEF PlanIsLock
<1>5. CASE LockPlan(t)
  BY <1>5 DEF LockPlan, WithPlan, RowFree, PlanIsLock, Planned, Writing
<1>6. CASE (FindCurrent(t) \/ FindAgain(t) \/ LockCurrent(t) \/ LockAgain(t)) /\ ~Finish(t)
  <2>1. /\ pc[t] \in Planned /\ \A u \in Txns \ {t} : pc'[u] = pc[u] /\ rows'[u] = rows[u]
        /\ Plan \in rows[t] => Plan \in rows'[t]
    BY <1>6 DEF FindCurrent, FindAgain, LockCurrent, LockAgain, Find, Drop, Rollback, WithCurrent,
       Planned, Writing
  <2>2. QED
    BY <2>1 DEF PlanIsLock
<1>7. QED
  BY <1>1, <1>2, <1>3, <1>4, <1>5, <1>6
     DEF Continue, ImportCommit, WriteDecision, Apply, Rollback

\* A step that publishes nothing and leaves its request with no last query made.
LEMMA NothingPublished ==
  ASSUME Alone, PlanIsLock', Published' \subseteq Published, NEW t \in Txns,
         pc'[t] \notin Knowing,
         \A u \in Txns \ {t} : pc'[u] = pc[u] /\ job'[u] = job[u] /\ seen'[u] = seen[u]
  PROVE  Alone'
  BY DEF Alone, OnePublished, Known

LEMMA AloneBegin ==
  ASSUME Typed, Alone, NEW t \in Txns, Begin(t)
  PROVE  Alone'
<1>1. Published' = Published /\ pc'[t] \notin Knowing
  BY DEF Begin, ImportBegin, Submit, Publish, Review, Start, Published, Knowing, records, Typed,
     TypeOK
<1>2. \A u \in Txns \ {t} : pc'[u] = pc[u] /\ job'[u] = job[u] /\ seen'[u] = seen[u]
  BY DEF Begin, ImportBegin, Submit, Publish, Review, Start, Typed, TypeOK
<1>3. PlanIsLock'
  BY PlanBegin DEF Alone
<1>4. QED
  BY <1>1, <1>2, <1>3, NothingPublished

\* No other step of a request makes a revision PUBLISHED.
LEMMA OnlyApplyPublishes ==
  ASSUME Typed, NEW t \in Txns, Continue(t), ~Apply(t)
  PROVE  Published' \subseteq Published
<1> USE DEF Typed, TypeOK
<1>1. CASE WriteDecision(t)
  <2>1. verdict[t] \in DOMAIN ProposalAfter
    BY <1>1 DEF WriteDecision, HasJob
  <2>2. RevisionAfter[verdict[t]] # "PUBLISHED"
    BY <2>1 DEF ProposalAfter, RevisionAfter
  <2>3. revision' = [revision EXCEPT ![Candidate[job[t]]] = RevisionAfter[verdict[t]]]
    BY <1>1 DEF WriteDecision
  <2>4. QED
    BY <2>2, <2>3 DEF Published
<1>2. CASE ImportCommit(t)
  BY <1>2 DEF ImportCommit, Published
<1>3. CASE ~WriteDecision(t) /\ ~ImportCommit(t)
  <2>1. UNCHANGED revision
    BY <1>3 DEF Continue, ImportPlan, ImportSave, ImportLock, LockReviewed, LockCandidate,
       LockPlan, FindCurrent, LockCurrent, FindAgain, LockAgain, Find, Drop, Rollback, records
  <2>2. QED
    BY <2>1 DEF Published
<1>4. QED
  BY <1>1, <1>2, <1>3

\* The steps of a request up to its second query.
LEMMA AloneContinue ==
  ASSUME Typed, Alone, NEW t \in Txns, Continue(t), ~FindAgain(t), ~LockAgain(t),
         Apply(t) => Rollback(t)
  PROVE  Alone'
<1> USE DEF Typed, TypeOK
<1>1. PlanIsLock'
  BY PlanContinue DEF Alone
<1>2. Published' \subseteq Published
  BY OnlyApplyPublishes DEF Rollback, records, Published
<1>3. pc'[t] \notin Knowing
  BY DEF Continue, ImportPlan, ImportSave, ImportLock, ImportCommit, LockReviewed, WriteDecision,
     LockCandidate, LockPlan, FindCurrent, LockCurrent, Find, Drop, Rollback, Finish, Knowing
<1>4. \A u \in Txns \ {t} : pc'[u] = pc[u] /\ job'[u] = job[u] /\ seen'[u] = seen[u]
  BY DEF Continue, ImportPlan, ImportSave, ImportLock, ImportCommit, LockReviewed, WriteDecision,
     LockCandidate, LockPlan, FindCurrent, LockCurrent, Find, Drop, Rollback, Finish
<1>5. QED
  BY <1>1, <1>2, <1>3, <1>4, NothingPublished

\* The second query finds the one published revision, or none.
LEMMA AloneAgain ==
  ASSUME Typed, Alone, NEW t \in Txns, FindAgain(t) \/ LockAgain(t)
  PROVE  Alone'
<1> USE DEF Typed, TypeOK
<1>1. PlanIsLock'
  BY PlanContinue DEF Alone, Continue
<1>2. revision' = revision /\ job' = job /\ Published' = Published
  BY DEF FindAgain, LockAgain, Find, Drop, records, Published
<1>3. \A u \in Txns \ {t} : pc'[u] = pc[u] /\ seen'[u] = seen[u]
  BY DEF FindAgain, LockAgain, Find, Drop
<1>4. Published \ {Candidate[job[t]]} \subseteq {seen'[t]}
  <2>1. CASE FindAgain(t)
    <3>1. CASE {r \in Revisions : IsCurrent(t, r)} = {}
      BY <3>1 DEF IsCurrent, Published
    <3>2. CASE {r \in Revisions : IsCurrent(t, r)} # {}
      <4>1. seen'[t] \in Published
        BY <2>1, <3>2 DEF FindAgain, Find, IsCurrent, Published
      <4>2. QED
        BY <4>1 DEF Alone, OnePublished
    <3>3. QED
      BY <3>1, <3>2
  <2>2. CASE LockAgain(t) /\ ~Dropped(t)
    BY <2>2 DEF LockAgain, Drop, Alone, Known, Knowing
  <2>3. CASE LockAgain(t) /\ Dropped(t)
    <3>1. Published \ {Candidate[job[t]]} \subseteq {seen[t]}
      BY <2>3 DEF LockAgain, Alone, Known, Knowing
    <3>2. seen[t] \notin Published \ {Candidate[job[t]]}
      BY <2>3 DEF Dropped, IsCurrent, Published
    <3>3. QED
      BY <3>1, <3>2
  <2>4. QED
    BY <2>1, <2>2, <2>3
<1>5. Known'
  BY <1>2, <1>3, <1>4 DEF Alone, Known
<1>6. QED
  BY <1>1, <1>2, <1>5 DEF Alone, OnePublished

\* No other request has made its last query while this one holds the plan.
LEMMA AloneApply ==
  ASSUME Typed, Alone, NEW t \in Txns, Apply(t), ~Rollback(t)
  PROVE  Alone'
<1> USE DEF Typed, TypeOK
<1> DEFINE r == Candidate[job[t]]
<1>1. PlanIsLock'
  BY PlanContinue DEF Alone, Continue
<1>2. ASSUME NEW u \in Txns, u # t PROVE pc'[u] \notin Knowing
  BY <1>2 DEF Apply, Finish, Alone, PlanIsLock, Planned, Knowing
<1>3. pc'[t] \notin Knowing
  BY DEF Apply, Finish, Knowing
<1>4. Published' \subseteq {r}
  <2>1. Published \subseteq {r, seen[t]}
    BY DEF Apply, IndexViolated
  <2>2. ASSUME NEW q \in Revisions, q # r, revision'[q] = "PUBLISHED" PROVE FALSE
    <3>1. revision' = [x \in Revisions |-> IF x = r THEN "PUBLISHED"
                          ELSE IF x = seen[t] THEN "SUPERSEDED" ELSE revision[x]]
      BY DEF Apply
    <3>2. QED
      BY <2>1, <2>2, <3>1 DEF Published
  <2>3. QED
    BY <2>2 DEF Published
<1>5. QED
  BY <1>1, <1>2, <1>3, <1>4 DEF Alone, OnePublished, Known

LEMMA AloneInvariant == Spec => []Alone
<1>1. Init => Alone
  BY DEF Init, Alone, PlanIsLock, OnePublished, Known, Published, Planned, Writing, Knowing
<1>2. Typed /\ Alone /\ [Next]_vars => Alone'
  <2> SUFFICES ASSUME Typed, Alone, [Next]_vars PROVE Alone'  OBVIOUS
  <2>1. CASE UNCHANGED vars
    BY <2>1 DEF vars, records, locals, Alone, PlanIsLock, OnePublished, Known, Published
  <2>2. ASSUME NEW t \in Txns, Begin(t) PROVE Alone'
    BY <2>2, AloneBegin
  <2>3. ASSUME NEW t \in Txns, Continue(t) PROVE Alone'
    BY <2>3, AloneContinue, AloneAgain, AloneApply
  <2>4. ASSUME NEW t \in Txns, Abort(t) PROVE Alone'
    <3>1. PlanIsLock'
      BY <2>4, PlanFinish DEF Abort, Rollback, Alone
    <3>2. Published' = Published
      BY <2>4 DEF Abort, Rollback, records, Published
    <3>3. /\ pc'[t] \notin Knowing
          /\ \A u \in Txns \ {t} : pc'[u] = pc[u] /\ job'[u] = job[u] /\ seen'[u] = seen[u]
      BY <2>4 DEF Abort, Rollback, Finish, Knowing, Typed, TypeOK
    <3>4. QED
      BY <3>1, <3>2, <3>3, NothingPublished
  <2>5. ASSUME NEW p \in Proposals, ReviewCandidate(p) PROVE Alone'
    BY <2>5 DEF ReviewCandidate, locals, Alone, PlanIsLock, OnePublished, Known, Published
  <2>6. ASSUME NEW r \in Revisions, Retire(r) PROVE Alone'
    <3>1. Published' \subseteq Published
      BY <2>6 DEF Retire, Published, Typed, TypeOK
    <3>2. QED
      BY <2>6, <3>1 DEF Retire, locals, Alone, PlanIsLock, OnePublished, Known
  <2>7. QED
    BY <2>1, <2>2, <2>3, <2>4, <2>5, <2>6 DEF Next
<1>3. QED
  BY <1>1, <1>2, TypedInvariant, PTL DEF Spec

\* A plan never has two published revisions, and a publisher about to commit
\* (CurriculumRevisionService.publish) knows which one that is, because it has
\* kept the plan's row locked since before it asked.
THEOREM PublisherKnowsCurrent == Spec => []CurrentIsKnown
<1>1. OnePublished => Cardinality(Published) <= 1
  <2> SUFFICES ASSUME OnePublished PROVE Cardinality(Published) <= 1  OBVIOUS
  <2>1. CASE Published = {}
    BY <2>1, FS_EmptySet
  <2>2. CASE Published # {}
    <3>1. PICK r \in Published : TRUE
      BY <2>2
    <3>2. Published = {r}
      BY <3>1 DEF OnePublished
    <3>3. QED
      BY <3>2, FS_Singleton
  <2>3. QED
    BY <2>1, <2>2
<1>2. Alone => CurrentIsKnown
  BY <1>1 DEF Alone, Known, Knowing, CurrentIsKnown
<1>3. QED
  BY <1>2, AloneInvariant, PTL

-----------------------------------------------------------------------------
(* Published content.  An import holds the plan from before it has found a *)
(* draft until it has written it, so nobody can publish that draft.        *)

DraftsStay == \A t \in Txns : pc[t] \in Writing => Candidate[job[t]] \notin Published

\* A step of t that publishes nothing, or another's while t holds the plan.
LEMMA NoDraftPublished ==
  ASSUME DraftsStay, NEW t \in Txns, Published' \subseteq Published,
         pc'[t] \in Writing => pc[t] \in Writing /\ job'[t] = job[t],
         \A u \in Txns \ {t} : pc'[u] = pc[u] /\ job'[u] = job[u]
  PROVE  DraftsStay'
  BY DEF DraftsStay

LEMMA DraftsContinue ==
  ASSUME Typed, Alone, DraftsStay, NEW t \in Txns, Continue(t)
  PROVE  DraftsStay'
<1> USE DEF Typed, TypeOK
<1>1. \A u \in Txns \ {t} : pc'[u] = pc[u] /\ job'[u] = job[u]
  BY DEF Continue, ImportPlan, ImportSave, ImportLock, ImportCommit, LockReviewed, WriteDecision,
     LockCandidate, LockPlan, FindCurrent, LockCurrent, FindAgain, LockAgain, Find, Drop, Apply,
     Rollback, Finish
<1>2. CASE Apply(t)
  <2>1. pc[t] \in Planned /\ pc'[t] \notin Writing
    BY <1>2 DEF Apply, Rollback, Finish, Planned, Writing
  <2>2. \A u \in Txns \ {t} : pc'[u] \notin Writing
    BY <1>1, <2>1 DEF Alone, PlanIsLock, Planned, Writing
  <2>3. QED
    BY <2>1, <2>2 DEF DraftsStay
<1>3. CASE ImportPlan(t)
  <2>1. UNCHANGED revision
    BY <1>3 DEF ImportPlan, Rollback, records
  <2>2. pc'[t] \in Writing => Candidate[job'[t]] \notin Published
    BY <1>3 DEF ImportPlan, Rollback, Finish, Writing, Published
  <2>3. QED
    BY <1>1, <2>1, <2>2 DEF DraftsStay, Published
<1>4. CASE ~Apply(t) /\ ~ImportPlan(t)
  <2>1. Published' \subseteq Published
    BY <1>4, OnlyApplyPublishes DEF Continue
  <2>2. pc'[t] \in Writing => pc[t] \in Writing /\ job'[t] = job[t]
    BY <1>4 DEF Continue, ImportSave, ImportLock, ImportCommit, LockReviewed, WriteDecision,
       LockCandidate, LockPlan, FindCurrent, LockCurrent, FindAgain, LockAgain, Find, Drop,
       Rollback, Finish, Writing
  <2>3. QED
    BY <1>1, <2>1, <2>2, NoDraftPublished
<1>5. QED
  BY <1>2, <1>3, <1>4

LEMMA DraftsInvariant == Spec => []DraftsStay
<1>1. Init => DraftsStay
  BY DEF Init, DraftsStay, Writing
<1>2. Typed /\ Alone /\ DraftsStay /\ [Next]_vars => DraftsStay'
  <2> SUFFICES ASSUME Typed, Alone, DraftsStay, [Next]_vars PROVE DraftsStay'  OBVIOUS
  <2>1. CASE UNCHANGED vars
    BY <2>1 DEF vars, records, locals, DraftsStay, Published
  <2>2. ASSUME NEW t \in Txns, Begin(t) PROVE DraftsStay'
    <3>1. /\ Published' = Published /\ pc'[t] \notin Writing
          /\ \A u \in Txns \ {t} : pc'[u] = pc[u] /\ job'[u] = job[u]
      BY <2>2 DEF Begin, ImportBegin, Submit, Publish, Review, Start, Published, Writing, records,
         Typed, TypeOK
    <3>2. QED
      BY <3>1, NoDraftPublished
  <2>3. ASSUME NEW t \in Txns, Continue(t) PROVE DraftsStay'
    BY <2>3, DraftsContinue
  <2>4. ASSUME NEW t \in Txns, Abort(t) PROVE DraftsStay'
    <3>1. /\ Published' = Published /\ pc'[t] \notin Writing
          /\ \A u \in Txns \ {t} : pc'[u] = pc[u] /\ job'[u] = job[u]
      BY <2>4 DEF Abort, Rollback, Finish, Published, Writing, records, Typed, TypeOK
    <3>2. QED
      BY <3>1, NoDraftPublished
  <2>5. ASSUME NEW p \in Proposals, ReviewCandidate(p) PROVE DraftsStay'
    BY <2>5 DEF ReviewCandidate, locals, DraftsStay, Published
  <2>6. ASSUME NEW r \in Revisions, Retire(r) PROVE DraftsStay'
    BY <2>6 DEF Retire, locals, DraftsStay, Published, Typed, TypeOK
  <2>7. QED
    BY <2>1, <2>2, <2>3, <2>4, <2>5, <2>6 DEF Next
<1>3. QED
  BY <1>1, <1>2, TypedInvariant, AloneInvariant, PTL DEF Spec

\* import_curriculum_baseline never writes into a revision that has been
\* published since it read it as a draft.
THEOREM ImportSparesPublished == Spec => PublishedContentIsFixed
<1>1. Typed /\ DraftsStay /\ [Next]_vars => [\A r \in Published : content'[r] = content[r]]_vars
  <2> SUFFICES ASSUME Typed, DraftsStay, Next, NEW r \in Published
               PROVE  content'[r] = content[r]
    BY DEF vars
  <2>1. CASE \E t \in Txns : ImportCommit(t)
    <3>1. PICK t \in Txns : ImportCommit(t)
      BY <2>1
    <3>2. Candidate[job[t]] # r
      BY <3>1 DEF ImportCommit, DraftsStay, Writing
    <3>3. QED
      BY <3>1, <3>2 DEF ImportCommit, Typed, TypeOK, Published
  <2>2. CASE ~\E t \in Txns : ImportCommit(t)
    <3>1. CASE \E t \in Txns : Begin(t) \/ Abort(t)
      BY <3>1 DEF Begin, ImportBegin, Submit, Publish, Review, Start, Abort, Rollback, records
    <3>2. ASSUME NEW t \in Txns, Continue(t) PROVE UNCHANGED content
      <4>1. CASE ImportPlan(t) \/ ImportSave(t) \/ ImportLock(t)
        BY <4>1 DEF ImportPlan, ImportSave, ImportLock, Rollback, records
      <4>2. CASE LockReviewed(t) \/ WriteDecision(t) \/ LockCandidate(t) \/ LockPlan(t)
        BY <4>2 DEF LockReviewed, WriteDecision, LockCandidate, LockPlan, records
      <4>3. CASE FindCurrent(t) \/ LockCurrent(t) \/ FindAgain(t) \/ LockAgain(t)
        BY <4>3 DEF FindCurrent, LockCurrent, FindAgain, LockAgain, Find, Drop, Rollback, records
      <4>4. CASE Apply(t)
        BY <4>4 DEF Apply, Rollback, records
      <4>5. QED
        BY <2>2, <3>2, <4>1, <4>2, <4>3, <4>4 DEF Continue
    <3>3. CASE \E p \in Proposals : ReviewCandidate(p)
      BY <3>3 DEF ReviewCandidate
    <3>4. CASE \E q \in Revisions : Retire(q)
      BY <3>4 DEF Retire
    <3>5. QED
      BY <3>1, <3>2, <3>3, <3>4 DEF Next
  <2>3. QED
    BY <2>1, <2>2
<1>2. QED
  BY <1>1, TypedInvariant, DraftsInvariant, PTL DEF Spec, PublishedContentIsFixed

-----------------------------------------------------------------------------
(* The events.  The revision a publisher has found and locked stays the    *)
(* published one until it commits, so what it announces is what it         *)
(* replaces; and what a publication has replaced once is never published   *)
(* again, so nothing is replaced twice.                                    *)

Located == {"find_again", "lock_again", "apply"}

\* What a publisher knows of the revision it replaces.
FoundBy(t) ==
    LET others == Published \ {Candidate[job[t]]} IN
    /\ pc[t] \notin Located => replaced[t] = None
    /\ pc[t] = "lock_current" => others \subseteq {seen[t]}
    /\ pc[t] \in Located => others \subseteq {replaced[t]}
    /\ replaced[t] # None =>
          /\ replaced[t] \in others /\ base[job[t]] = replaced[t]
          /\ replaced[t] \in rows[t] /\ \A u \in Txns \ {t} : replaced[t] \notin rows[u]
    /\ pc[t] \in {"lock_again", "apply"} => seen[t] = replaced[t]

Found ==
    \A t \in Txns :
        /\ FoundBy(t)
        /\ pc[t] = "audit" => Candidate[job[t]] \in rows[t]
        /\ pc[t] \in Writing => seen[t] = supersedes[Candidate[job[t]]]

\* What happens to a request while another one takes a step.
LEMMA OthersStand ==
  ASSUME Typed, NEW t \in Txns, Begin(t) \/ Continue(t) \/ Abort(t), NEW u \in Txns \ {t}
  PROVE  /\ pc'[u] = pc[u] /\ job'[u] = job[u] /\ seen'[u] = seen[u]
         /\ replaced'[u] = replaced[u] /\ rows'[u] = rows[u]
<1> USE DEF Typed, TypeOK
<1>1. CASE Begin(t)
  BY <1>1 DEF Begin, ImportBegin, Submit, Publish, Review, Start
<1>2. CASE Abort(t)
  BY <1>2 DEF Abort, Rollback, Finish
<1>3. CASE ImportPlan(t) \/ ImportSave(t) \/ ImportLock(t) \/ ImportCommit(t)
  BY <1>3 DEF ImportPlan, ImportSave, ImportLock, ImportCommit, Rollback, Finish
<1>4. CASE LockReviewed(t) \/ WriteDecision(t) \/ LockCandidate(t) \/ LockPlan(t) \/ Apply(t)
  BY <1>4 DEF LockReviewed, WriteDecision, LockCandidate, LockPlan, Apply, Rollback, Finish
<1>5. CASE FindCurrent(t) \/ FindAgain(t)
  BY <1>5 DEF FindCurrent, FindAgain, Find
<1>6. CASE LockCurrent(t) \/ LockAgain(t)
  BY <1>6 DEF LockCurrent, LockAgain, Drop, Rollback, Finish
<1>7. QED
  BY <1>1, <1>2, <1>3, <1>4, <1>5, <1>6 DEF Continue

\* While one request holds the plan, another neither publishes nor imports.
LEMMA OutsidePlan ==
  ASSUME Typed, NEW t \in Txns, Begin(t) \/ Continue(t) \/ Abort(t), pc[t] \notin Planned
  PROVE  /\ Published' \subseteq Published /\ base' = base /\ supersedes' = supersedes
         /\ WriteDecision(t) \/ revision' = revision
<1> USE DEF Planned, Writing
<1>1. CASE Begin(t)
  BY <1>1 DEF Begin, ImportBegin, Submit, Publish, Review, Start, records, Published
<1>2. CASE Abort(t)
  BY <1>2 DEF Abort, Rollback, records, Published
<1>3. CASE Continue(t)
  <2>1. CASE ImportPlan(t)
    BY <2>1 DEF ImportPlan, Rollback, records, Published
  <2>2. CASE LockReviewed(t) \/ LockCandidate(t) \/ LockPlan(t)
    BY <2>2 DEF LockReviewed, LockCandidate, LockPlan, records, Published
  <2>3. CASE WriteDecision(t)
    <3>1. Published' \subseteq Published
      BY <1>3, <2>3, OnlyApplyPublishes DEF WriteDecision, Apply
    <3>2. QED
      BY <2>3, <3>1 DEF WriteDecision
  <2>4. QED
    BY <1>3, <2>1, <2>2, <2>3
       DEF Continue, ImportSave, ImportLock, ImportCommit, FindCurrent, LockCurrent, FindAgain,
           LockAgain, Find, Apply
<1>4. QED
  BY <1>1, <1>2, <1>3

\* Outside the plan a request locks no revision that another has locked.
LEMMA LocksOutsidePlan ==
  ASSUME Typed, NEW t \in Txns, Begin(t) \/ Continue(t) \/ Abort(t), pc[t] \notin Planned,
         NEW r \in Published, r \in rows'[t], r \notin rows[t]
  PROVE  RowFree(t, r)
<1> USE DEF Typed, TypeOK
<1>1. r \in Revisions /\ r # Plan /\ r # Institution /\ revision[r] = "PUBLISHED"
  BY RowsAssumption DEF Published
<1>2. CASE Begin(t) \/ Abort(t)
  BY <1>1, <1>2 DEF Begin, ImportBegin, Upserted, Submit, Publish, Review, Start, Abort, Rollback, Finish
<1>3. CASE ImportPlan(t)
  BY <1>1, <1>3 DEF ImportPlan, Upserted, Rollback, Finish
<1>4. CASE LockReviewed(t) \/ LockCandidate(t) \/ LockPlan(t) \/ WriteDecision(t)
  BY <1>1, <1>4 DEF LockReviewed, LockCandidate, LockPlan, WithPlan, WriteDecision, Finish
<1>5. QED
  BY <1>2, <1>3, <1>4
     DEF Planned, Writing, Continue, ImportSave, ImportLock, ImportCommit, FindCurrent, LockCurrent,
         FindAgain, LockAgain, Find, Apply

LEMMA FoundByOthers ==
  ASSUME Typed, Alone, Found, NEW t \in Txns, Begin(t) \/ Continue(t) \/ Abort(t),
         NEW u \in Txns \ {t}
  PROVE  FoundBy(u)'
<1>1. /\ pc'[u] = pc[u] /\ job'[u] = job[u] /\ seen'[u] = seen[u]
      /\ replaced'[u] = replaced[u] /\ rows'[u] = rows[u]
  BY OthersStand
<1>2. CASE pc[u] \notin Located \cup {"lock_current"}
  BY <1>1, <1>2 DEF Found, FoundBy
<1>3. CASE pc[u] \in Located \cup {"lock_current"}
  <2>1. pc[t] \notin Planned
    BY <1>3 DEF Located, Planned, Alone, PlanIsLock
  <2>2. Published' \subseteq Published /\ base' = base
    BY <2>1, OutsidePlan
  <2>3. ASSUME replaced[u] # None
        PROVE  replaced[u] \in Published' /\ \A w \in Txns \ {u} : replaced[u] \notin rows'[w]
    <3>1. replaced[u] \in Published /\ replaced[u] \in rows[u] /\ replaced[u] \notin rows[t]
      BY <2>3 DEF Found, FoundBy
    <3>2. revision'[replaced[u]] = revision[replaced[u]]
      <4>1. CASE WriteDecision(t)
        BY <3>1, <4>1 DEF WriteDecision, Found, Typed, TypeOK, Published
      <4>2. CASE revision' = revision
        BY <4>2
      <4>3. QED
        BY <2>1, <4>1, <4>2, OutsidePlan
    <3>3. replaced[u] \notin rows'[t]
      BY <2>1, <3>1, LocksOutsidePlan DEF RowFree
    <3>4. \A w \in Txns \ {t} : rows'[w] = rows[w]
      BY OthersStand
    <3>5. QED
      BY <2>3, <3>1, <3>2, <3>3, <3>4 DEF Found, FoundBy, Published
  <2>4. QED
    BY <1>1, <1>3, <2>2, <2>3 DEF Found, FoundBy
<1>4. QED
  BY <1>2, <1>3

\* The steps of the publisher itself.
LEMMA FoundByItself ==
  ASSUME Typed, Receipts, Alone, Found, NEW t \in Txns, Begin(t) \/ Continue(t) \/ Abort(t)
  PROVE  FoundBy(t)'
<1> USE DEF Typed, TypeOK
<1> DEFINE others == Published \ {Candidate[job[t]]}
<1>1. FoundBy(t)
  BY DEF Found
<1>2. CASE Finish(t)
  <2>1. pc'[t] = "idle" /\ replaced'[t] = None
    BY <1>2 DEF Finish
  <2>2. QED
    BY <2>1 DEF FoundBy, Located
<1>3. CASE pc[t] \notin Located \cup {"find_current", "lock_current"} /\ ~Finish(t)
  <2>1. pc'[t] \notin Located \cup {"lock_current"} /\ replaced'[t] = replaced[t]
    <3>1. CASE Begin(t)
      BY <3>1 DEF Begin, ImportBegin, Submit, Publish, Review, Start, Located
    <3>2. CASE ImportPlan(t) \/ ImportSave(t) \/ ImportLock(t)
      BY <1>3, <3>2 DEF ImportPlan, ImportSave, ImportLock, Rollback, Located
    <3>3. CASE LockReviewed(t) \/ LockCandidate(t) \/ LockPlan(t)
      BY <3>3 DEF LockReviewed, LockCandidate, LockPlan, Located
    <3>4. QED
      BY <1>3, <3>1, <3>2, <3>3
         DEF Continue, ImportCommit, WriteDecision, FindCurrent, LockCurrent, FindAgain, LockAgain,
             Find, Apply, Abort, Rollback, Located
  <2>2. QED
    BY <1>1, <1>3, <2>1 DEF FoundBy, Located
<1>4. CASE FindCurrent(t)
  <2>1. /\ replaced'[t] = None /\ job'[t] = job[t] /\ Published' = Published
    BY <1>1, <1>4 DEF FindCurrent, Find, FoundBy, Located, records, Published
  <2>2. CASE {r \in Revisions : IsCurrent(t, r)} = {}
    <3>1. others = {} /\ pc'[t] = "find_again"
      BY <1>4, <2>2 DEF FindCurrent, Find, IsCurrent, Published
    <3>2. QED
      BY <2>1, <3>1 DEF FoundBy, Located
  <2>3. CASE {r \in Revisions : IsCurrent(t, r)} # {}
    <3>1. pc'[t] = "lock_current" /\ seen'[t] \in Published
      BY <1>4, <2>3 DEF FindCurrent, Find, IsCurrent, Published
    <3>2. others \subseteq {seen'[t]}
      BY <3>1 DEF Alone, OnePublished
    <3>3. QED
      BY <2>1, <3>1, <3>2 DEF FoundBy, Located
  <2>4. QED
    BY <2>2, <2>3
<1>5. CASE LockCurrent(t) /\ ~Finish(t)
  <2>1. pc[t] = "lock_current" /\ RowFree(t, seen[t]) /\ ~Rollback(t)
    BY <1>5 DEF LockCurrent, Rollback
  <2>2. /\ job'[t] = job[t] /\ Published' = Published /\ base' = base /\ pc'[t] = "find_again"
        /\ \A u \in Txns \ {t} : rows'[u] = rows[u]
    BY <1>5, <2>1 DEF LockCurrent, Drop, records, Published
  <2>3. CASE Dropped(t)
    <3>1. replaced'[t] = None
      BY <1>1, <1>5, <2>1, <2>3 DEF LockCurrent, Drop, FoundBy, Located
    <3>2. others = {}
      BY <1>1, <2>1, <2>3 DEF FoundBy, Dropped, IsCurrent, Published
    <3>3. QED
      BY <2>2, <3>1, <3>2 DEF FoundBy, Located
  <2>4. CASE ~Dropped(t)
    <3>1. /\ replaced'[t] = seen[t] /\ base[job[t]] = seen[t] /\ seen[t] \in rows'[t]
      BY <1>5, <2>1, <2>4 DEF LockCurrent, Drop, WithCurrent
    <3>2. seen[t] \in others
      BY <2>1, <2>4 DEF Dropped, IsCurrent, Published, HasJob
    <3>3. QED
      BY <1>1, <2>1, <2>2, <3>1, <3>2 DEF FoundBy, Located, RowFree
  <2>5. QED
    BY <2>3, <2>4
<1>6. CASE FindAgain(t)
  <2>1. /\ replaced'[t] = replaced[t] /\ job'[t] = job[t] /\ Published' = Published
        /\ base' = base /\ rows' = rows /\ pc[t] = "find_again"
    BY <1>6 DEF FindAgain, Find, records, Published
  <2>2. pc'[t] \in {"lock_again", "apply"} /\ seen'[t] = replaced[t]
    <3>1. CASE {r \in Revisions : IsCurrent(t, r)} = {}
      <4>1. others = {} /\ pc'[t] = "apply" /\ seen'[t] = None
        BY <1>6, <3>1 DEF FindAgain, Find, IsCurrent, Published
      <4>2. QED
        BY <1>1, <4>1 DEF FoundBy
    <3>2. CASE {r \in Revisions : IsCurrent(t, r)} # {}
      <4>1. pc'[t] = "lock_again" /\ seen'[t] \in others
        BY <1>6, <3>2 DEF FindAgain, Find, IsCurrent, Published
      <4>2. QED
        BY <1>1, <2>1, <4>1 DEF FoundBy, Located
    <3>3. QED
      BY <3>1, <3>2
  <2>3. QED
    BY <1>1, <2>1, <2>2 DEF FoundBy, Located
<1>7. CASE LockAgain(t)
  <2>1. pc[t] = "lock_again" /\ seen[t] = replaced[t] /\ seen[t] \in Revisions
    BY <1>1, <1>7 DEF LockAgain, FoundBy, HasJob
  <2>2. seen[t] \in others
    BY <1>1, <2>1, NoneAssumption DEF FoundBy
  <2>3. ~Dropped(t)
    BY <2>2 DEF Dropped, IsCurrent, Published
  <2>4. /\ replaced'[t] = replaced[t] /\ job'[t] = job[t] /\ Published' = Published
        /\ base' = base /\ pc'[t] = "apply" /\ seen'[t] = seen[t] /\ rows[t] \subseteq rows'[t]
        /\ \A u \in Txns \ {t} : rows'[u] = rows[u]
    BY <1>7, <2>3 DEF LockAgain, Drop, WithCurrent, records, Published
  <2>5. QED
    BY <1>1, <2>1, <2>4 DEF FoundBy, Located
<1>8. pc[t] \in Located \cup {"find_current", "lock_current"} =>
         Finish(t) \/ FindCurrent(t) \/ LockCurrent(t) \/ FindAgain(t) \/ LockAgain(t)
  BY DEF Located, Begin, ImportBegin, Submit, Publish, Review, Start, Continue, ImportPlan,
     ImportSave, ImportLock, ImportCommit, LockReviewed, WriteDecision, LockCandidate, LockPlan,
     Apply, Abort, Rollback
<1>9. QED
  BY <1>2, <1>3, <1>4, <1>5, <1>6, <1>7, <1>8

\* What an import has read of its revision is still so when it writes it.
LEMMA FoundRest ==
  ASSUME Typed, Alone, Found, NEW t \in Txns, Begin(t) \/ Continue(t) \/ Abort(t),
         NEW u \in Txns
  PROVE  /\ pc'[u] = "audit" => Candidate[job'[u]] \in rows'[u]
         /\ pc'[u] \in Writing => seen'[u] = supersedes'[Candidate[job'[u]]]
<1> USE DEF Typed, TypeOK
<1>1. CASE u # t
  <2>1. /\ pc'[u] = pc[u] /\ job'[u] = job[u] /\ seen'[u] = seen[u] /\ rows'[u] = rows[u]
    BY <1>1, OthersStand
  <2>2. pc[u] \in Writing => supersedes' = supersedes
    <3>1. pc[u] \in Writing => pc[t] \notin Planned
      BY <1>1 DEF Alone, PlanIsLock, Planned
    <3>2. QED
      BY <3>1, OutsidePlan
  <2>3. QED
    BY <2>1, <2>2 DEF Found
<1>2. CASE u = t
  <2>1. CASE LockReviewed(t)
    BY <1>2, <2>1 DEF LockReviewed, Writing
  <2>2. CASE ImportPlan(t) /\ ~Rollback(t)
    BY <1>2, <2>2 DEF ImportPlan, Writing, records
  <2>3. CASE (ImportSave(t) \/ ImportLock(t)) /\ ~Rollback(t)
    BY <1>2, <2>3 DEF ImportSave, ImportLock, Writing, records, Found
  <2>4. CASE ~(LockReviewed(t) \/ ImportPlan(t) \/ ImportSave(t) \/ ImportLock(t)) \/ Rollback(t)
    <3>1. pc'[t] # "audit" /\ pc'[t] \notin Writing
      BY <2>4 DEF Begin, ImportBegin, Submit, Publish, Review, Start, Continue, ImportCommit,
         WriteDecision, LockCandidate, LockPlan, FindCurrent, LockCurrent, FindAgain, LockAgain,
         Find, Drop, Apply, Abort, Rollback, Finish, Writing
    <3>2. QED
      BY <1>2, <3>1
  <2>5. QED
    BY <2>1, <2>2, <2>3, <2>4
<1>3. QED
  BY <1>1, <1>2

LEMMA FoundInvariant == Spec => []Found
<1>1. Init => Found
  BY DEF Init, Found, FoundBy, Located, Writing
<1>2. Typed /\ Receipts /\ Alone /\ Found /\ [Next]_vars => Found'
  <2> SUFFICES ASSUME Typed, Receipts, Alone, Found, [Next]_vars PROVE Found'  OBVIOUS
  <2>1. CASE UNCHANGED vars
    BY <2>1 DEF vars, records, locals, Found, FoundBy, Published
  <2>2. ASSUME NEW t \in Txns, Begin(t) \/ Continue(t) \/ Abort(t) PROVE Found'
    BY <2>2, FoundByItself, FoundByOthers, FoundRest DEF Found
  <2>3. ASSUME NEW p \in Proposals, ReviewCandidate(p) PROVE Found'
    BY <2>3 DEF ReviewCandidate, locals, Found, FoundBy, Published
  <2>4. ASSUME NEW r \in Revisions, Retire(r) PROVE Found'
    <3>1. Published' = Published \ {r}
      BY <2>4 DEF Retire, Published, Typed, TypeOK
    <3>2. \A t \in Txns : r \notin rows[t]
      BY <2>4 DEF Retire
    <3>3. QED
      BY <2>4, <3>1, <3>2 DEF Retire, locals, Found, FoundBy
  <2>5. QED
    BY <2>1, <2>2, <2>3, <2>4 DEF Next
<1>3. QED
  BY <1>1, <1>2, TypedInvariant, ReceiptsInvariant, AloneInvariant, PTL DEF Spec

\* What an import has read of a revision is all it writes back, so only a
\* publication changes what is known of publications.
LEMMA OnlyApplyAnnounces ==
  ASSUME Typed, Found, [Next]_vars
  PROVE  \/ \E t \in Txns : Apply(t) /\ ~Rollback(t)
         \/ /\ UNCHANGED <<supersedes, receipt, announced, impacts>>
            /\ Published' \subseteq Published
            /\ \A p \in Proposals : proposal[p] # "NONE" => base'[p] = base[p]
<1> USE DEF Typed, TypeOK
<1>1. CASE UNCHANGED vars
  BY <1>1 DEF vars, records, Published
<1>2. ASSUME NEW t \in Txns, Begin(t)
      PROVE  UNCHANGED records
  BY <1>2 DEF Begin, ImportBegin, Submit, Publish, Review, Start
<1>3. ASSUME NEW t \in Txns, Abort(t) \/ Rollback(t)
      PROVE  UNCHANGED records
  BY <1>3 DEF Abort, Rollback
<1>4. ASSUME NEW t \in Txns, Continue(t), ~Apply(t)
      PROVE  /\ UNCHANGED <<supersedes, receipt, announced, impacts>>
             /\ Published' \subseteq Published
             /\ \A p \in Proposals : proposal[p] # "NONE" => base'[p] = base[p]
  <2>1. Published' \subseteq Published
    BY <1>4, OnlyApplyPublishes
  <2>2. CASE ImportCommit(t)
    <3>1. seen[t] = supersedes[Candidate[job[t]]]
      BY <2>2 DEF Found, ImportCommit, Writing
    <3>2. supersedes' = supersedes
      BY <2>2, <3>1 DEF ImportCommit
    <3>3. QED
      BY <2>1, <2>2, <3>2 DEF ImportCommit
  <2>3. CASE WriteDecision(t)
    BY <2>1, <2>3 DEF WriteDecision
  <2>4. CASE ~ImportCommit(t) /\ ~WriteDecision(t)
    <3>1. UNCHANGED records
      BY <1>4, <2>4 DEF Continue, ImportPlan, ImportSave, ImportLock, LockReviewed, LockCandidate,
         LockPlan, FindCurrent, LockCurrent, FindAgain, LockAgain, Find, Drop, Rollback
    <3>2. QED
      BY <2>1, <3>1 DEF records
  <2>5. QED
    BY <2>2, <2>3, <2>4
<1>5. ASSUME NEW p \in Proposals, ReviewCandidate(p)
      PROVE  UNCHANGED <<revision, supersedes, receipt, announced, impacts, base>>
  BY <1>5 DEF ReviewCandidate
<1>6. ASSUME NEW r \in Revisions, Retire(r)
      PROVE  Published' \subseteq Published /\ UNCHANGED <<supersedes, receipt, announced, impacts, base>>
  BY <1>6 DEF Retire, Published
<1>7. QED
  BY <1>1, <1>2, <1>3, <1>4, <1>5, <1>6 DEF Next, records, Published

\* What is true of everything that has once been published or replaced.
Past ==
    /\ \A r \in Published : r = 0 \/ receipt[r] # None
    /\ \A q \in Revisions : supersedes[q] # None =>
          /\ receipt[q] # None
          /\ supersedes[q] \notin Published
          /\ supersedes[q] = 0 \/ receipt[supersedes[q]] # None
    /\ \A r \in Revisions, n \in Enrollments : <<r, n>> \in impacts => receipt[r] # None

Events == Past /\ EventTellsTheTruth

\* What a publication writes.
LEMMA AppliedEvent ==
  ASSUME Typed, Found, Alone, NEW t \in Txns, Apply(t), ~Rollback(t)
  PROVE  LET r == Candidate[job[t]]
             q == replaced[t]
         IN  /\ job[t] \in Proposals /\ r \in Revisions \ {0} /\ r # q /\ receipt[r] = None
             /\ q # None => q \in Published /\ base[job[t]] = q
             /\ Published' = {r} /\ base' = base
             /\ supersedes' = IF q = None THEN supersedes ELSE [supersedes EXCEPT ![r] = q]
             /\ receipt' = [receipt EXCEPT ![r] = job[t]]
             /\ announced' = [announced EXCEPT ![r] = q]
             /\ impacts' = impacts \cup {<<r, n>> : n \in Affected(q)}
<1> USE DEF Typed, TypeOK
<1> DEFINE r == Candidate[job[t]]
           q == replaced[t]
<1>1. job[t] \in Proposals /\ r \in Revisions \ {0}
  BY CandidateAssumption DEF Apply, HasJob
<1>2. seen[t] = q /\ FoundBy(t)
  BY DEF Apply, Found, FoundBy
<1>3. receipt[r] = None
  BY DEF Apply, HasReceipt
<1>4. q # None => q \in Published /\ q # r /\ base[job[t]] = q
  BY <1>2 DEF FoundBy
<1>5. Published' = {r}
  <2>1. Published \subseteq {r, q}
    BY <1>2 DEF Apply, IndexViolated
  <2>2. revision' = [x \in Revisions |-> IF x = r THEN "PUBLISHED"
                        ELSE IF x = q THEN "SUPERSEDED" ELSE revision[x]]
    BY <1>2 DEF Apply
  <2>3. QED
    BY <1>1, <2>1, <2>2 DEF Published
<1>6. r # q
  BY <1>1, <1>4, NoneAssumption
<1>7. QED
  BY <1>1, <1>2, <1>3, <1>4, <1>5, <1>6 DEF Apply

LEMMA EventsApply ==
  ASSUME Typed, Receipts, Found, Alone, Events, NEW t \in Txns, Apply(t), ~Rollback(t)
  PROVE  Events'
<1> USE DEF Typed, TypeOK
<1> DEFINE r == Candidate[job[t]]
           q == replaced[t]
<1>1. /\ job[t] \in Proposals /\ r \in Revisions \ {0} /\ r # q /\ receipt[r] = None
      /\ q # None => q \in Published /\ base[job[t]] = q
      /\ Published' = {r} /\ base' = base
      /\ supersedes' = IF q = None THEN supersedes ELSE [supersedes EXCEPT ![r] = q]
      /\ receipt' = [receipt EXCEPT ![r] = job[t]]
      /\ announced' = [announced EXCEPT ![r] = q]
      /\ impacts' = impacts \cup {<<r, n>> : n \in Affected(q)}
  BY AppliedEvent
<1>2. supersedes[r] = None /\ job[t] # None /\ supersedes'[r] = q
  BY <1>1, NoneAssumption DEF Events, Past
<1>3. \A x \in Revisions \ {r} : /\ supersedes'[x] = supersedes[x] /\ receipt'[x] = receipt[x]
                                 /\ announced'[x] = announced[x]
  BY <1>1
<1>4. ASSUME NEW x \in Revisions, receipt[x] # None PROVE receipt'[x] # None
  BY <1>1, <1>3, <1>4
<1>5. \A x \in Revisions \ {r} : supersedes[x] # r
  <2>1. \A x \in Revisions : supersedes[x] # None => supersedes[x] = 0 \/ receipt[supersedes[x]] # None
    BY DEF Events, Past
  <2>2. QED
    BY <1>1, <2>1, NoneAssumption
<1>6. Past'
  <2>1. \A x \in Published' : x = 0 \/ receipt'[x] # None
    BY <1>1, <1>2
  <2>2. ASSUME NEW x \in Revisions, supersedes'[x] # None
        PROVE  /\ receipt'[x] # None
               /\ supersedes'[x] \notin Published'
               /\ supersedes'[x] = 0 \/ receipt'[supersedes'[x]] # None
    <3>1. CASE x = r
      <4>1. q \in Published /\ q # r
        BY <1>1, <1>2, <2>2, <3>1
      <4>2. q = 0 \/ receipt[q] # None
        BY <4>1 DEF Events, Past
      <4>3. QED
        BY <1>1, <1>2, <1>4, <3>1, <4>1, <4>2 DEF Published
    <3>2. CASE x # r
      <4>1. supersedes[x] # None /\ supersedes[x] # r /\ supersedes[x] \in Revisions
        BY <1>3, <1>5, <2>2, <3>2
      <4>2. receipt[x] # None /\ (supersedes[x] = 0 \/ receipt[supersedes[x]] # None)
        BY <4>1 DEF Events, Past
      <4>3. QED
        BY <1>1, <1>3, <1>4, <3>2, <4>1, <4>2
    <3>3. QED
      BY <3>1, <3>2
  <2>3. ASSUME NEW x \in Revisions, NEW n \in Enrollments, <<x, n>> \in impacts'
        PROVE  receipt'[x] # None
    <3>1. CASE <<x, n>> \in impacts
      BY <1>4, <3>1 DEF Events, Past
    <3>2. CASE <<x, n>> \notin impacts
      <4>1. x = r
        BY <1>1, <2>3, <3>2
      <4>2. QED
        BY <1>1, <1>2, <4>1
    <3>3. QED
      BY <3>1, <3>2
  <2>4. QED
    BY <2>1, <2>2, <2>3 DEF Past
<1>7. ASSUME NEW x \in Revisions, NEW y \in Revisions, x # y, supersedes'[x] = supersedes'[y]
      PROVE  supersedes'[x] = None
  <2>1. CASE x # r /\ y # r
    BY <1>3, <1>7, <2>1 DEF Events, EventTellsTheTruth
  <2>2. ASSUME NEW z \in Revisions \ {r}, supersedes[z] = q PROVE q = None
    BY <1>1, <2>2 DEF Events, Past
  <2>3. QED
    BY <1>2, <1>3, <1>7, <2>1, <2>2
<1>8. ASSUME NEW x \in Revisions, receipt'[x] # None
      PROVE  /\ supersedes'[x] = announced'[x]
             /\ announced'[x] # None => base'[receipt'[x]] = announced'[x]
             /\ {n \in Enrollments : <<x, n>> \in impacts'}
                   = {n \in Enrollments : Basis[n] = announced'[x]}
  <2>1. CASE x = r
    <3>1. announced'[x] = q /\ receipt'[x] = job[t]
      BY <1>1, <2>1
    <3>2. \A n \in Enrollments : <<r, n>> \notin impacts
      BY <1>1 DEF Events, Past
    <3>3. \A n \in Enrollments : <<r, n>> \in impacts' <=> Basis[n] = q
      BY <1>1, <3>2 DEF Affected
    <3>4. QED
      BY <1>1, <1>2, <2>1, <3>1, <3>3
  <2>2. CASE x # r
    <3>1. receipt[x] # None
      BY <1>3, <1>8, <2>2
    <3>2. \A n \in Enrollments : <<x, n>> \in impacts' <=> <<x, n>> \in impacts
      BY <1>1, <2>2
    <3>3. QED
      BY <1>1, <1>3, <2>2, <3>1, <3>2 DEF Events, EventTellsTheTruth
  <2>3. QED
    BY <2>1, <2>2
<1>9. QED
  BY <1>6, <1>7, <1>8 DEF Events, EventTellsTheTruth

LEMMA EventsRest ==
  ASSUME Typed, Receipts, Events,
         UNCHANGED <<supersedes, receipt, announced, impacts>>, Published' \subseteq Published,
         \A p \in Proposals : proposal[p] # "NONE" => base'[p] = base[p]
  PROVE  Events'
<1>1. Past'
  BY DEF Events, Past
<1>2. ASSUME NEW r \in Revisions, receipt[r] # None PROVE base'[receipt[r]] = base[receipt[r]]
  <2>1. receipt[r] \in Proposals
    BY <1>2 DEF Typed, TypeOK
  <2>2. proposal[receipt[r]] = "APPLIED"
    BY <1>2 DEF Receipts, ReceiptsAreOwn
  <2>3. QED
    BY <2>1, <2>2
<1>3. QED
  BY <1>1, <1>2 DEF Events, EventTellsTheTruth

LEMMA EventsInvariant == Spec => []Events
<1>1. Init => Events
  BY DEF Init, Events, Past, EventTellsTheTruth, Published
<1>2. Typed /\ Receipts /\ Alone /\ Found /\ Events /\ [Next]_vars => Events'
  BY OnlyApplyAnnounces, EventsApply, EventsRest
<1>3. QED
  BY <1>1, <1>2, TypedInvariant, ReceiptsInvariant, AloneInvariant, FoundInvariant, PTL DEF Spec

\* The event of a publication (publish_proposal) names exactly the revision that
\* it superseded, which is the base of its proposal, its impacts are exactly the
\* enrollments on that revision, and no revision is replaced twice.
THEOREM EventsAreTrue == Spec => []EventTellsTheTruth
<1>1. Events => EventTellsTheTruth
  BY DEF Events
<1>2. QED
  BY <1>1, EventsInvariant, PTL

\* Nothing that runs later rewrites the receipt, the event or the link of a
\* publication, and a revision that has left PUBLISHED never is published again.
THEOREM PublicationsAreFinal == Spec => PublicationIsFinal
<1> DEFINE Final == \A r \in Revisions : receipt[r] # None =>
                /\ receipt'[r] = receipt[r] /\ announced'[r] = announced[r]
                /\ supersedes'[r] = supersedes[r]
                /\ revision[r] # "PUBLISHED" => revision'[r] # "PUBLISHED"
<1>1. Typed /\ Alone /\ Found /\ [Next]_vars => Final
  <2> SUFFICES ASSUME Typed, Alone, Found, [Next]_vars PROVE Final  OBVIOUS
  <2>1. ASSUME NEW t \in Txns, Apply(t), ~Rollback(t), NEW r \in Revisions, receipt[r] # None
        PROVE  /\ receipt'[r] = receipt[r] /\ announced'[r] = announced[r]
               /\ supersedes'[r] = supersedes[r]
               /\ revision[r] # "PUBLISHED" => revision'[r] # "PUBLISHED"
    <3>1. /\ receipt[Candidate[job[t]]] = None /\ Published' = {Candidate[job[t]]}
          /\ supersedes' = IF replaced[t] = None THEN supersedes
                           ELSE [supersedes EXCEPT ![Candidate[job[t]]] = replaced[t]]
          /\ receipt' = [receipt EXCEPT ![Candidate[job[t]]] = job[t]]
          /\ announced' = [announced EXCEPT ![Candidate[job[t]]] = replaced[t]]
      BY <2>1, AppliedEvent
    <3>2. r # Candidate[job[t]] /\ r \notin Published'
      BY <2>1, <3>1
    <3>3. revision'[r] # "PUBLISHED"
      BY <3>2 DEF Published
    <3>4. QED
      BY <3>1, <3>2, <3>3 DEF Typed, TypeOK
  <2>2. CASE UNCHANGED <<supersedes, receipt, announced, impacts>> /\ Published' \subseteq Published
    BY <2>2 DEF Published
  <2>3. QED
    BY <2>1, <2>2, OnlyApplyAnnounces
<1>2. QED
  BY <1>1, TypedInvariant, AloneInvariant, FoundInvariant, PTL DEF Spec, PublicationIsFinal

=============================================================================
