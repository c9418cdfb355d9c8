------------------------ MODULE OptimizationRuns_proofs ------------------------
(***************************************************************************)
(* Proofs about OptimizationRuns, for every set of runs, processes and     *)
(* cancel requests, every capacity and every number of passes and faults.  *)
(***************************************************************************)
EXTENDS OptimizationRuns, FiniteSetTheorems, TLAPS

\* Where a job stands tells what its row says.
RowsFollowJobs ==
    \A r \in Runs :
        /\ pc[r] = "none" => status[r] = "NONE"
        /\ pc[r] \in {"created", "refused", "registered", "waiting", "taken"}
            => status[r] = "QUEUED"
        /\ pc[r] \in {"preflight", "solving", "solved"} => status[r] = "RUNNING"
        /\ pc[r] = "solved" => result[r] \in Outcomes
        /\ pc[r] \notin {"none", "gone"} => home[r] \in Processes

\* A cancel request in progress has read an existing row.
CancelsKnowRows ==
    \A c \in Cancels :
        step[c] # "idle" => cancel[c].run \in Runs /\ status[cancel[c].run] # "NONE"

Typed == TypeOK /\ RowsFollowJobs /\ CancelsKnowRows

\* The table is finite, whatever the number of rows.
Slots ==
    \A p \in Processes :
        /\ jobs[p] = {r \in Runs : home[r] = p /\ pc[r] \in InTable}
        /\ IsFiniteSet(jobs[p]) /\ Cardinality(jobs[p]) <= MaxJobs[p]

LEMMA TypedInit == Init => Typed
  BY BoundsAssumption DEF Init, Typed, TypeOK, RowsFollowJobs, CancelsKnowRows, NoRow,
     Statuses, Places

-----------------------------------------------------------------------------
(* One lemma per handler: it keeps types, rows and cancel requests.        *)

LEMMA TypedCreating ==
  ASSUME Typed, NEW r \in Runs,
         \/ \E p \in Processes : Create(p, r)
         \/ Register(r) \/ Reject(r) \/ Submit(r) \/ SubmitFails(r)
  PROVE  Typed'
<1> USE DEF Typed, TypeOK, RowsFollowJobs, CancelsKnowRows, Go, Places, Creating, InTable,
        InThread, Statuses, Unfinished, cancelVars
<1>1. ASSUME NEW p \in Processes, Create(p, r) PROVE Typed'
  BY <1>1 DEF Create
<1>2. CASE Register(r)
  <2>1. pc[r] = "created" /\ home[r] \in Processes /\ status[r] = "QUEUED"
    BY <1>2 DEF Register
  <2>2. jobs' \in [Processes -> SUBSET Runs]
    BY <1>2, <2>1 DEF Register
  <2>3. \E place \in {"refused", "registered"} : pc' = [pc EXCEPT ![r] = place]
    BY <1>2 DEF Register
  <2>4. UNCHANGED <<status, asked, home, ahead, pass, result, stop, cancel, step, faults>>
    BY <1>2 DEF Register
  <2>5. TypeOK'
    BY <2>2, <2>3, <2>4
  <2>6. (RowsFollowJobs /\ CancelsKnowRows)'
    BY <2>1, <2>3, <2>4
  <2>7. QED
    BY <2>5, <2>6
<1>3. CASE Reject(r)
  BY <1>3 DEF Reject
<1>4. CASE Submit(r)
  BY <1>4 DEF Submit, Waiting
<1>5. CASE SubmitFails(r)
  BY <1>5 DEF SubmitFails, Leave
<1>6. QED
  BY <1>1, <1>2, <1>3, <1>4, <1>5

LEMMA TypedJob ==
  ASSUME Typed, NEW r \in Runs,
         \/ Take(r) \/ Start(r) \/ Preflight(r) \/ SolvePass(r)
         \/ Save(r) \/ Fail(r) \/ Release(r)
  PROVE  Typed'
<1> USE DEF Typed, TypeOK, RowsFollowJobs, CancelsKnowRows, Go, Places, Creating, InTable,
        InThread, Statuses, Unfinished, Outcomes, cancelVars
<1>1. CASE Take(r)
  BY <1>1 DEF Take
<1>2. CASE Start(r)
  BY <1>2 DEF Start
<1>3. ASSUME NEW outcome \in Outcomes, pc[r] \in {"preflight", "solving"}, Answer(r, outcome)
      PROVE  Typed'
  BY <1>3, BoundsAssumption DEF Answer
<1>4. CASE Preflight(r)
  <2>1. CASE \E outcome \in Outcomes : Answer(r, outcome)
    BY <1>3, <1>4, <2>1 DEF Preflight
  <2>2. CASE /\ pc[r] = "preflight"
             /\ pc' = [pc EXCEPT ![r] = "solving"]
             /\ pass' = [pass EXCEPT ![r] = 1]
             /\ UNCHANGED <<status, asked, home, ahead, result, jobs, stop,
                            cancelVars, faults>>
    BY <2>2, BoundsAssumption
  <2>3. QED
    BY <1>4, <2>1, <2>2 DEF Preflight
<1>5. CASE SolvePass(r)
  <2>1. CASE \E outcome \in Outcomes : Answer(r, outcome)
    BY <1>3, <1>5, <2>1 DEF SolvePass
  <2>2. CASE /\ pc[r] = "solving" /\ PassAhead(r)
             /\ pass' = [pass EXCEPT ![r] = @ + 1]
             /\ UNCHANGED <<status, asked, home, pc, ahead, result, jobs, stop,
                            cancelVars, faults>>
    BY <2>2, BoundsAssumption DEF PassAhead
  <2>3. QED
    BY <1>5, <2>1, <2>2 DEF SolvePass
<1>6. CASE Save(r)
  BY <1>6 DEF Save
<1>7. CASE Fail(r)
  BY <1>7 DEF Fail
<1>8. CASE Release(r)
  BY <1>8 DEF Release, Leave, Ended
<1>9. QED
  BY <1>1, <1>2, <1>4, <1>5, <1>6, <1>7, <1>8

LEMMA TypedCancel ==
  ASSUME Typed, NEW c \in Cancels, Cancel(c)
  PROVE  Typed'
<1> USE DEF Typed, TypeOK, RowsFollowJobs, CancelsKnowRows, jobVars
<1>1. ASSUME NEW r \in Runs, ReadRun(c, r) PROVE Typed'
  BY <1>1 DEF ReadRun, Unfinished, Statuses
<1>2. ASSUME NEW p \in Processes, SetStop(c, p) PROVE Typed'
  BY <1>2 DEF SetStop
<1>3. CASE RecordCancel(c)
  BY <1>3 DEF RecordCancel, OtherColumns, NoRow, Statuses
<1>4. QED
  BY <1>1, <1>2, <1>3 DEF Cancel

LEMMA TypedKill ==
  ASSUME Typed, NEW p \in Processes, Kill(p)
  PROVE  Typed'
  BY DEF Kill, Typed, TypeOK, RowsFollowJobs, CancelsKnowRows, Places, cancelVars

LEMMA TypedStep == Typed /\ [Next]_vars => Typed'
<1> SUFFICES ASSUME Typed, [Next]_vars PROVE Typed'
  OBVIOUS
<1>1. CASE \E r \in Runs : Job(r) \/ SubmitFails(r) \/ Fail(r) \/ \E p \in Processes : Create(p, r)
  BY <1>1, TypedCreating, TypedJob DEF Job
<1>2. CASE \E c \in Cancels : Cancel(c)
  BY <1>2, TypedCancel
<1>3. CASE \E p \in Processes : Kill(p)
  BY <1>3, TypedKill
<1>4. CASE UNCHANGED vars
  BY <1>4 DEF vars, jobVars, cancelVars, Typed, TypeOK, RowsFollowJobs, CancelsKnowRows
<1>5. QED
  BY <1>1, <1>2, <1>3, <1>4 DEF Next

LEMMA TypedAlways == Spec => []Typed
  BY TypedInit, TypedStep, PTL DEF Spec

\* Every variable stays within its type, whatever the number of runs and requests.
THEOREM TypeCorrect == Spec => []TypeOK
  BY TypedAlways, PTL DEF Typed

-----------------------------------------------------------------------------
(* The table of jobs.                                                      *)

LEMMA SlotsInit == Init => Slots
<1> SUFFICES ASSUME Init, NEW p \in Processes
             PROVE  /\ jobs[p] = {r \in Runs : home[r] = p /\ pc[r] \in InTable}
                    /\ IsFiniteSet(jobs[p]) /\ Cardinality(jobs[p]) <= MaxJobs[p]
  BY DEF Slots
<1>1. jobs[p] = {}
  BY DEF Init
<1>2. {r \in Runs : home[r] = p /\ pc[r] \in InTable} = {}
  BY DEF Init, InTable, InThread
<1>3. QED
  BY <1>1, <1>2, FS_EmptySet, BoundsAssumption

\* Nobody enters or leaves the tables.
LEMMA SlotsKept ==
  ASSUME Typed, Slots, UNCHANGED <<jobs, home>>,
         \A r \in Runs : pc[r] \in InTable <=> pc'[r] \in InTable
  PROVE  Slots'
  BY DEF Slots

\* A run leaves the table of its process.
LEMMA SlotsLeave ==
  ASSUME Typed, Slots, NEW r \in Runs, pc[r] \in InTable, Leave(r),
         pc' = [pc EXCEPT ![r] = "gone"], UNCHANGED home
  PROVE  Slots'
<1> SUFFICES ASSUME NEW p \in Processes
             PROVE  /\ jobs'[p] = {q \in Runs : home[q] = p /\ pc'[q] \in InTable}
                    /\ IsFiniteSet(jobs'[p]) /\ Cardinality(jobs'[p]) <= MaxJobs[p]
  BY DEF Slots
<1>1. jobs'[p] = IF p = home[r] THEN jobs[p] \ {r} ELSE jobs[p]
  BY DEF Leave, Typed, TypeOK
<1>2. \A q \in Runs : pc'[q] = IF q = r THEN "gone" ELSE pc[q]
  BY DEF Typed, TypeOK
<1>3. "gone" \notin InTable
  BY DEF InTable, InThread
<1>4. jobs[p] = {q \in Runs : home[q] = p /\ pc[q] \in InTable}
  BY DEF Slots
<1>5. jobs'[p] = {q \in Runs : home[q] = p /\ pc'[q] \in InTable}
  BY <1>1, <1>2, <1>3, <1>4
<1>6. IsFiniteSet(jobs[p]) /\ Cardinality(jobs[p]) \in Nat /\ Cardinality(jobs[p]) <= MaxJobs[p]
  BY FS_CardinalityType DEF Slots
<1>7. /\ IsFiniteSet(jobs[p] \ {r})
      /\ Cardinality(jobs[p] \ {r}) \in {Cardinality(jobs[p]), Cardinality(jobs[p]) - 1}
  BY <1>6, FS_RemoveElement
<1>8. QED
  BY <1>1, <1>5, <1>6, <1>7, BoundsAssumption

\* A run enters the table of its process, which is not full.
LEMMA SlotsEnter ==
  ASSUME Typed, Slots, NEW r \in Runs, pc[r] = "created", ~Full(home[r]),
         pc' = [pc EXCEPT ![r] = "registered"],
         jobs' = [jobs EXCEPT ![home[r]] = @ \cup {r}], UNCHANGED home
  PROVE  Slots'
<1> SUFFICES ASSUME NEW p \in Processes
             PROVE  /\ jobs'[p] = {q \in Runs : home[q] = p /\ pc'[q] \in InTable}
                    /\ IsFiniteSet(jobs'[p]) /\ Cardinality(jobs'[p]) <= MaxJobs[p]
  BY DEF Slots
<1>1. jobs'[p] = IF p = home[r] THEN jobs[p] \cup {r} ELSE jobs[p]
  BY DEF Typed, TypeOK
<1>2. \A q \in Runs : pc'[q] = IF q = r THEN "registered" ELSE pc[q]
  BY DEF Typed, TypeOK
<1>3. "registered" \in InTable /\ "created" \notin InTable
  BY DEF InTable, InThread
<1>4. jobs[p] = {q \in Runs : home[q] = p /\ pc[q] \in InTable}
  BY DEF Slots
<1>5. jobs'[p] = {q \in Runs : home[q] = p /\ pc'[q] \in InTable}
  BY <1>1, <1>2, <1>3, <1>4
<1>6. IsFiniteSet(jobs[p]) /\ Cardinality(jobs[p]) \in Nat /\ Cardinality(jobs[p]) <= MaxJobs[p]
  BY FS_CardinalityType DEF Slots
<1>7. r \notin jobs[p]
  BY <1>3, <1>4
<1>8. IsFiniteSet(jobs[p] \cup {r}) /\ Cardinality(jobs[p] \cup {r}) = Cardinality(jobs[p]) + 1
  BY <1>6, <1>7, FS_AddElement
<1>9. p = home[r] => Cardinality(jobs[p]) < MaxJobs[p]
  BY <1>6, BoundsAssumption DEF Full
<1>10. QED
  BY <1>1, <1>5, <1>6, <1>8, <1>9, BoundsAssumption

\* The table of a killed process is empty, and none of its jobs is left.
LEMMA SlotsKill ==
  ASSUME Typed, Slots, NEW p \in Processes, Kill(p)
  PROVE  Slots'
<1> SUFFICES ASSUME NEW q \in Processes
             PROVE  /\ jobs'[q] = {r \in Runs : home[r] = q /\ pc'[r] \in InTable}
                    /\ IsFiniteSet(jobs'[q]) /\ Cardinality(jobs'[q]) <= MaxJobs[q]
  BY DEF Slots, Kill
<1>1. \A r \in Runs : pc'[r] = IF home[r] = p THEN "gone" ELSE pc[r]
  BY DEF Kill
<1>2. "gone" \notin InTable
  BY DEF InTable, InThread
<1>3. jobs'[q] = IF p = q THEN {} ELSE jobs[q]
  BY DEF Kill, Typed, TypeOK
<1>4. jobs[q] = {r \in Runs : home[r] = q /\ pc[r] \in InTable}
  BY DEF Slots
<1>5. jobs'[q] = {r \in Runs : home[r] = q /\ pc'[r] \in InTable}
  BY <1>1, <1>2, <1>3, <1>4
<1>6. QED
  BY <1>3, <1>5, FS_EmptySet, BoundsAssumption DEF Slots

LEMMA SlotsJob ==
  ASSUME Typed, Slots, NEW r \in Runs, Job(r) \/ SubmitFails(r) \/ Fail(r)
  PROVE  Slots'
<1> USE DEF Go, InTable, InThread
<1>1. CASE Register(r)
  <2>1. CASE Full(home[r]) /\ Go(r, "created", "refused") /\ UNCHANGED jobs
    BY <1>1, <2>1, SlotsKept DEF Register, Typed, TypeOK
  <2>2. CASE /\ ~Full(home[r]) /\ Go(r, "created", "registered")
             /\ jobs' = [jobs EXCEPT ![home[r]] = @ \cup {r}]
    BY <1>1, <2>2, SlotsEnter DEF Register
  <2>3. QED
    BY <1>1, <2>1, <2>2 DEF Register
<1>2. CASE SubmitFails(r) \/ Release(r)
  <2>1. pc[r] \in InTable /\ Leave(r) /\ pc' = [pc EXCEPT ![r] = "gone"] /\ UNCHANGED home
    BY <1>2 DEF SubmitFails, Release, Ended
  <2>2. QED
    BY <2>1, SlotsLeave
<1>3. CASE \/ Reject(r) \/ Submit(r) \/ Take(r) \/ Start(r) \/ Save(r) \/ Fail(r)
  BY <1>3, SlotsKept DEF Reject, Submit, Take, Start, Save, Fail, Typed, TypeOK
<1>4. CASE Preflight(r) \/ SolvePass(r)
  BY <1>4, SlotsKept DEF Preflight, SolvePass, Answer, Typed, TypeOK
<1>5. QED
  BY <1>1, <1>2, <1>3, <1>4 DEF Job

LEMMA SlotsStep == Typed /\ Slots /\ [Next]_vars => Slots'
<1> SUFFICES ASSUME Typed, Slots, [Next]_vars PROVE Slots'
  OBVIOUS
<1>1. ASSUME NEW r \in Runs, NEW p \in Processes, Create(p, r) PROVE Slots'
  <2>1. \A q \in Runs : pc'[q] = IF q = r THEN "created" ELSE pc[q]
    BY <1>1 DEF Create, Go, Typed, TypeOK
  <2>2. \A q \in Runs : q # r => home'[q] = home[q]
    BY <1>1 DEF Create, Typed, TypeOK
  <2>3. pc[r] \notin InTable /\ "created" \notin InTable
    BY <1>1 DEF Create, Go, InTable, InThread
  <2>4. UNCHANGED jobs
    BY <1>1 DEF Create
  <2>5. QED
    BY <2>1, <2>2, <2>3, <2>4 DEF Slots
<1>2. ASSUME NEW c \in Cancels, Cancel(c) PROVE Slots'
  BY <1>2, SlotsKept DEF Cancel, ReadRun, SetStop, RecordCancel, jobVars
<1>3. CASE UNCHANGED vars
  BY <1>3, SlotsKept DEF vars, jobVars
<1>4. QED
  BY <1>1, <1>2, <1>3, SlotsJob, SlotsKill DEF Next

\* The table of a process holds exactly the jobs of its pool and never more than
\* its capacity, for any number of runs, of which the table holds finitely many.
THEOREM SlotsHold == Spec => []SlotsAreJobs
<1>1. Slots => SlotsAreJobs
  BY DEF Slots, SlotsAreJobs
<1>2. QED
  BY <1>1, TypedAlways, SlotsInit, SlotsStep, PTL DEF Spec

-----------------------------------------------------------------------------
(* The rows implement the lifecycle.                                       *)

LEMMA LifecycleInit == Init => Lifecycle!Init
  BY DEF Init, Lifecycle!Init

LEMMA LifecycleJob ==
  ASSUME Typed, NEW r \in Runs,
         Job(r) \/ SubmitFails(r) \/ Fail(r) \/ \E p \in Processes : Create(p, r)
  PROVE  Lifecycle!Next \/ UNCHANGED <<status, asked>>
<1>1. CASE \E p \in Processes : Create(p, r)
  BY <1>1 DEF Create, Go, Typed, RowsFollowJobs, Lifecycle!Next, Lifecycle!Move
<1>2. CASE Reject(r)
  BY <1>2 DEF Reject, Go, Typed, RowsFollowJobs, Lifecycle!Next, Lifecycle!Move
<1>3. CASE Start(r)
  BY <1>3 DEF Start, Go, Typed, RowsFollowJobs, Lifecycle!Next, Lifecycle!Move
<1>4. CASE Save(r)
  BY <1>4 DEF Save, Go, Typed, RowsFollowJobs, Outcomes, Lifecycle!Next, Lifecycle!Move,
     Lifecycle!Outcomes
<1>5. CASE Register(r) \/ Submit(r) \/ SubmitFails(r) \/ Take(r) \/ Fail(r) \/ Release(r)
  BY <1>5 DEF Register, Submit, SubmitFails, Take, Fail, Release
<1>6. CASE Preflight(r) \/ SolvePass(r)
  BY <1>6 DEF Preflight, SolvePass, Answer
<1>7. QED
  BY <1>1, <1>2, <1>3, <1>4, <1>5, <1>6 DEF Job

LEMMA LifecycleCancel ==
  ASSUME Typed, NEW c \in Cancels, Cancel(c)
  PROVE  Lifecycle!Next \/ UNCHANGED <<status, asked>>
<1>1. CASE RecordCancel(c)
  <2> DEFINE r == cancel[c].run
  <2>1. r \in Runs /\ status[r] # "NONE"
    BY <1>1 DEF RecordCancel, Typed, CancelsKnowRows
  <2>2. asked' = [asked EXCEPT ![r] = TRUE] /\ status' = status
    BY <1>1 DEF RecordCancel, OtherColumns
  <2>3. QED
    BY <2>1, <2>2 DEF Lifecycle!Next, Lifecycle!Ask
<1>2. CASE (\E r \in Runs : ReadRun(c, r)) \/ \E p \in Processes : SetStop(c, p)
  BY <1>2 DEF ReadRun, SetStop
<1>3. QED
  BY <1>1, <1>2 DEF Cancel

LEMMA LifecycleStep == Typed /\ [Next]_vars => [Lifecycle!Next]_<<status, asked>>
<1> SUFFICES ASSUME Typed, [Next]_vars
             PROVE  Lifecycle!Next \/ UNCHANGED <<status, asked>>
  OBVIOUS
<1>1. CASE \E r \in Runs : Job(r) \/ SubmitFails(r) \/ Fail(r) \/ \E p \in Processes : Create(p, r)
  BY <1>1, LifecycleJob
<1>2. CASE \E c \in Cancels : Cancel(c)
  BY <1>2, LifecycleCancel
<1>3. CASE \E p \in Processes : Kill(p)
  BY <1>3 DEF Kill
<1>4. CASE UNCHANGED vars
  BY <1>4 DEF vars
<1>5. QED
  BY <1>1, <1>2, <1>3, <1>4 DEF Next

\* The rows implement RunLifecycle: one outcome, written over RUNNING, and a
\* recorded cancel request that stays.
THEOREM ImplementsLifecycle == Spec => RefinesLifecycle
<1>1. Lifecycle!Init /\ [][Lifecycle!Next]_<<status, asked>> => RefinesLifecycle
  BY DEF RefinesLifecycle, Lifecycle!Spec
<1>2. QED
  BY <1>1, TypedAlways, LifecycleInit, LifecycleStep, PTL DEF Spec
=============================================================================
