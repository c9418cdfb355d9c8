--------------------------- MODULE OptimizationRuns ---------------------------
(***************************************************************************)
(* Optimization runs of apps/api/modules/optimization and the control of   *)
(* the solver of apps/api/domain/optimization.                             *)
(*                                                                         *)
(* A web process creates the row of a run, commits it, enters the run into *)
(* its own table of jobs under a lock, and hands it to its thread pool.    *)
(* Cancel requests are served by any process, concurrently: they read the  *)
(* row, set the event they find in the table of their process, and record  *)
(* the request.  A step is a statement on the database, a critical section *)
(* of the lock, or a solver pass.                                          *)
(***************************************************************************)
EXTENDS Integers, FiniteSets

CONSTANTS
    Runs,       \* OptimizationRun rows
    Processes,  \* web processes, each with a table and a thread pool
    Cancels,    \* cancel requests in progress at once
    MaxJobs,    \* MAX_IN_FLIGHT_OPTIMIZATION_JOBS of each process (the code has one number)
    MaxThreads, \* MAX_CONCURRENT_OPTIMIZATION_JOBS
    Passes,     \* lexicographic objectives of the solver
    MaxFaults,  \* bound: failed jobs, failed submissions and killed processes
    None

ASSUME BoundsAssumption ==
    /\ MaxJobs \in [Processes -> Nat \ {0}] /\ MaxThreads \in Nat \ {0}
    /\ Passes \in Nat \ {0} /\ MaxFaults \in Nat
ASSUME NoneAssumption == None \notin Runs /\ None \notin Processes

VARIABLES
    status,  \* OptimizationRun.status
    asked,   \* OptimizationRun.cancel_requested_at is set
    home,    \* the process that created the run
    pc,      \* where the creating request, then the job, of each run stands
    ahead,   \* the runs that were waiting when it joined the pool's queue
    pass,    \* the pass its solver is in
    result,  \* the answer of its solver, not yet saved
    jobs,    \* _jobs of each process
    stop,    \* the Event of each job is set
    cancel,  \* the row each cancel request has read
    step,    \* where it stands
    faults

cancelVars == <<cancel, step>>
jobVars == <<home, pc, ahead, pass, result, jobs, stop>>
vars == <<status, asked, jobVars, cancelVars, faults>>

-----------------------------------------------------------------------------
Unfinished == {"QUEUED", "RUNNING"}
Outcomes == {"OPTIMAL", "FEASIBLE", "INFEASIBLE", "UNKNOWN"}
Statuses == {"NONE", "REJECTED"} \cup Unfinished \cup Outcomes
NoRow == [run |-> None, status |-> "NONE"]

\* A creating request, a job in the table of its process, and a job that has a thread.
Creating == {"created", "refused", "registered"}
InThread == {"taken", "preflight", "solving", "solved", "saved", "failed"}
InTable == {"registered", "waiting"} \cup InThread
Places == {"none", "gone"} \cup Creating \cup InTable

Init ==
    /\ status = [r \in Runs |-> "NONE"]
    /\ asked = [r \in Runs |-> FALSE]
    /\ home = [r \in Runs |-> None]
    /\ pc = [r \in Runs |-> "none"]
    /\ ahead = [r \in Runs |-> {}]
    /\ pass = [r \in Runs |-> 0]
    /\ result = [r \in Runs |-> "NONE"]
    /\ jobs = [p \in Processes |-> {}]
    /\ stop = [r \in Runs |-> FALSE]
    /\ cancel = [c \in Cancels |-> NoRow]
    /\ step = [c \in Cancels |-> "idle"]
    /\ faults = 0

\* The creating request or the job of r moves on.
Go(r, from, to) == pc[r] = from /\ pc' = [pc EXCEPT ![r] = to]

-----------------------------------------------------------------------------
(* create_optimization_run and submit_optimization_run.                    *)

Create(p, r) ==
    /\ Go(r, "none", "created")
    /\ status' = [status EXCEPT ![r] = "QUEUED"]
    /\ home' = [home EXCEPT ![r] = p]
    /\ UNCHANGED <<asked, ahead, pass, result, jobs, stop, cancelVars, faults>>

\* Mutant: one job too many.
OverFull(p) == Cardinality(jobs[p]) > MaxJobs[p]
Full(p) == Cardinality(jobs[p]) >= MaxJobs[p]

\* The table is checked and extended in one critical section.
Register(r) ==
    /\ pc[r] = "created"
    /\ \/ /\ Full(home[r])
          /\ Go(r, "created", "refused")
          /\ UNCHANGED jobs
       \/ /\ ~Full(home[r])
          /\ Go(r, "created", "registered")
          /\ jobs' = [jobs EXCEPT ![home[r]] = @ \cup {r}]
    /\ UNCHANGED <<status, asked, home, ahead, pass, result, stop, cancelVars, faults>>

Reject(r) ==
    /\ Go(r, "refused", "gone")
    /\ status' = [status EXCEPT ![r] = "REJECTED"]
    /\ UNCHANGED <<asked, home, ahead, pass, result, jobs, stop, cancelVars, faults>>

\* The pool serves its queue in order.
Waiting(p) == {q \in Runs : home[q] = p /\ pc[q] = "waiting"}
Busy(p) == {q \in Runs : home[q] = p /\ pc[q] \in InThread}

Submit(r) ==
    /\ Go(r, "registered", "waiting")
    /\ ahead' = [ahead EXCEPT ![r] = Waiting(home[r])]
    /\ UNCHANGED <<status, asked, home, pass, result, jobs, stop, cancelVars, faults>>

\* The slot is given back, and the event with it.
Leave(r) ==
    /\ jobs' = [jobs EXCEPT ![home[r]] = @ \ {r}]
    /\ stop' = [stop EXCEPT ![r] = FALSE]

\* The pool refuses the job: the slot is given back, the row stays QUEUED.
SubmitFails(r) ==
    /\ faults < MaxFaults
    /\ faults' = faults + 1
    /\ Go(r, "registered", "gone")
    /\ Leave(r)
    /\ UNCHANGED <<status, asked, home, ahead, pass, result, cancelVars>>

-----------------------------------------------------------------------------
(* _execute_job, execute_optimization_run and solve_optimization.          *)

\* A thread takes the next job.
Take(r) ==
    /\ Go(r, "waiting", "taken")
    /\ Cardinality(Busy(home[r])) < MaxThreads
    /\ \A q \in ahead[r] : pc[q] # "waiting"
    /\ ahead' = [ahead EXCEPT ![r] = {}]
    /\ UNCHANGED <<status, asked, home, pass, result, jobs, stop, cancelVars, faults>>

Start(r) ==
    /\ Go(r, "taken", "preflight")
    /\ status' = [status EXCEPT ![r] = IF @ = "QUEUED" THEN "RUNNING" ELSE @]
    /\ UNCHANGED <<asked, home, ahead, pass, result, jobs, stop, cancelVars, faults>>

Answer(r, outcome) ==
    /\ pc' = [pc EXCEPT ![r] = "solved"]
    /\ result' = [result EXCEPT ![r] = outcome]
    /\ pass' = [pass EXCEPT ![r] = 0]
    /\ UNCHANGED <<status, asked, home, ahead, jobs, stop, cancelVars, faults>>

\* The input may have conflicts or unknown facts; the event makes it UNKNOWN too.
Preflight(r) ==
    /\ pc[r] = "preflight"
    /\ \/ Answer(r, "INFEASIBLE")
       \/ Answer(r, "UNKNOWN")
       \/ /\ ~stop[r]
          /\ pc' = [pc EXCEPT ![r] = "solving"]
          /\ pass' = [pass EXCEPT ![r] = 1]
          /\ UNCHANGED <<status, asked, home, ahead, result, jobs, stop,
                         cancelVars, faults>>

\* Mutant: the last pass does not look at the event.
ProvenAnyway(r) == TRUE
Proven(r) == ~stop[r]

\* Mutant: one pass too many.
PassAhead(r) == pass[r] < Passes

\* A pass ends: stopped or out of time, or proven optimal, and the next begins.
\* An earlier pass has left a plan, which may be empty; without time for the
\* first pass nobody looks at the event.
SolvePass(r) ==
    /\ pc[r] = "solving"
    /\ \/ \E outcome \in Outcomes \ {"OPTIMAL"} : Answer(r, outcome)
       \/ ~PassAhead(r) /\ Proven(r) /\ Answer(r, "OPTIMAL")
       \/ /\ PassAhead(r)
          /\ pass' = [pass EXCEPT ![r] = @ + 1]
          /\ UNCHANGED <<status, asked, home, pc, ahead, result, jobs, stop,
                         cancelVars, faults>>

Save(r) ==
    /\ Go(r, "solved", "saved")
    /\ status' = [status EXCEPT ![r] = result[r]]
    /\ result' = [result EXCEPT ![r] = "NONE"]
    /\ UNCHANGED <<asked, home, ahead, pass, jobs, stop, cancelVars, faults>>

\* An exception ends the job wherever it is; the row keeps its status.
Fail(r) ==
    /\ faults < MaxFaults
    /\ faults' = faults + 1
    /\ pc[r] \in {"taken", "preflight", "solving", "solved"}
    /\ pc' = [pc EXCEPT ![r] = "failed"]
    /\ UNCHANGED <<status, asked, home, ahead, pass, result, jobs, stop, cancelVars>>

\* The finally clause of _execute_job.  Mutant: only a job that succeeds gives its slot back.
EndedWell == {"saved"}
Ended == {"saved", "failed"}

Release(r) ==
    /\ pc[r] \in Ended
    /\ pc' = [pc EXCEPT ![r] = "gone"]
    /\ Leave(r)
    /\ UNCHANGED <<status, asked, home, ahead, pass, result, cancelVars, faults>>

-----------------------------------------------------------------------------
(* cancel_optimization_run.  A request may stop anywhere, its process killed. *)

ReadRun(c, r) ==
    /\ step[c] = "idle"
    /\ status[r] \in Unfinished
    /\ cancel' = [cancel EXCEPT ![c] = [run |-> r, status |-> status[r]]]
    /\ step' = [step EXCEPT ![c] = "read"]
    /\ UNCHANGED <<status, asked, jobVars, faults>>

\* The event is in the table of the process that created the run, if at all.
SetStop(c, p) ==
    /\ step[c] = "read"
    /\ stop' = [stop EXCEPT ![cancel[c].run] = @ \/ cancel[c].run \in jobs[p]]
    /\ step' = [step EXCEPT ![c] = "set"]
    /\ UNCHANGED <<status, asked, home, pc, ahead, pass, result, jobs, cancel, faults>>

\* Only cancel_requested_at is written.  Mutant: the whole row is.
WholeRow(c) == [status EXCEPT ![cancel[c].run] = cancel[c].status]
OtherColumns(c) == status

RecordCancel(c) ==
    /\ step[c] = "set"
    /\ asked' = [asked EXCEPT ![cancel[c].run] = TRUE]
    /\ status' = OtherColumns(c)
    /\ cancel' = [cancel EXCEPT ![c] = NoRow]
    /\ step' = [step EXCEPT ![c] = "idle"]
    /\ UNCHANGED <<jobVars, faults>>

-----------------------------------------------------------------------------
\* A process is killed: its table, its pool and its requests are gone.
Kill(p) ==
    /\ faults < MaxFaults
    /\ faults' = faults + 1
    /\ \E r \in Runs : home[r] = p /\ pc[r] # "gone"
    /\ pc' = [r \in Runs |-> IF home[r] = p THEN "gone" ELSE pc[r]]
    /\ jobs' = [jobs EXCEPT ![p] = {}]
    /\ stop' = [r \in Runs |-> stop[r] /\ home[r] # p]
    /\ UNCHANGED <<status, asked, home, ahead, pass, result, cancelVars>>

Job(r) ==
    \/ Register(r) \/ Reject(r) \/ Submit(r)
    \/ Take(r) \/ Start(r) \/ Preflight(r) \/ SolvePass(r) \/ Save(r) \/ Release(r)

Cancel(c) ==
    \/ \E r \in Runs : ReadRun(c, r)
    \/ \E p \in Processes : SetStop(c, p)
    \/ RecordCancel(c)

Next ==
    \/ \E r \in Runs : Job(r) \/ SubmitFails(r) \/ Fail(r) \/ \E p \in Processes : Create(p, r)
    \/ \E c \in Cancels : Cancel(c)
    \/ \E p \in Processes : Kill(p)

\* Requests and threads go on, and a solver pass ends within its time limit.
Fairness == \A r \in Runs : WF_vars(Job(r))

Spec == Init /\ [][Next]_vars /\ Fairness

-----------------------------------------------------------------------------
(* Properties.                                                             *)

\* Every variable stays within its type.
TypeOK ==
    /\ status \in [Runs -> Statuses]
    /\ asked \in [Runs -> BOOLEAN]
    /\ home \in [Runs -> Processes \cup {None}]
    /\ pc \in [Runs -> Places]
    /\ ahead \in [Runs -> SUBSET Runs]
    /\ pass \in [Runs -> 0 .. Passes]
    /\ result \in [Runs -> Outcomes \cup {"NONE"}]
    /\ jobs \in [Processes -> SUBSET Runs]
    /\ stop \in [Runs -> BOOLEAN]
    /\ cancel \in [Cancels -> [run : Runs \cup {None}, status : Statuses]]
    /\ step \in [Cancels -> {"idle", "read", "set"}]
    /\ faults \in Nat

\* The table of a process holds exactly the jobs of its pool, those about to be
\* handed to it included, and never more than its capacity: no failed
\* submission, failed job or cancel request leaks a slot.
SlotsAreJobs ==
    \A p \in Processes :
        /\ jobs[p] = {r \in Runs : home[r] = p /\ pc[r] \in InTable}
        /\ Cardinality(jobs[p]) <= MaxJobs[p]

\* The rows follow the lifecycle: an outcome is written once, over RUNNING, and
\* neither a job nor a late cancel request writes over it or over the record
\* of a cancel request.
Lifecycle == INSTANCE RunLifecycle

RefinesLifecycle == Lifecycle!Spec

\* Nobody works on the run any more.
Abandoned(r) == pc[r] = "gone" /\ status[r] \in Unfinished

HasSlot(r) == \E p \in Processes : r \in jobs[p]

\* A run ends and gives its slot back, even if its job waits for the thread of another
\* one that fails or is stopped, or is refused by a full table; only when its own job
\* failed or its process was killed its row never ends, but the slot is free then, too.
RunsEnd ==
    \A r \in Runs :
        status[r] \in Unfinished \/ HasSlot(r)
            ~> (status[r] \notin Unfinished \/ Abandoned(r)) /\ ~HasSlot(r)

\* Once the event of a job is set, until its solver has answered, the run ends
\* and not as OPTIMAL.
StoppedRunsEnd ==
    \A r \in Runs :
        stop[r] /\ pc[r] \in {"registered", "waiting", "taken", "preflight", "solving"}
            ~> status[r] \in Outcomes \ {"OPTIMAL"} \/ Abandoned(r)

=============================================================================
