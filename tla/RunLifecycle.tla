----------------------------- MODULE RunLifecycle -----------------------------
(***************************************************************************)
(* What a client of optimization runs may rely on: a run is queued, then   *)
(* refused or started, then ended at most once with one outcome that never *)
(* changes; a request to cancel it, once recorded, stays recorded.         *)
(***************************************************************************)
CONSTANT Runs

VARIABLES status, asked

Outcomes == {"OPTIMAL", "FEASIBLE", "INFEASIBLE", "UNKNOWN"}

Init ==
    /\ status = [r \in Runs |-> "NONE"]
    /\ asked = [r \in Runs |-> FALSE]

Move(r, from, to) ==
    /\ status[r] = from
    /\ status' = [status EXCEPT ![r] = to]
    /\ UNCHANGED asked

Ask(r) ==
    /\ status[r] # "NONE"
    /\ asked' = [asked EXCEPT ![r] = TRUE]
    /\ UNCHANGED status

Next ==
    \E r \in Runs :
        \/ Move(r, "NONE", "QUEUED")
        \/ Move(r, "QUEUED", "REJECTED")
        \/ Move(r, "QUEUED", "RUNNING")
        \/ \E outcome \in Outcomes : Move(r, "RUNNING", outcome)
        \/ Ask(r)

Spec == Init /\ [][Next]_<<status, asked>>
=============================================================================
