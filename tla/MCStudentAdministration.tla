---------------------- MODULE MCStudentAdministration ----------------------
(* One student, admitted in term 1 and moved in term 2; two policy rows that may overlap; nobody
   wrote a rule for transitions. *)
EXTENDS StudentAdministration

CONSTANTS ada, ben, e1, e2, f1, f2, s1, z1, r1, r2, plan

MCPlanOf == [r \in {r1, r2} |-> plan]
MCInitialRevisions == (r1 :> "PUBLISHED" @@ r2 :> "DRAFT")
MCStudentOf == [e \in {e1, e2} |-> s1]
MCContextOf == (e1 :> "ADMISSION" @@ e2 :> "PLAN_TRANSITION")
MCAdmissionDate == (e1 :> 1 @@ e2 :> 2)
MCCohortOf == [e \in {e1, e2} |-> None]
MCReferenceOf == (e1 :> f1 @@ e2 :> f2)
MCSubjectOf == [f \in {f1, f2} |-> s1]

Draft(context, revision, from, to, previous, supersedes) ==
    [context |-> context, revision |-> revision, admission_from |-> from, admission_to |-> None,
     effective_from |-> None, effective_to |-> to, cohort |-> None, previous_plan |-> previous,
     supersedes |-> supersedes, verified |-> TRUE, documented |-> TRUE]

\* An admission rule and its successor from date 1 on.  A second row that says
\* the first again contradicts both.
MCContents == {Draft("ADMISSION", r1, 0, None, None, None), Draft("ADMISSION", r2, 1, None, None, 1),
               Draft("PLAN_TRANSITION", r2, 2, None, plan, None)}
=============================================================================
