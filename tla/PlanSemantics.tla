---------------------------- MODULE PlanSemantics ----------------------------
(***************************************************************************)
(* What executing a plan means, with no scheduler, tasks or semaphore:     *)
(* nodes settle one at a time, each only after everything it depends on,   *)
(* and each is skipped exactly when its plan says so.  Executor is shown   *)
(* to implement this (docs/specs/parallel-execution.md, "Invariants that   *)
(* must survive" and Part A, items 2 and 3).                               *)
(***************************************************************************)
EXTENDS PlanGraph

CONSTANT Plans

VARIABLES plan, status, branch

semVars == <<plan, status, branch>>

SemInit ==
    /\ plan \in Plans
    /\ status = [n \in Nodes |-> "none"]
    /\ branch = [n \in Nodes |-> "none"]

IsSettled(n) == status[n] # "none"

DepsSettled(n) == \A m \in Deps(plan, n) : IsSettled(m)

InputsSkipped(n) ==
    /\ ContentDeps(plan, n) # {}
    /\ \A m \in ContentDeps(plan, n) : status[m] = "skipped"

\* n may run: its own dependencies are settled and so are those of the
\* SUBPLAN node that holds it, which was not skipped.
Enabled(n) ==
    /\ ~IsSettled(n)
    /\ DepsSettled(n)
    /\ plan.scope[n] # Root =>
          DepsSettled(plan.scope[n]) /\ status[plan.scope[n]] # "skipped"

Skip(n) ==
    /\ Enabled(n)
    /\ InputsSkipped(n)
    /\ status' = [status EXCEPT ![n] = "skipped"]
    /\ UNCHANGED <<plan, branch>>

\* A subplan that did not fail has settled every node its nested plan lists.
Settle(n, o) ==
    /\ Enabled(n)
    /\ ~InputsSkipped(n)
    /\ plan.type[n] # "decision"
    /\ plan.type[n] = "subplan" /\ o # "failed" =>
          \A m \in Members(plan, n) \cap plan.listed : IsSettled(m)
    /\ status' = [status EXCEPT ![n] = o]
    /\ UNCHANGED <<plan, branch>>

\* A decision settles together with the nodes it excludes.
Decide(d, b) ==
    /\ Enabled(d)
    /\ ~InputsSkipped(d)
    /\ plan.type[d] = "decision"
    /\ status' = [n \in Nodes |->
                    IF n = d THEN "completed"
                    ELSE IF n \in Untaken(plan, d, b) THEN "skipped" ELSE status[n]]
    /\ branch' = [branch EXCEPT ![d] = b]
    /\ UNCHANGED plan

SemNext ==
    \E n \in Nodes :
       \/ Skip(n)
       \/ \E o \in {"completed", "failed", "empty"} : Settle(n, o)
       \/ \E b \in Branches : Decide(n, b)

SemSpec == SemInit /\ [][SemNext]_semVars
=============================================================================
