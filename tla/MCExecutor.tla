------------------------------ MODULE MCExecutor ------------------------------
(***************************************************************************)
(* Plans of six nodes for TLC: joins, nested plans, nested decisions, and  *)
(* plans that were never validated.                                        *)
(***************************************************************************)
EXTENDS Executor, TLC

\* A plan from its node types, holders, inputs and (as pairs) branches.
MkPlan(ty, sc, needs, yes, no) ==
    [type           |-> ty,
     scope          |-> sc,
     context_needed |-> needs,
     branches       |-> [n \in Nodes |-> [b \in Branches |-> IF b = "yes" THEN yes[n] ELSE no[n]]],
     listed         |-> Nodes]

Empty6 == [n \in 1..6 |-> {}]
Flat6  == [n \in 1..6 |-> Root]

\* A decision whose branches meet in a join, and a fan-out beside it.
JoinPlan ==
    MkPlan(<<"tool", "decision", "tool", "think", "synthesis", "result">>, Flat6,
           <<{}, {1}, {}, {}, {3, 4}, {5}>>,
           [Empty6 EXCEPT ![2] = {3}], [Empty6 EXCEPT ![2] = {4}])

\* Two subplans side by side, with two independent nodes each.
TwinPlan ==
    MkPlan(<<"subplan", "subplan", "tool", "result", "tool", "tool">>,
           <<Root, Root, 1, 1, 2, 2>>,
           Empty6, Empty6, Empty6)

\* A subplan inside a subplan.
DeepPlan ==
    MkPlan(<<"subplan", "subplan", "tool", "summary", "result", "result">>,
           <<Root, 1, 2, 2, 1, Root>>,
           <<{}, {}, {}, {3}, {2}, {1}>>, Empty6, Empty6)

\* A nested decision, and a consumer of the subplan beside an independent tool.
NestedDecisionPlan ==
    MkPlan(<<"subplan", "decision", "tool", "tool", "tool", "result">>,
           <<Root, 1, 1, 1, Root, Root>>,
           <<{}, {}, {}, {3}, {}, {1, 5}>>,
           [Empty6 EXCEPT ![2] = {3}], Empty6)

\* The consumer of 1 may find its output unencodable while the subplan runs.
FaultPlan ==
    MkPlan(<<"tool", "think", "subplan", "tool", "think", "result">>,
           <<Root, Root, Root, 3, 3, Root>>,
           <<{}, {1}, {}, {}, {4}, {2, 3}>>, Empty6, Empty6)

\* A decision (2) on the untaken side of another, with targets of its own.
DecisionTree ==
    MkPlan(<<"decision", "decision", "tool", "tool", "tool", "result">>, Flat6,
           <<{}, {}, {}, {}, {}, {3, 4, 5}>>,
           [Empty6 EXCEPT ![1] = {2}, ![2] = {4}],
           [Empty6 EXCEPT ![1] = {3}, ![2] = {5}])

\* exec-plan --no-validate: 2 and 3 wait for each other.
CyclePlan ==
    MkPlan(<<"tool", "think", "think", "subplan", "tool", "result">>,
           <<Root, Root, Root, Root, 4, Root>>,
           <<{}, {1, 3}, {2}, {}, {5}, {4}>>, Empty6, Empty6)

\* The same plan when its file lists no sorted_node_ids at all, or only those
\* of the outermost plan.
UnlistedPlans == {[CyclePlan EXCEPT !.listed = {}], [CyclePlan EXCEPT !.listed = {1, 2, 3, 4, 6}]}

UnvalidatedPlans == UnlistedPlans \cup {CyclePlan}

TreePlans == {DecisionTree}

NestedPlans == {JoinPlan, TwinPlan, DeepPlan, NestedDecisionPlan, FaultPlan} \cup TreePlans

AllPlans == NestedPlans \cup UnvalidatedPlans
=============================================================================
