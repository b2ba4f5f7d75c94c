---------------------------- MODULE PlanValidator ----------------------------
(***************************************************************************)
(* PlanValidator.validate (validator/validator.py): the structural checks  *)
(* of a parsed plan and of its nested plans, and the topological sort that *)
(* writes sorted_node_ids, the order the executor walks.                   *)
(*                                                                         *)
(* Here a plan is what the planner's JSON says, before anything is known   *)
(* of it: ids may repeat, edges may name no node, and a node of any type   *)
(* may carry any field.  A plan with its nested plans is one sequence of   *)
(* nodes in the order of their lists; scope is the position of the node    *)
(* whose nested plan holds this one, Outer for the outermost plan.         *)
(* Validation recurses into nested plans, so its frames form a stack.      *)
(* What a check reads of a text is all that is kept of it: whether a tool  *)
(* is registered, whether a forced tier is configured, whether the         *)
(* decision fields are complete.                                           *)
(***************************************************************************)
EXTENDS Integers, Sequences, FiniteSets

CONSTANTS
    MaxPlanNodes,         \* settings.max_plan_nodes
    MaxSubplanNodes,      \* settings.max_subplan_nodes
    MaxSubplansPerPlan,   \* settings.max_subplans_per_plan
    MaxDecisionNesting    \* settings.max_decision_nesting_depth

ASSUME LimitsAssumption ==
    /\ MaxPlanNodes \in Nat /\ MaxSubplanNodes \in Nat
    /\ MaxSubplansPerPlan \in Nat /\ MaxDecisionNesting \in Nat

VARIABLES
    plan,        \* the plan under validation
    stage,       \* where validate is: idle, check, sort, nested, done
    stack,       \* the plans being validated, the outermost first
    in_degree,   \* topo_sort's in_degree, of the plan on top of the stack
    queue,       \* topo_sort's queue
    sorted,      \* sorted_ids of every plan sorted so far (a local of its frame)
    order,       \* Plan.sorted_node_ids, where it has been assigned
    verdict      \* how validate ended: valid, or the check that raised

validator == <<plan, stage, stack, in_degree, queue, sorted, order, verdict>>

Outer    == 0
YesNo    == {"yes", "no"}
LLMKinds == {"think", "synthesis", "summary", "result"}
Kinds    == {"tool", "decision", "subplan"} \cup LLMKinds
Errors   == {"node_limit", "contract", "unknown_tool", "forced_tier", "missing_node",
             "cycle", "nesting", "subplan_limit"}

\* Node, as the checks see it.
NodeShape ==
    [id             : Nat,
     type           : Kinds,
     scope          : Nat,
     context_needed : SUBSET Nat,
     branches       : [YesNo -> SUBSET Nat],
     decision       : {"none", "full", "partial"},     \* condition, branches, default_branch
     tool           : {"none", "registered", "unknown"},
     forced_tier    : {"none", "configured", "outside"},
     subplan        : BOOLEAN]                          \* a nested plan is attached

MembersOf(p, s) == {k \in DOMAIN p : p[k].scope = s}
IdsOf(p, s)     == {p[k].id : k \in MembersOf(p, s)}
HoldersIn(p, s) == {k \in MembersOf(p, s) : p[k].type = "subplan"}

(***************************************************************************)
(* The checks that come before the sort, for one plan.                     *)
(***************************************************************************)
WithinLimit(p, s) ==
    Cardinality(MembersOf(p, s)) <= IF s = Outer THEN MaxPlanNodes ELSE MaxSubplanNodes

\* _check_node_contracts: a node carries the fields of its type and no others.
ContractsKept(p, s) ==
    \A k \in MembersOf(p, s) :
        /\ (p[k].type = "tool") = (p[k].tool # "none")
        /\ p[k].decision = IF p[k].type = "decision" THEN "full" ELSE "none"
        /\ (p[k].type = "subplan") = p[k].subplan

ToolsKnown(p, s)   == \A k \in MembersOf(p, s) : p[k].type = "tool" => p[k].tool # "unknown"
TiersInRange(p, s) == \A k \in MembersOf(p, s) : p[k].forced_tier # "outside"

\* The first of the checks before the sort that raises, in the code's order.
PreSortError(p, s) ==
    IF ~WithinLimit(p, s) THEN "node_limit"
    ELSE IF ~ContractsKept(p, s) THEN "contract"
    ELSE IF ~ToolsKnown(p, s) THEN "unknown_tool"
    ELSE IF ~TiersInRange(p, s) THEN "forced_tier"
    ELSE "none"

(***************************************************************************)
(* topo_sort.                                                              *)
(***************************************************************************)
BranchIds(n) == IF n.type = "decision" THEN n.branches["yes"] \cup n.branches["no"] ELSE {}

RefsExist(p, s) ==
    \A k \in MembersOf(p, s) :
        /\ p[k].context_needed \subseteq IdsOf(p, s)
        /\ BranchIds(p[k]) \subseteq IdsOf(p, s)

\* A bug to catch: branch edges are left out of the graph.
DataEdgesOnly(p, s, a, b) ==
    \E k \in MembersOf(p, s) : p[k].id = b /\ a \in p[k].context_needed

\* `edges': b needs a's output, or decision a lists b in a branch.
Edge(p, s, a, b) ==
    \E k \in MembersOf(p, s) :
        \/ p[k].id = b /\ a \in p[k].context_needed
        \/ p[k].id = a /\ b \in BranchIds(p[k])

Sources(p, s, b) == {a \in IdsOf(p, s) : Edge(p, s, a, b)}

\* sorted(S): the members of S in ascending order (the one such sequence).
Ascending(S) ==
    {q \in [1..Cardinality(S) -> S] :
        /\ \A i, j \in 1..Cardinality(S) : i < j => q[i] < q[j]
        /\ \A x \in S : \E i \in 1..Cardinality(S) : q[i] = x}

(***************************************************************************)
(* The checks that come after the sort.  A decision listed in a branch of  *)
(* another is one level deeper, so the depth of _nesting_depth is the      *)
(* length of the longest such chain.                                       *)
(***************************************************************************)
NestsTooDeep(p, s) ==
    LET D == {k \in MembersOf(p, s) : p[k].type = "decision"}
    IN  \E c \in [1..(MaxDecisionNesting + 1) -> D] :
            \A i \in 1..MaxDecisionNesting : p[c[i + 1]].id \in BranchIds(p[c[i]])

PostSortError(p, s, ids) ==
    IF Len(ids) # Cardinality(MembersOf(p, s)) THEN "cycle"
    ELSE IF NestsTooDeep(p, s) THEN "nesting"
    ELSE IF Cardinality(HoldersIn(p, s)) > MaxSubplansPerPlan THEN "subplan_limit"
    ELSE "none"

-----------------------------------------------------------------------------
Top == stack[Len(stack)]

\* No validation under way.
ValidatorInit ==
    /\ plan = <<>> /\ stage = "idle" /\ stack = <<>>
    /\ in_degree = <<>> /\ queue = <<>> /\ sorted = <<>> /\ order = <<>>
    /\ verdict = "none"

\* validate(p) is called.
Call(p) ==
    /\ plan' = p
    /\ stage' = "check"
    /\ stack' = <<Outer>>
    /\ in_degree' = <<>> /\ queue' = <<>>
    /\ sorted' = [s \in 0..Len(p) |-> <<>>]
    /\ order' = [s \in 0..Len(p) |-> <<>>]
    /\ verdict' = "none"

\* PlanValidationError leaves every frame; the plan keeps the orders written so far.
Raise(error) ==
    /\ verdict' = error
    /\ stage' = "done"
    /\ UNCHANGED <<plan, stack, in_degree, queue, sorted, order>>

\* One of the checks before the sort fails, or an edge names no node.
CheckFails ==
    /\ stage = "check"
    /\ \/ PreSortError(plan, Top) # "none" /\ Raise(PreSortError(plan, Top))
       \/ /\ PreSortError(plan, Top) = "none"
          /\ ~RefsExist(plan, Top)
          /\ Raise("missing_node")

\* A bug to catch: edges are a list, so a node that needs a decision and is listed in
\* its branches counts that decision twice.
BuildGraphWithRepeats ==
    /\ stage = "check"
    /\ PreSortError(plan, Top) = "none"
    /\ RefsExist(plan, Top)
    /\ stage' = "sort"
    /\ in_degree' = [b \in IdsOf(plan, Top) |->
           Cardinality({k \in MembersOf(plan, Top) : b \in BranchIds(plan[k])})
           + Cardinality({a \in IdsOf(plan, Top) : DataEdgesOnly(plan, Top, a, b)})]
    /\ queue' \in Ascending({b \in IdsOf(plan, Top) : Sources(plan, Top, b) = {}})
    /\ UNCHANGED <<plan, stack, sorted, order, verdict>>

\* The graph is built, and the nodes without incoming edges start the queue.
BuildGraph ==
    /\ stage = "check"
    /\ PreSortError(plan, Top) = "none"
    /\ RefsExist(plan, Top)
    /\ stage' = "sort"
    /\ in_degree' = [b \in IdsOf(plan, Top) |-> Cardinality(Sources(plan, Top, b))]
    /\ queue' \in Ascending({b \in IdsOf(plan, Top) : Sources(plan, Top, b) = {}})
    /\ UNCHANGED <<plan, stack, sorted, order, verdict>>

\* One iteration of Kahn's loop.
PopNode ==
    /\ stage = "sort"
    /\ queue # <<>>
    /\ LET x      == Head(queue)
           after  == {b \in IdsOf(plan, Top) : Edge(plan, Top, x, b)}
           zeroed == {b \in after : in_degree[b] = 1}
       IN  /\ sorted' = [sorted EXCEPT ![Top] = Append(@, x)]
           /\ in_degree' = [b \in IdsOf(plan, Top) |->
                                IF b \in after THEN in_degree[b] - 1 ELSE in_degree[b]]
           /\ \E new \in Ascending(zeroed) : queue' = Tail(queue) \o new
    /\ UNCHANGED <<plan, stage, stack, order, verdict>>

\* The queue has run dry: a cycle or a repeated id, or the checks after the sort.
SortFails ==
    /\ stage = "sort"
    /\ queue = <<>>
    /\ PostSortError(plan, Top, sorted[Top]) # "none"
    /\ Raise(PostSortError(plan, Top, sorted[Top]))

SortEnds ==
    /\ stage = "sort"
    /\ queue = <<>>
    /\ PostSortError(plan, Top, sorted[Top]) = "none"
    /\ stage' = "nested"
    /\ UNCHANGED <<plan, stack, in_degree, queue, sorted, order, verdict>>

\* Nested plans of the plan on top that are still to be checked: those after the
\* last one checked, in the order of the list.
Unchecked == {k \in HoldersIn(plan, Top) : sorted[k] = <<>> /\ MembersOf(plan, k) # {}}

\* _check_subplans turns to the next nested plan.  An empty one passes every check.
EnterSubplan ==
    /\ stage = "nested"
    /\ \E k \in Unchecked :
          /\ \A j \in Unchecked : k <= j
          /\ stack' = Append(stack, k)
    /\ stage' = "check"
    /\ UNCHANGED <<plan, in_degree, queue, sorted, order, verdict>>

\* A bug to catch: a nested plan's order is computed but never stored.
WriteOuterOnly ==
    /\ stage = "nested"
    /\ Unchecked = {}
    /\ order' = IF Top = Outer THEN [order EXCEPT ![Top] = sorted[Top]] ELSE order
    /\ stack' = SubSeq(stack, 1, Len(stack) - 1)
    /\ IF Len(stack) = 1 THEN stage' = "done" /\ verdict' = "valid"
                         ELSE stage' = "nested" /\ verdict' = verdict
    /\ UNCHANGED <<plan, in_degree, queue, sorted>>

\* Every nested plan is checked: the order is written and the frame returns.
WriteOrder ==
    /\ stage = "nested"
    /\ Unchecked = {}
    /\ order' = [order EXCEPT ![Top] = sorted[Top]]
    /\ stack' = SubSeq(stack, 1, Len(stack) - 1)
    /\ IF Len(stack) = 1 THEN stage' = "done" /\ verdict' = "valid"
                         ELSE stage' = "nested" /\ verdict' = verdict
    /\ UNCHANGED <<plan, in_degree, queue, sorted>>

ValidatorNext ==
    \/ CheckFails \/ BuildGraph \/ PopNode \/ SortFails \/ SortEnds \/ EnterSubplan \/ WriteOrder

-----------------------------------------------------------------------------
(***************************************************************************)
(* What the sort promises: every node of the plan is named once, after all *)
(* the nodes whose output it needs and after the decisions that list it in *)
(* a branch.                                                               *)
(***************************************************************************)
Topological(p, s, ids) ==
    /\ Len(ids) = Cardinality(MembersOf(p, s))
    /\ \A k \in MembersOf(p, s) : \E i \in 1..Len(ids) : ids[i] = p[k].id
    /\ \A i, j \in 1..Len(ids) : ids[i] = ids[j] => i = j
    /\ \A k \in MembersOf(p, s) : \A i, j \in 1..Len(ids) :
          /\ ids[j] = p[k].id /\ ids[i] \in p[k].context_needed => i < j
          /\ p[k].type = "decision" /\ ids[i] = p[k].id
                /\ ids[j] \in p[k].branches["yes"] \cup p[k].branches["no"] => i < j

(***************************************************************************)
(* A plan that cannot be put in any order: two of its nodes share an id,   *)
(* or some of them wait for each other.                                    *)
(***************************************************************************)
Unsortable(p, s) ==
    \/ \E j, k \in MembersOf(p, s) : j # k /\ p[j].id = p[k].id
    \/ \E S \in (SUBSET IdsOf(p, s)) \ {{}} :
          \A b \in S : \E k \in MembersOf(p, s) :
              \/ p[k].id = b /\ p[k].context_needed \cap S # {}
              \/ p[k].type = "decision" /\ p[k].id \in S
                    /\ b \in p[k].branches["yes"] \cup p[k].branches["no"]
=============================================================================
