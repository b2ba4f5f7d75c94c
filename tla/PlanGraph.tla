------------------------------ MODULE PlanGraph ------------------------------
(***************************************************************************)
(* The plan a task executes: a graph of nodes (core/plan.py), its nested   *)
(* subplans included, as the validator (validator/validator.py) leaves it  *)
(* and as the executor's plan helpers (executor/executor.py) read it.      *)
(*                                                                         *)
(* A plan with its nested plans is flattened into one set of nodes.  Ids   *)
(* are only labels in the code, so a node is named by its rank: within a   *)
(* plan, nodes are numbered in the order of sorted_node_ids, and a nested  *)
(* plan's nodes come after the SUBPLAN node that holds them.  scope[n] is  *)
(* the SUBPLAN node whose nested plan n belongs to, Root for the outermost *)
(* plan.  `listed' are the nodes that sorted_node_ids names: all of them   *)
(* after validation, but exec-plan --no-validate runs a plan whose sort    *)
(* failed with whatever list its file holds, none by default.              *)
(* Descriptions, prompts, tool names and tiers play no part in scheduling  *)
(* and are left out.                                                       *)
(***************************************************************************)
EXTENDS Integers, FiniteSets

CONSTANT NumNodes     \* nodes of a plan, those of its nested plans included

ASSUME NumNodesAssumption == NumNodes \in Nat

Nodes  == 1..NumNodes
Root   == 0                       \* the outermost plan
Scopes == {Root} \cup Nodes       \* a plan is named by the node that holds it

LLMTypes  == {"think", "synthesis", "summary", "result"}
NodeTypes == {"tool", "decision", "subplan"} \cup LLMTypes
Branches  == {"yes", "no"}

\* Node and Plan.
PlanShape ==
    [type           : [Nodes -> NodeTypes],
     scope          : [Nodes -> Scopes],
     context_needed : [Nodes -> SUBSET Nodes],
     branches       : [Nodes -> [Branches -> SUBSET Nodes]],
     listed         : SUBSET Nodes]

Members(p, s) == {n \in Nodes : p.scope[n] = s}

\* Decisions that list n in one of their branches: its control dependencies.
Governors(p, n) ==
    {d \in Nodes : p.type[d] = "decision" /\ \E b \in Branches : n \in p.branches[d][b]}

\* A bug to catch: only the data edges count.
DepsWithoutControl(p, n) == p.context_needed[n]

\* _dependency_map: data and decision-control dependencies.
Deps(p, n) == p.context_needed[n] \cup Governors(p, n)

\* _content_dependencies: the declared inputs that are not decisions.
ContentDeps(p, n) == {m \in p.context_needed[n] : p.type[m] # "decision"}

\* The nodes _record_branch_decision excludes when d takes branch b.
Untaken(p, d, b) == UNION {p.branches[d][c] : c \in Branches \ {b}}

(***************************************************************************)
(* A plan as parsed: edges name nodes of the same plan, and a nested plan  *)
(* hangs off a SUBPLAN node.                                               *)
(***************************************************************************)
Loadable(p) ==
    /\ p \in PlanShape
    /\ \A n \in Nodes :
          /\ p.scope[n] < n
          /\ p.scope[n] # Root => p.type[p.scope[n]] = "subplan"
          /\ \A m \in p.context_needed[n] : p.scope[m] = p.scope[n]
          /\ \A b \in Branches : \A m \in p.branches[n][b] : p.scope[m] = p.scope[n]

(***************************************************************************)
(* What PlanValidator.validate adds: sorted_node_ids lists every node, in  *)
(* a topological order of the data and the branch edges, and only a        *)
(* DECISION declares branches.                                             *)
(***************************************************************************)
Validated(p) ==
    /\ Loadable(p)
    /\ p.listed = Nodes
    /\ \A n \in Nodes :
          /\ \A m \in p.context_needed[n] : m < n
          /\ \A b \in Branches : \A m \in p.branches[n][b] : n < m
          /\ p.type[n] # "decision" => \A b \in Branches : p.branches[n][b] = {}
=============================================================================
