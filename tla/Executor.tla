------------------------------- MODULE Executor -------------------------------
(***************************************************************************)
(* The ready-set scheduler of executor/executor.py: Executor._run for the  *)
(* outermost plan and, recursively, for every nested plan, with the        *)
(* asyncio tasks it creates for the nodes and the semaphore they share.    *)
(*                                                                         *)
(* The event loop is single-threaded.  _run suspends only in asyncio.wait  *)
(* (publishing to the in-process bus and recording a result never          *)
(* suspend), so a scan of the pending nodes, once begun, runs to the wait  *)
(* with nothing in between: `scanning' names the run whose scan holds the  *)
(* loop, and every other step waits for it.  A node's task suspends while  *)
(* it waits for the semaphore and during its tool or model call; recording *)
(* its result, the branch it decides and the nodes that excludes is one    *)
(* step.                                                                   *)
(*                                                                         *)
(* Abstracted: what nodes compute.  The semaphore's queue is FIFO; here    *)
(* any waiting task may be the next to enter.  NodeStarted is published    *)
(* exactly when a task leaves "created", NodeFinished exactly when a       *)
(* status is recorded, TaskCompleted when the Root run completes.          *)
(***************************************************************************)
EXTENDS PlanGraph

CONSTANTS
    Plans,      \* the plans considered
    Settings    \* the values of settings.max_concurrent_nodes considered

ASSUME PlansAssumption == \A p \in Plans : Loadable(p)
ASSUME SettingsAssumption == Settings \subseteq Int

VARIABLES
    plan,        \* state.plan; never changes
    setting,     \* settings.max_concurrent_nodes; never changes
    run,         \* per plan: where its _run is
    pending,     \* the union of every run's `pending'
    inFlight,    \* the union of every run's `in_flight'
    task,        \* per node: its asyncio task
    status,      \* per node: state.results[n].status, "none" when absent
    branch,      \* per decision: branch_taken
    opaque,      \* completed nodes whose output json.dumps cannot encode
    permits,     \* value of the semaphore shared by all nesting levels
    scanning,    \* the run whose scan holds the event loop, or Nobody
    cursor,      \* the scan considers nodes from here on
    dispatched   \* the scan's local flag

vars == <<plan, setting, run, pending, inFlight, task, status, branch, opaque,
          permits, scanning, cursor, dispatched>>

Nobody == -1

RunStates  == {"idle", "running", "completed", "raised", "blocked", "cancelled"}
TaskStates == {"none", "created", "running", "done", "raised"}
Outcomes   == {"completed", "failed", "empty"}
Statuses   == Outcomes \cup {"none", "skipped"}

TypeOK ==
    /\ plan \in Plans
    /\ setting \in Settings
    /\ run \in [Scopes -> RunStates]
    /\ pending \in SUBSET Nodes
    /\ inFlight \in SUBSET Nodes
    /\ task \in [Nodes -> TaskStates]
    /\ status \in [Nodes -> Statuses]
    /\ branch \in [Nodes -> Branches \cup {"none"}]
    /\ opaque \in SUBSET Nodes
    /\ permits \in Nat
    /\ scanning \in Scopes \cup {Nobody}
    /\ cursor \in Nat
    /\ dispatched \in BOOLEAN

-----------------------------------------------------------------------------
\* A bug to catch: an off-by-one in the bound.
MaxConcurrentPlusOne == IF setting < 1 THEN 2 ELSE setting + 1

\* max_concurrent = max(1, settings.max_concurrent_nodes)
MaxConcurrent == IF setting < 1 THEN 1 ELSE setting

Settled == {n \in Nodes : status[n] # "none"}

\* A bug to catch: a dependency must have completed, not just be settled.
ReadyCompleted(n) == \A m \in Deps(plan, n) : status[m] = "completed"

Ready(n) == Deps(plan, n) \subseteq Settled

PendingOf(s)  == pending \cap Members(plan, s)
InFlightOf(s) == inFlight \cap Members(plan, s)
Finished(n)   == task[n] \in {"done", "raised"}

\* A bug to catch: one skipped input is enough, so joins are skipped too.
AnySkippedContent(n) == \E m \in ContentDeps(plan, n) : status[m] = "skipped"

\* _only_uses_skipped_content
OnlyUsesSkippedContent(n) ==
    /\ ContentDeps(plan, n) # {}
    /\ \A m \in ContentDeps(plan, n) : status[m] = "skipped"

\* assemble_context raises on a completed input it cannot encode; no caller
\* catches that, so it ends the node's task.
ContextRaises(n) == plan.context_needed[n] \cap opaque # {}

\* _final_output_result: the last completed node of the preferred type.
Candidates(s, t) ==
    {n \in Members(plan, s) :
        /\ plan.type[n] = t
        /\ ~OnlyUsesSkippedContent(n)
        /\ status[n] = "completed"}

HasFinalOutput(s) == \E t \in {"result", "synthesis", "summary"} : Candidates(s, t) # {}

-----------------------------------------------------------------------------
\* Executor.execute enters _run for the outermost plan.
Init ==
    /\ plan \in Plans
    /\ setting \in Settings
    /\ run = [s \in Scopes |-> IF s = Root THEN "running" ELSE "idle"]
    /\ pending = Members(plan, Root) \cap plan.listed
    /\ inFlight = {}
    /\ task = [n \in Nodes |-> "none"]
    /\ status = [n \in Nodes |-> "none"]
    /\ branch = [n \in Nodes |-> "none"]
    /\ opaque = {}
    /\ permits = MaxConcurrent
    /\ scanning = Root
    /\ cursor = 1
    /\ dispatched = FALSE

(* One iteration of `for node_id in plan.sorted_node_ids'. *)

\* n is the next pending node of the scan that holds the loop.
Considers(n) ==
    /\ n \in PendingOf(scanning)
    /\ cursor <= n
    /\ \A m \in PendingOf(scanning) : cursor <= m => n <= m

\* The node already has a result (an excluded branch): drop it.
DropSettled(n) ==
    /\ Considers(n)
    /\ status[n] # "none"
    /\ pending' = pending \ {n}
    /\ cursor' = n + 1
    /\ UNCHANGED <<plan, setting, run, inFlight, task, status, branch, opaque, permits,
                   scanning, dispatched>>

\* A bug to catch: break instead of continue.
PassOverBreaks(n) ==
    /\ Considers(n)
    /\ status[n] = "none"
    /\ ~Ready(n)
    /\ cursor' = NumNodes + 1
    /\ UNCHANGED <<plan, setting, run, pending, inFlight, task, status, branch, opaque,
                   permits, scanning, dispatched>>

\* A dependency has no result yet.
PassOver(n) ==
    /\ Considers(n)
    /\ status[n] = "none"
    /\ ~Ready(n)
    /\ cursor' = n + 1
    /\ UNCHANGED <<plan, setting, run, pending, inFlight, task, status, branch, opaque,
                   permits, scanning, dispatched>>

\* _record_skipped_node: every content dependency was skipped.
SkipNode(n) ==
    /\ Considers(n)
    /\ status[n] = "none"
    /\ Ready(n)
    /\ OnlyUsesSkippedContent(n)
    /\ pending' = pending \ {n}
    /\ status' = [status EXCEPT ![n] = "skipped"]
    /\ dispatched' = TRUE
    /\ cursor' = n + 1
    /\ UNCHANGED <<plan, setting, run, inFlight, task, branch, opaque, permits, scanning>>

\* in_flight is full: the node stays pending and the for loop breaks.
BreakFull(n) ==
    /\ Considers(n)
    /\ status[n] = "none"
    /\ Ready(n)
    /\ ~OnlyUsesSkippedContent(n)
    /\ Cardinality(InFlightOf(scanning)) >= MaxConcurrent
    /\ cursor' = NumNodes + 1
    /\ UNCHANGED <<plan, setting, run, pending, inFlight, task, status, branch, opaque,
                   permits, scanning, dispatched>>

\* asyncio.create_task(self._run_node(...))
Dispatch(n) ==
    /\ Considers(n)
    /\ status[n] = "none"
    /\ Ready(n)
    /\ ~OnlyUsesSkippedContent(n)
    /\ Cardinality(InFlightOf(scanning)) < MaxConcurrent
    /\ pending' = pending \ {n}
    /\ inFlight' = inFlight \cup {n}
    /\ task' = [task EXCEPT ![n] = "created"]
    /\ dispatched' = TRUE
    /\ cursor' = n + 1
    /\ UNCHANGED <<plan, setting, run, status, branch, opaque, permits, scanning>>

(* The end of the scan. *)

ScanOver == scanning # Nobody /\ ~\E n \in Nodes : Considers(n)

\* A bug to catch: the flag is not reset for the next scan.
RescanKeepsFlag ==
    /\ ScanOver
    /\ PendingOf(scanning) \cup InFlightOf(scanning) # {}
    /\ dispatched
    /\ Cardinality(InFlightOf(scanning)) < MaxConcurrent
    /\ cursor' = 1
    /\ UNCHANGED <<plan, setting, run, pending, inFlight, task, status, branch, opaque,
                   permits, scanning, dispatched>>

\* `continue': another turn of the while loop.
Rescan ==
    /\ ScanOver
    /\ PendingOf(scanning) \cup InFlightOf(scanning) # {}
    /\ dispatched
    /\ Cardinality(InFlightOf(scanning)) < MaxConcurrent
    /\ cursor' = 1
    /\ dispatched' = FALSE
    /\ UNCHANGED <<plan, setting, run, pending, inFlight, task, status, branch, opaque,
                   permits, scanning>>

\* await asyncio.wait(in_flight, return_when=FIRST_COMPLETED)
Suspend ==
    /\ ScanOver
    /\ InFlightOf(scanning) # {}
    /\ ~dispatched \/ Cardinality(InFlightOf(scanning)) >= MaxConcurrent
    /\ scanning' = Nobody
    /\ UNCHANGED <<plan, setting, run, pending, inFlight, task, status, branch, opaque,
                   permits, cursor, dispatched>>

(***************************************************************************)
(* The _run of plan s ends in state e.  The outermost run returns to the   *)
(* orchestrator.  A nested run returns to _execute_subplan, and the same   *)
(* step records the SUBPLAN node's result: `st' when there is one.         *)
(***************************************************************************)
Leave(s, e, st) ==
    /\ run' = [run EXCEPT ![s] = e]
    /\ scanning' = Nobody
    /\ status' = IF s = Root THEN status ELSE [status EXCEPT ![s] = st]
    /\ task' = IF s = Root THEN task ELSE [task EXCEPT ![s] = "done"]
    /\ UNCHANGED <<plan, setting, pending, inFlight, branch, opaque, permits, cursor, dispatched>>

\* RuntimeError("no ready nodes remain")
Blocked ==
    /\ ScanOver
    /\ InFlightOf(scanning) = {}
    /\ PendingOf(scanning) # {}
    /\ ~dispatched
    /\ Leave(scanning, "blocked", "failed")

\* A bug to catch: the loop runs on pending alone.
CompleteEarly ==
    /\ ScanOver
    /\ PendingOf(scanning) = {}
    /\ Leave(scanning, "completed",
             IF HasFinalOutput(scanning) THEN "completed" ELSE "empty")

\* The while loop ends: final_output is extracted and the run is COMPLETED.
Complete ==
    /\ ScanOver
    /\ PendingOf(scanning) \cup InFlightOf(scanning) = {}
    /\ Leave(scanning, "completed",
             IF HasFinalOutput(scanning) THEN "completed" ELSE "empty")

\* asyncio.wait returns every in-flight task that has finished by now.
Woken(s) ==
    /\ scanning = Nobody
    /\ run[s] = "running"
    /\ \E n \in InFlightOf(s) : Finished(n)

\* All of them ended well: drop them from in_flight and scan again.
Wake(s) ==
    /\ Woken(s)
    /\ \A n \in InFlightOf(s) : task[n] # "raised"
    /\ inFlight' = {n \in inFlight : n \in Members(plan, s) => ~Finished(n)}
    /\ scanning' = s
    /\ cursor' = 1
    /\ dispatched' = FALSE
    /\ UNCHANGED <<plan, setting, run, pending, task, status, branch, opaque, permits>>

\* `await task' raises out of _run; the other in-flight tasks are left alone.
WakeRaises(s) ==
    /\ Woken(s)
    /\ \E n \in InFlightOf(s) : task[n] = "raised"
    /\ Leave(s, "raised", "failed")

-----------------------------------------------------------------------------
(* The node tasks: _run_node and _execute_and_record_node. *)

NeedsPermit(n) == plan.type[n] # "subplan"

\* A bug to catch: nested plans do not share the semaphore.
MayStartUnbounded(n) == scanning = Nobody /\ task[n] = "created"

\* The task is created and, unless it runs a subplan, may enter the semaphore.
MayStart(n) ==
    /\ scanning = Nobody
    /\ task[n] = "created"
    /\ NeedsPermit(n) => permits > 0

\* NodeStarted, then the tool or model call is under way.
Start(n) ==
    /\ MayStart(n)
    /\ NeedsPermit(n)
    /\ ~ContextRaises(n)
    /\ task' = [task EXCEPT ![n] = "running"]
    /\ permits' = permits - 1
    /\ UNCHANGED <<plan, setting, run, pending, inFlight, status, branch, opaque,
                   scanning, cursor, dispatched>>

\* NodeStarted, then assemble_context raises and the permit is given back.
StartRaises(n) ==
    /\ MayStart(n)
    /\ ContextRaises(n)
    /\ task' = [task EXCEPT ![n] = "raised"]
    /\ UNCHANGED <<plan, setting, run, pending, inFlight, status, branch, opaque, permits,
                   scanning, cursor, dispatched>>

\* _execute_subplan: the nested _run begins scanning within the same step.
StartSubplan(n) ==
    /\ MayStart(n)
    /\ ~NeedsPermit(n)
    /\ ~ContextRaises(n)
    /\ task' = [task EXCEPT ![n] = "running"]
    /\ run' = [run EXCEPT ![n] = "running"]
    /\ pending' = pending \cup (Members(plan, n) \cap plan.listed)
    /\ scanning' = n
    /\ cursor' = 1
    /\ dispatched' = FALSE
    /\ UNCHANGED <<plan, setting, inFlight, status, branch, opaque, permits>>

\* A leaf node's call has returned: its permit is given back with the record.
Returns(n) ==
    /\ scanning = Nobody
    /\ task[n] = "running"
    /\ NeedsPermit(n)
    /\ task' = [task EXCEPT ![n] = "done"]
    /\ permits' = permits + 1
    /\ UNCHANGED <<plan, setting, run, pending, inFlight, scanning, cursor, dispatched>>

\* _execute_tool: failed when the tool raises or is not approved, empty when it
\* returns nothing; a value may be one that JSON cannot encode.
ToolResult(o, unencodable) == unencodable => o = "completed"

\* _execute_llm_node: failed once the retries are used up; a text otherwise.
LLMResult(o, unencodable) == o # "empty" /\ ~unencodable

FinishNode(n, o, unencodable) ==
    /\ plan.type[n] # "decision"
    /\ plan.type[n] = "tool" => ToolResult(o, unencodable)
    /\ plan.type[n] \in LLMTypes => LLMResult(o, unencodable)
    /\ Returns(n)
    /\ status' = [status EXCEPT ![n] = o]
    /\ opaque' = IF unencodable THEN opaque \cup {n} ELSE opaque
    /\ UNCHANGED branch

\* The decision's result, and SKIPPED for each excluded node without one.
Exclude(d, b) ==
    [n \in Nodes |-> IF n = d THEN "completed"
                     ELSE IF n \in Untaken(plan, d, b) /\ status[n] = "none"
                     THEN "skipped" ELSE status[n]]

\* A decision completes whatever happens: it falls back to default_branch.
FinishDecision(d, b) ==
    /\ plan.type[d] = "decision"
    /\ Returns(d)
    /\ branch' = [branch EXCEPT ![d] = b]
    /\ status' = Exclude(d, b)
    /\ UNCHANGED opaque

\* The task running the orchestrator is cancelled while _run waits; the
\* CancelledError does not reach the node tasks.
Cancel ==
    /\ scanning = Nobody
    /\ run[Root] = "running"
    /\ run' = [run EXCEPT ![Root] = "cancelled"]
    /\ UNCHANGED <<plan, setting, pending, inFlight, task, status, branch, opaque, permits,
                   scanning, cursor, dispatched>>

-----------------------------------------------------------------------------
ScanStep ==
    \/ \E n \in Nodes :
          DropSettled(n) \/ PassOver(n) \/ SkipNode(n) \/ BreakFull(n) \/ Dispatch(n)
    \/ Rescan
    \/ Suspend
    \/ Blocked
    \/ Complete

NodeStep ==
    \E n \in Nodes :
       \/ Start(n)
       \/ StartRaises(n)
       \/ StartSubplan(n)
       \/ \E o \in Outcomes, u \in BOOLEAN : FinishNode(n, o, u)
       \/ \E b \in Branches : FinishDecision(n, b)

RunStep == \E s \in Scopes : Wake(s) \/ WakeRaises(s)

\* Nothing is left for the event loop to do.
Quiescent ==
    /\ scanning = Nobody
    /\ \A s \in Scopes : run[s] # "running"
    /\ \A n \in Nodes : task[n] \notin {"created", "running"}

Rest == Quiescent /\ UNCHANGED vars

Next == ScanStep \/ NodeStep \/ RunStep \/ Cancel \/ Rest

Spec == Init /\ [][Next]_vars

\* The event loop goes on running what is ready, and every call returns.
FairSpec == Spec /\ WF_vars(ScanStep \/ NodeStep \/ RunStep)

-----------------------------------------------------------------------------
(* Properties. *)

\* The abstract plan: the results and the decisions of this one, without the
\* scheduler's own state.
Semantics == INSTANCE PlanSemantics
    WITH NumNodes <- NumNodes, Plans <- Plans,
         plan <- plan, status <- status, branch <- branch

\* The scheduler, with all its concurrency, implements the plan's meaning:
\* every step settles nodes as PlanSemantics allows or settles none.
Refines == Semantics!SemSpec

\* The decisions that were taken away from n.
Excluded(n) == \E d \in Nodes : branch[d] # "none" /\ n \in Untaken(plan, d, branch[d])

\* A node is handed to a task only once everything it depends on, through
\* context_needed or a governing decision, has a recorded result.
DependencyOrder ==
    \A n \in Nodes : task[n] # "none" =>
        \A m \in plan.context_needed[n] \cup Governors(plan, n) : status[m] # "none"

\* At no time do more than max_concurrent_nodes tool and model calls run,
\* counted over all nesting levels and over tasks a dead run left behind.
ConcurrencyBound ==
    Cardinality({n \in Nodes : task[n] = "running" /\ NeedsPermit(n)}) <= MaxConcurrent

\* n belongs to the branches of decisions that were skipped themselves.
Undecided(n) ==
    Governors(plan, n) # {} /\ \A d \in Governors(plan, n) : status[d] = "skipped"

\* Whatever the interleaving, the skipped nodes are exactly those the plan
\* and the outcomes determine: excluded by a decision, or with content
\* inputs that were all skipped.  A join with one live input always runs.
\* Of a decision that was skipped itself UntakenSkipped speaks.
SkipExact ==
    \A n \in Settled :
        ~Undecided(n) => (status[n] = "skipped" <=> Excluded(n) \/ Semantics!InputsSkipped(n))

\* An untaken branch is skipped transitively (docs/architecture.md): a decision
\* on it takes the nodes of both its own branches along.  The code skips by
\* content inputs alone, and a decision that is skipped excludes nothing.
UntakenSkipped == \A n \in Settled : Undecided(n) => status[n] = "skipped"

\* A run that completes leaves no task of its own behind and, of the nodes
\* sorted_node_ids lists, none without a result.
CompleteMeansAll ==
    \A n \in plan.listed : run[plan.scope[n]] = "completed" =>
        status[n] # "none" /\ task[n] \in {"none", "done"}

\* For a validated plan the "no ready nodes remain" error is unreachable.
NeverBlocked == Validated(plan) => \A s \in Scopes : run[s] # "blocked"

\* With max_concurrent_nodes at 1 or less a validated plan runs in the order
\* of sorted_node_ids: a node starts only after all before it are settled.
SequentialWhenOne ==
    setting <= 1 /\ Validated(plan) =>
        \A m, n \in Nodes :
            m < n /\ plan.scope[m] = plan.scope[n] /\ task[n] # "none" => status[m] # "none"

\* A suspended run always has a task that will wake it, and it never sits on
\* a ready node with room in in_flight unless a finished task is about to.
WorkConserving ==
    \A s \in Scopes : run[s] = "running" /\ scanning = Nobody =>
        /\ InFlightOf(s) # {}
        /\ \/ \E n \in InFlightOf(s) : Finished(n)
           \/ Cardinality(InFlightOf(s)) >= MaxConcurrent
           \/ \A n \in PendingOf(s) : ~Ready(n)

\* A result, once recorded, is never replaced: no node finishes twice, and
\* excluding a branch never overwrites a node that ran.
ResultsAreFinal ==
    [][\A n \in Nodes : status[n] # "none" => status'[n] = status[n]]_vars

\* The run ends, and so does every task it or a nested run ever created.
Termination == <>Quiescent

=============================================================================
