---------------------------- MODULE ExecutorProofs ----------------------------
(***************************************************************************)
(* Proofs about Executor, for every set of loadable plans and every value  *)
(* of max_concurrent_nodes.                                                *)
(*                                                                         *)
(* None of the safety properties is inductive by itself.  IInv adds what   *)
(* the code keeps true between its awaits: which nodes can have a task,    *)
(* which runs are live, and that a decision still undecided holds back     *)
(* everything in its branches.                                             *)
(***************************************************************************)
EXTENDS Executor, FiniteSetTheorems, TLAPS

\* A pending node has no task; a task under way has recorded nothing; what
\* ran is never also skipped.
TasksAndResults ==
    /\ \A n \in pending : task[n] = "none"
    /\ \A n \in Nodes :
          /\ task[n] \in {"created", "running", "raised"} => status[n] = "none"
          /\ task[n] = "done" => status[n] # "none"
          /\ task[n] # "none" => status[n] # "skipped"
          /\ status[n] \notin {"none", "skipped"} => task[n] # "none"

\* A nested run is live exactly while its SUBPLAN node's task is, and before
\* it begins its nodes are untouched.
RunsAndTasks ==
    /\ run[Root] # "idle"
    /\ scanning # Nobody => run[scanning] = "running"
    /\ \A n \in Nodes :
          /\ run[n] = "running" <=> task[n] = "running" /\ plan.type[n] = "subplan"
          /\ task[n] \in {"none", "created"} => run[n] = "idle"
          /\ run[plan.scope[n]] = "idle" => n \notin pending /\ task[n] = "none" /\ n \notin inFlight

\* A branch is taken by a settled decision, and its exclusions are recorded.
BranchesAndResults ==
    /\ \A d \in Nodes : branch[d] # "none" => plan.type[d] = "decision" /\ status[d] # "none"
    /\ \A n \in Nodes : Excluded(n) => status[n] = "skipped"
    /\ \A n \in Nodes : status[n] = "skipped" => Excluded(n) \/ OnlyUsesSkippedContent(n)
    /\ \A n \in Nodes : task[n] # "none" => ~OnlyUsesSkippedContent(n)

\* A live run still has every unsettled node of its list in hand.
NothingLost ==
    \A n \in Nodes : run[plan.scope[n]] = "running" =>
        /\ n \in plan.listed => n \in pending \cup inFlight \/ status[n] # "none"
        /\ task[n] \in {"created", "running", "raised"} => n \in inFlight

\* The inductive invariant.
IInv ==
    /\ TypeOK
    /\ DependencyOrder
    /\ TasksAndResults
    /\ RunsAndTasks
    /\ BranchesAndResults
    /\ NothingLost
    /\ CompleteMeansAll

-----------------------------------------------------------------------------
\* What a loadable plan gives the proofs: well-typed fields, and edges and
\* holders inside Nodes.
LEMMA PlanFacts ==
    ASSUME NEW p \in Plans
    PROVE  /\ p.type \in [Nodes -> NodeTypes]
           /\ p.scope \in [Nodes -> Scopes]
           /\ p.context_needed \in [Nodes -> SUBSET Nodes]
           /\ p.branches \in [Nodes -> [Branches -> SUBSET Nodes]]
           /\ p.listed \in SUBSET Nodes
           /\ \A n \in Nodes : p.scope[n] < n
           /\ \A n \in Nodes : p.scope[n] # Root => p.scope[n] \in Nodes /\ p.type[p.scope[n]] = "subplan"
  <1>1. Loadable(p)
    BY PlansAssumption
  <1>2. p \in PlanShape
    BY <1>1 DEF Loadable
  <1>3. p.scope \in [Nodes -> Scopes]
    BY <1>2 DEF PlanShape
  <1>4. QED
    BY <1>1, <1>2, <1>3 DEF Loadable, PlanShape, Scopes

\* Whatever the setting, at least one node may run.
LEMMA MaxConcurrentPositive ==
    ASSUME setting \in Settings
    PROVE  MaxConcurrent \in Nat /\ MaxConcurrent > 0
  BY SettingsAssumption DEF MaxConcurrent

\* No step of the executor breaks the type invariant.
LEMMA TypeStep == TypeOK /\ [Next]_vars => TypeOK'
  <1> SUFFICES ASSUME TypeOK, [Next]_vars
               PROVE  TypeOK'
    OBVIOUS
  <1> USE DEF TypeOK, RunStates, TaskStates, Statuses, Outcomes
  <1>0. Nodes \subseteq Nat /\ Nodes \subseteq Scopes /\ NumNodes + 1 \in Nat
    BY NumNodesAssumption DEF Nodes, Scopes
  <1>1. CASE ScanStep
    <2>1. ASSUME NEW n \in Nodes, DropSettled(n) \/ PassOver(n) \/ SkipNode(n)
                                  \/ BreakFull(n) \/ Dispatch(n)
          PROVE  TypeOK'
      <3>1. CASE DropSettled(n)
        BY <3>1, <1>0 DEF DropSettled
      <3>2. CASE PassOver(n)
        BY <3>2, <1>0 DEF PassOver
      <3>3. CASE SkipNode(n)
        BY <3>3, <1>0 DEF SkipNode
      <3>4. CASE BreakFull(n)
        BY <3>4, <1>0 DEF BreakFull
      <3>5. CASE Dispatch(n)
        BY <3>5, <1>0 DEF Dispatch
      <3> QED
        BY <2>1, <3>1, <3>2, <3>3, <3>4, <3>5
    <2>2. CASE Rescan
      BY <2>2 DEF Rescan
    <2>6. CASE Suspend
      BY <2>6 DEF Suspend
    <2>3. ASSUME NEW e \in RunStates, NEW st \in Statuses, scanning \in Scopes,
                 Leave(scanning, e, st)
          PROVE  TypeOK'
      BY <2>3 DEF Leave, Scopes
    <2>4. CASE Blocked
      BY <2>4, <2>3 DEF Blocked, ScanOver
    <2>5. CASE Complete
      BY <2>5, <2>3 DEF Complete, ScanOver
    <2> QED
      BY <1>1, <2>1, <2>2, <2>4, <2>5, <2>6 DEF ScanStep
  <1>2. CASE NodeStep
    <2> SUFFICES ASSUME NEW n \in Nodes,
                        \/ Start(n) \/ StartRaises(n) \/ StartSubplan(n)
                        \/ \E o \in Outcomes, u \in BOOLEAN : FinishNode(n, o, u)
                        \/ \E b \in Branches : FinishDecision(n, b)
                 PROVE  TypeOK'
      BY <1>2 DEF NodeStep
    <2>1. CASE Start(n)
      BY <2>1, <1>0 DEF Start, MayStart
    <2>2. CASE StartRaises(n)
      BY <2>2, <1>0 DEF StartRaises
    <2>3. CASE StartSubplan(n)
      BY <2>3, <1>0, PlanFacts DEF StartSubplan, Members
    <2>4. ASSUME NEW o \in Outcomes, NEW u \in BOOLEAN, FinishNode(n, o, u)
          PROVE  TypeOK'
      BY <2>4 DEF FinishNode, Returns
    <2>5. ASSUME NEW b \in Branches, FinishDecision(n, b)
          PROVE  TypeOK'
      BY <2>5 DEF FinishDecision, Returns, Exclude
    <2> QED
      BY <2>1, <2>2, <2>3, <2>4, <2>5
  <1>3. CASE RunStep
    <2> SUFFICES ASSUME NEW s \in Scopes, Wake(s) \/ WakeRaises(s)
                 PROVE  TypeOK'
      BY <1>3 DEF RunStep
    <2>1. CASE Wake(s)
      BY <2>1 DEF Wake
    <2>2. CASE WakeRaises(s)
      BY <2>2 DEF WakeRaises, Leave, Scopes
    <2> QED
      BY <2>1, <2>2
  <1>4. CASE Cancel
    BY <1>4 DEF Cancel, Scopes
  <1>5. CASE UNCHANGED vars
    BY <1>5 DEF vars
  <1> QED
    BY <1>1, <1>2, <1>3, <1>4, <1>5 DEF Next, Rest

\* The executor starts well-typed.
LEMMA TypeInit == Init => TypeOK
  <1> SUFFICES ASSUME Init PROVE TypeOK
    OBVIOUS
  <1>1. permits \in Nat /\ cursor \in Nat /\ dispatched \in BOOLEAN
    BY MaxConcurrentPositive DEF Init
  <1>2. pending \in SUBSET Nodes /\ scanning \in Scopes
    BY DEF Init, Members, Scopes
  <1> QED
    BY <1>1, <1>2 DEF Init, TypeOK, RunStates, TaskStates, Statuses

\* Every variable keeps its type: in particular the shared semaphore never
\* goes below zero and the scan never leaves the plans there are.
THEOREM TypeCorrect == Spec => []TypeOK
  BY TypeInit, TypeStep, PTL DEF Spec

-----------------------------------------------------------------------------
\* Nodes, plans and Nobody are told apart.
LEMMA Names ==
    /\ Root \in Scopes /\ Root \notin Nodes
    /\ Nobody \notin Scopes
    /\ \A n \in Nodes : n \in Scopes
    /\ \A s \in Scopes : s # Root => s \in Nodes
  BY NumNodesAssumption DEF Scopes, Root, Nobody, Nodes

\* What a decision excludes is what waits for it.
LEMMA UntakenGoverned ==
    ASSUME NEW p \in Plans, NEW d \in Nodes, p.type[d] = "decision", NEW b \in Branches,
           NEW n \in Untaken(p, d, b)
    PROVE  n \in Nodes /\ d \in Governors(p, n)
  BY PlanFacts DEF Untaken, Governors

\* Dependencies are nodes, and content dependencies are declared inputs.
LEMMA GovernorsAreNodes ==
    ASSUME NEW p \in Plans, NEW n \in Nodes
    PROVE  /\ Governors(p, n) \subseteq Nodes
           /\ Deps(p, n) = p.context_needed[n] \cup Governors(p, n)
           /\ Deps(p, n) \subseteq Nodes
           /\ ContentDeps(p, n) \subseteq p.context_needed[n]
           /\ ContentDeps(p, n) \subseteq Nodes
  BY PlanFacts DEF Governors, Deps, ContentDeps

\* IInv holds when _run is entered.
LEMMA IInvInit == Init => IInv
  <1> SUFFICES ASSUME Init PROVE IInv
    OBVIOUS
  <1>1. TypeOK
    BY TypeInit
  <1>2. TasksAndResults /\ DependencyOrder
    BY <1>1 DEF Init, TasksAndResults, DependencyOrder, TypeOK
  <1>3. RunsAndTasks
    BY <1>1, Names, PlanFacts DEF Init, RunsAndTasks, Members, TypeOK
  <1>4. BranchesAndResults
    BY DEF Init, BranchesAndResults, Excluded
  <1>5. NothingLost /\ CompleteMeansAll
    BY <1>1, Names, PlanFacts DEF Init, NothingLost, CompleteMeansAll, Members, TypeOK
  <1> QED
    BY <1>1, <1>2, <1>3, <1>4, <1>5 DEF IInv

\* Every step of the executor preserves IInv.  Passing over a node, breaking
\* out of the scan, rescanning and suspending move only the scan; the three
\* ways a run ends are one case, Leave.
LEMMA IInvStep == IInv /\ [Next]_vars => IInv'
  <1> SUFFICES ASSUME IInv, [Next]_vars
               PROVE  IInv'
    OBVIOUS
  <1>0. TypeOK'
    BY TypeStep DEF IInv
  <1>1. /\ TypeOK /\ DependencyOrder /\ TasksAndResults /\ RunsAndTasks
        /\ BranchesAndResults /\ NothingLost /\ CompleteMeansAll
    BY DEF IInv
  <1>p. /\ plan.type \in [Nodes -> NodeTypes] /\ plan.scope \in [Nodes -> Scopes]
        /\ plan.listed \subseteq Nodes
        /\ \A n \in Nodes : plan.scope[n] # n
        /\ \A n \in Nodes : plan.scope[n] # Root => plan.type[plan.scope[n]] = "subplan"
    <2>1. \A n \in Nodes : n \in Nat
      BY DEF Nodes
    <2> QED
      BY <1>1, <2>1, PlanFacts DEF TypeOK
  <1>g. /\ \A n \in Nodes : /\ Deps(plan, n) = plan.context_needed[n] \cup Governors(plan, n)
                           /\ Deps(plan, n) \subseteq Nodes
                           /\ ContentDeps(plan, n) \subseteq plan.context_needed[n]
        /\ \A d \in Nodes, b \in Branches : plan.type[d] = "decision" =>
              \A n \in Untaken(plan, d, b) : n \in Nodes /\ d \in Governors(plan, n)
    BY <1>1, GovernorsAreNodes, UntakenGoverned DEF TypeOK
  <1>2. ASSUME UNCHANGED <<plan, run, pending, inFlight, task, status, branch>>,
               scanning' \in {scanning, Nobody}
        PROVE  IInv'
    <2>1. DependencyOrder' /\ TasksAndResults' /\ RunsAndTasks'
      BY <1>1, <1>2 DEF DependencyOrder, TasksAndResults, RunsAndTasks
    <2>2. BranchesAndResults' /\ NothingLost' /\ CompleteMeansAll'
      BY <1>1, <1>2
      DEF BranchesAndResults, Excluded, OnlyUsesSkippedContent, NothingLost,
          CompleteMeansAll
    <2> QED
      BY <1>0, <2>1, <2>2 DEF IInv
  <1>3. ASSUME NEW n \in Nodes, DropSettled(n) PROVE IInv'
    <2>1. DependencyOrder' /\ BranchesAndResults' /\ CompleteMeansAll'
      BY <1>3, <1>1
      DEF DropSettled, DependencyOrder, BranchesAndResults, Excluded,
          OnlyUsesSkippedContent, CompleteMeansAll
    <2>2. TasksAndResults'
      BY <1>3, <1>1 DEF TasksAndResults, DropSettled
    <2>3. RunsAndTasks'
      BY <1>3, <1>1 DEF RunsAndTasks, DropSettled
    <2>4. NothingLost'
      BY <1>3, <1>1 DEF NothingLost, DropSettled
    <2> QED
      BY <1>0, <2>1, <2>2, <2>3, <2>4 DEF IInv
  <1>4. ASSUME NEW n \in Nodes, SkipNode(n) PROVE IInv'
    <2>1. DependencyOrder'
      BY <1>4, <1>1 DEF DependencyOrder, SkipNode
    <2>2. TasksAndResults'
      BY <1>4, <1>1 DEF TasksAndResults, SkipNode, Considers, PendingOf
    <2>3. RunsAndTasks'
      BY <1>4, <1>1 DEF RunsAndTasks, SkipNode
    <2>4. BranchesAndResults'
      BY <1>4, <1>1, <1>g
      DEF BranchesAndResults, Excluded, OnlyUsesSkippedContent, SkipNode, DependencyOrder
    <2>5. NothingLost'
      BY <1>4, <1>1 DEF NothingLost, SkipNode, TypeOK
    <2>6. CompleteMeansAll'
      BY <1>4, <1>1 DEF CompleteMeansAll, SkipNode
    <2> QED
      BY <1>0, <2>1, <2>2, <2>3, <2>4, <2>5, <2>6 DEF IInv
  <1>5. ASSUME NEW n \in Nodes, Dispatch(n) PROVE IInv'
    <2>1. DependencyOrder'
      BY <1>5, <1>1, <1>g DEF DependencyOrder, Dispatch, Ready, Settled
    <2>2. TasksAndResults'
      BY <1>5, <1>1 DEF TasksAndResults, Dispatch
    <2>3. RunsAndTasks'
      BY <1>5, <1>1 DEF RunsAndTasks, Dispatch, Considers, PendingOf, TasksAndResults
    <2>4. BranchesAndResults'
      BY <1>5, <1>1 DEF BranchesAndResults, Excluded, OnlyUsesSkippedContent, Dispatch
    <2>5. NothingLost'
      BY <1>5, <1>1 DEF NothingLost, Dispatch
    <2>6. CompleteMeansAll'
      BY <1>5, <1>1 DEF CompleteMeansAll, Dispatch
    <2> QED
      BY <1>0, <2>1, <2>2, <2>3, <2>4, <2>5, <2>6 DEF IInv
  <1>6. ASSUME NEW n \in Nodes, Start(n) PROVE IInv'
    <2>1. DependencyOrder'
      BY <1>6, <1>1 DEF DependencyOrder, Start, MayStart
    <2>2. TasksAndResults'
      BY <1>6, <1>1 DEF TasksAndResults, Start, MayStart
    <2>3. RunsAndTasks'
      BY <1>6, <1>1 DEF RunsAndTasks, Start, MayStart, NeedsPermit
    <2>4. BranchesAndResults'
      BY <1>6, <1>1
      DEF BranchesAndResults, Excluded, OnlyUsesSkippedContent, Start, MayStart
    <2>5. NothingLost'
      BY <1>6, <1>1 DEF NothingLost, Start, MayStart
    <2>6. CompleteMeansAll'
      BY <1>6, <1>1 DEF CompleteMeansAll, Start, MayStart
    <2> QED
      BY <1>0, <2>1, <2>2, <2>3, <2>4, <2>5, <2>6 DEF IInv
  <1>7. ASSUME NEW n \in Nodes, StartRaises(n) PROVE IInv'
    <2>1. DependencyOrder'
      BY <1>7, <1>1 DEF DependencyOrder, StartRaises, MayStart
    <2>2. TasksAndResults'
      BY <1>7, <1>1 DEF TasksAndResults, StartRaises, MayStart
    <2>3. RunsAndTasks'
      BY <1>7, <1>1 DEF RunsAndTasks, StartRaises, MayStart
    <2>4. BranchesAndResults'
      BY <1>7, <1>1
      DEF BranchesAndResults, Excluded, OnlyUsesSkippedContent, StartRaises, MayStart
    <2>5. NothingLost'
      BY <1>7, <1>1 DEF NothingLost, StartRaises, MayStart
    <2>6. CompleteMeansAll'
      BY <1>7, <1>1 DEF CompleteMeansAll, StartRaises, MayStart
    <2> QED
      BY <1>0, <2>1, <2>2, <2>3, <2>4, <2>5, <2>6 DEF IInv
  <1>8. ASSUME NEW n \in Nodes, StartSubplan(n) PROVE IInv'
    <2>1. DependencyOrder'
      BY <1>8, <1>1 DEF DependencyOrder, StartSubplan, MayStart
    <2>2. TasksAndResults'
      BY <1>8, <1>1 DEF TasksAndResults, StartSubplan, MayStart, Members, RunsAndTasks
    <2>3. RunsAndTasks'
      BY <1>8, <1>1, Names
      DEF RunsAndTasks, StartSubplan, MayStart, NeedsPermit, Members, TypeOK
    <2>4. BranchesAndResults'
      BY <1>8, <1>1
      DEF BranchesAndResults, Excluded, OnlyUsesSkippedContent, StartSubplan, MayStart
    <2>5. NothingLost'
      BY <1>8, <1>1 DEF NothingLost, StartSubplan, MayStart, Members, RunsAndTasks
    <2>6. CompleteMeansAll'
      BY <1>8, <1>1 DEF CompleteMeansAll, StartSubplan, MayStart
    <2> QED
      BY <1>0, <2>1, <2>2, <2>3, <2>4, <2>5, <2>6 DEF IInv
  <1>9. ASSUME NEW n \in Nodes, NEW o \in Outcomes, NEW u \in BOOLEAN, FinishNode(n, o, u)
        PROVE  IInv'
    <2>1. DependencyOrder'
      BY <1>9, <1>1 DEF DependencyOrder, FinishNode, Returns, TasksAndResults
    <2>2. TasksAndResults'
      BY <1>9, <1>1 DEF TasksAndResults, FinishNode, Returns, Outcomes, TypeOK
    <2>3. RunsAndTasks'
      BY <1>9, <1>1 DEF RunsAndTasks, FinishNode, Returns, NeedsPermit
    <2>4. BranchesAndResults'
      BY <1>9, <1>1
      DEF BranchesAndResults, Excluded, OnlyUsesSkippedContent, FinishNode, Returns,
          Outcomes, TasksAndResults
    <2>5. NothingLost'
      BY <1>9, <1>1 DEF NothingLost, FinishNode, Returns
    <2>6. CompleteMeansAll'
      BY <1>9, <1>1 DEF CompleteMeansAll, FinishNode, Returns
    <2> QED
      BY <1>0, <2>1, <2>2, <2>3, <2>4, <2>5, <2>6 DEF IInv
  <1>10. ASSUME NEW d \in Nodes, NEW b \in Branches, FinishDecision(d, b) PROVE IInv'
    <2>1. DependencyOrder'
      BY <1>10, <1>1, <1>g DEF DependencyOrder, FinishDecision, Returns, Exclude
    <2>2. TasksAndResults'
      BY <1>10, <1>1, <1>g
      DEF TasksAndResults, FinishDecision, Returns, Exclude, DependencyOrder, TypeOK
    <2>3. RunsAndTasks'
      BY <1>10, <1>1 DEF RunsAndTasks, FinishDecision, Returns
    <2>4. BranchesAndResults'
      <3>1. /\ status[d] = "none" /\ branch[d] = "none" /\ task[d] = "running"
            /\ plan.type[d] = "decision" /\ plan' = plan
            /\ branch' = [branch EXCEPT ![d] = b] /\ status' = Exclude(d, b)
            /\ task' = [task EXCEPT ![d] = "done"]
        BY <1>10, <1>1 DEF FinishDecision, Returns, TasksAndResults, BranchesAndResults
      <3>2. \A n \in Untaken(plan, d, b) :
               n \in Nodes /\ n # d /\ status[n] \in {"none", "skipped"} /\ task[n] = "none"
        BY <3>1, <1>1, <1>g DEF DependencyOrder, TasksAndResults
      <3>3. \A n \in Nodes : /\ status[n] # "none" => status'[n] = status[n]
                             /\ n \in Untaken(plan, d, b) => status'[n] = "skipped"
                             /\ n # d /\ n \notin Untaken(plan, d, b) => status'[n] = status[n]
                             /\ status'[d] = "completed"
        BY <3>1, <3>2 DEF Exclude
      <3>4. \A n \in Nodes : Excluded(n)' <=> Excluded(n) \/ n \in Untaken(plan, d, b)
        BY <3>1, <1>1 DEF Excluded, TypeOK, Branches
      <3>5. \A n \in Nodes : OnlyUsesSkippedContent(n) => OnlyUsesSkippedContent(n)'
        BY <3>1, <3>3, <1>g DEF OnlyUsesSkippedContent
      <3>6. \A n \in Nodes : task[n] # "none" /\ OnlyUsesSkippedContent(n)' => OnlyUsesSkippedContent(n)
        BY <3>1, <3>3, <1>1, <1>g DEF OnlyUsesSkippedContent, DependencyOrder
      <3>7. \A n \in Nodes : branch'[n] # "none" => plan'.type[n] = "decision" /\ status'[n] # "none"
        BY <3>1, <3>3, <1>1 DEF BranchesAndResults
      <3>8. \A n \in Nodes : Excluded(n)' => status'[n] = "skipped"
        BY <3>3, <3>4, <1>1 DEF BranchesAndResults
      <3>9. \A n \in Nodes : status'[n] = "skipped" => Excluded(n)' \/ OnlyUsesSkippedContent(n)'
        BY <3>3, <3>4, <3>5, <1>1 DEF BranchesAndResults
      <3>10. \A n \in Nodes : task'[n] # "none" => ~OnlyUsesSkippedContent(n)'
        BY <3>1, <3>6, <1>1 DEF BranchesAndResults
      <3> QED
        BY <3>7, <3>8, <3>9, <3>10 DEF BranchesAndResults
    <2>5. NothingLost'
      BY <1>10, <1>1 DEF NothingLost, FinishDecision, Returns, Exclude
    <2>6. CompleteMeansAll'
      BY <1>10, <1>1, <1>p DEF CompleteMeansAll, FinishDecision, Returns, Exclude
    <2> QED
      BY <1>0, <2>1, <2>2, <2>3, <2>4, <2>5, <2>6 DEF IInv
  <1>11. ASSUME NEW s \in Scopes, Wake(s) PROVE IInv'
    <2>1. DependencyOrder' /\ TasksAndResults' /\ BranchesAndResults' /\ CompleteMeansAll'
      BY <1>11, <1>1
      DEF Wake, DependencyOrder, TasksAndResults, BranchesAndResults, Excluded,
          OnlyUsesSkippedContent, CompleteMeansAll
    <2>2. RunsAndTasks'
      BY <1>11, <1>1 DEF RunsAndTasks, Wake, Woken
    <2>3. NothingLost'
      BY <1>11, <1>1 DEF NothingLost, Wake, InFlightOf, Finished, TasksAndResults
    <2> QED
      BY <1>0, <2>1, <2>2, <2>3 DEF IInv
  <1>12. CASE Cancel
    <2>1. DependencyOrder' /\ TasksAndResults' /\ BranchesAndResults'
      BY <1>12, <1>1
      DEF Cancel, DependencyOrder, TasksAndResults, BranchesAndResults, Excluded,
          OnlyUsesSkippedContent
    <2>2. RunsAndTasks'
      BY <1>12, <1>1, Names DEF RunsAndTasks, Cancel
    <2>3. NothingLost'
      BY <1>12, <1>1 DEF NothingLost, Cancel
    <2>4. CompleteMeansAll'
      BY <1>12, <1>1 DEF CompleteMeansAll, Cancel
    <2> QED
      BY <1>0, <2>1, <2>2, <2>3, <2>4 DEF IInv
  <1>13. ASSUME NEW s \in Scopes, NEW e \in RunStates \ {"idle", "running"}, NEW st \in Outcomes,
               run[s] = "running", scanning \in {s, Nobody}, Leave(s, e, st),
               e = "completed" => PendingOf(s) \cup InFlightOf(s) = {}
        PROVE  IInv'
    <2>1. DependencyOrder'
      BY <1>13, <1>1 DEF DependencyOrder, Leave, RunsAndTasks, Outcomes
    <2>2. TasksAndResults'
      BY <1>13, <1>1 DEF TasksAndResults, Leave, RunsAndTasks, Outcomes, TypeOK
    <2>3. RunsAndTasks'
      BY <1>13, <1>1, Names DEF RunsAndTasks, Leave, TypeOK
    <2>4. BranchesAndResults'
      BY <1>13, <1>1
      DEF BranchesAndResults, Excluded, OnlyUsesSkippedContent, Leave, TasksAndResults,
          RunsAndTasks, Outcomes, TypeOK
    <2>5. NothingLost'
      BY <1>13, <1>1 DEF NothingLost, Leave, Outcomes
    <2>6. CompleteMeansAll'
      <3> SUFFICES ASSUME NEW n \in plan.listed, run'[plan.scope[n]] = "completed"
                   PROVE  status'[n] # "none" /\ task'[n] \in {"none", "done"}
        BY <1>13 DEF CompleteMeansAll, Leave
      <3>1. n \in Nodes /\ plan.scope[n] \in Scopes /\ plan.scope[n] # n
        BY <1>p
      <3>2. CASE n = s
        BY <3>1, <3>2, <1>13, <1>1, Names DEF Leave, Outcomes, TypeOK
      <3>3. CASE n # s /\ plan.scope[n] = s
        <4>1. n \notin pending /\ n \notin inFlight
          BY <3>3, <1>13, <1>1 DEF Leave, TypeOK, PendingOf, InFlightOf, Members
        <4>2. status[n] # "none" /\ task[n] \in {"none", "done"}
          BY <4>1, <3>1, <3>3, <1>13, <1>1 DEF NothingLost, TypeOK, TaskStates
        <4> QED
          BY <4>2, <3>3, <1>13 DEF Leave
      <3>4. CASE n # s /\ plan.scope[n] # s
        BY <3>4, <1>13, <1>1 DEF Leave, CompleteMeansAll
      <3> QED
        BY <3>2, <3>3, <3>4
    <2> QED
      BY <1>0, <2>1, <2>2, <2>3, <2>4, <2>5, <2>6 DEF IInv
  <1>14. CASE ScanStep
    <2>1. CASE \E n \in Nodes : PassOver(n) \/ BreakFull(n)
      BY <2>1, <1>2 DEF PassOver, BreakFull
    <2>2. CASE Rescan \/ Suspend
      BY <2>2, <1>2 DEF Rescan, Suspend
    <2>3. CASE Blocked \/ Complete
      <3>1. scanning \in Scopes /\ run[scanning] = "running"
        BY <2>3, <1>1 DEF Blocked, Complete, ScanOver, RunsAndTasks, TypeOK
      <3> QED
        BY <3>1, <2>3, <1>13 DEF Blocked, Complete, RunStates, Outcomes
    <2> QED
      BY <1>14, <1>3, <1>4, <1>5, <2>1, <2>2, <2>3 DEF ScanStep
  <1>15. CASE RunStep
    BY <1>15, <1>11, <1>13 DEF RunStep, WakeRaises, Woken, RunStates, Outcomes
  <1>16. CASE UNCHANGED vars
    BY <1>16, <1>2 DEF vars
  <1> QED
    BY <1>6, <1>7, <1>8, <1>9, <1>10, <1>12, <1>14, <1>15, <1>16 DEF Next, NodeStep, Rest

-----------------------------------------------------------------------------
(* What follows from IInv. *)

\* IInv holds throughout every execution.
THEOREM Inductive == Spec => []IInv
  BY IInvInit, IInvStep, PTL DEF Spec

\* No node is ever handed to a task before everything it depends on has a
\* result.
THEOREM DependencyOrderHolds == Spec => []DependencyOrder
  <1>1. IInv => DependencyOrder
    BY DEF IInv
  <1> QED
    BY <1>1, Inductive, PTL

\* A run that completes has settled every node it lists and left no task.
THEOREM CompleteMeansAllHolds == Spec => []CompleteMeansAll
  <1>1. IInv => CompleteMeansAll
    BY DEF IInv
  <1> QED
    BY <1>1, Inductive, PTL

\* PlanSemantics and Executor read the plan alike.
LEMMA SameReading ==
    /\ Semantics!Nodes = Nodes /\ Semantics!Root = Root /\ Semantics!Branches = Branches
    /\ \A n \in Nodes : /\ Semantics!Deps(plan, n) = Deps(plan, n)
                         /\ Semantics!Members(plan, n) = Members(plan, n)
                         /\ Semantics!InputsSkipped(n) = OnlyUsesSkippedContent(n)
    /\ \A d \in Nodes, b \in Branches : Semantics!Untaken(plan, d, b) = Untaken(plan, d, b)
  <1>1. Semantics!Nodes = Nodes /\ Semantics!Root = Root /\ Semantics!Branches = Branches
    BY DEF Semantics!Nodes, Nodes, Semantics!Root, Root, Semantics!Branches, Branches
  <1>2. ASSUME NEW n \in Nodes PROVE Semantics!Deps(plan, n) = Deps(plan, n)
    BY <1>1 DEF Semantics!Deps, Deps, Semantics!Governors, Governors
  <1>3. ASSUME NEW n \in Nodes PROVE Semantics!Members(plan, n) = Members(plan, n)
    BY <1>1 DEF Semantics!Members, Members
  <1>4. ASSUME NEW n \in Nodes PROVE Semantics!InputsSkipped(n) = OnlyUsesSkippedContent(n)
    BY DEF Semantics!InputsSkipped, Semantics!ContentDeps, ContentDeps, OnlyUsesSkippedContent
  <1>5. ASSUME NEW d \in Nodes, NEW b \in Branches
        PROVE  Semantics!Untaken(plan, d, b) = Untaken(plan, d, b)
    BY <1>1 DEF Semantics!Untaken, Untaken
  <1> QED
    BY <1>1, <1>2, <1>3, <1>4, <1>5

\* Whatever the plan and the interleaving, exactly the nodes the plan and the
\* outcomes determine are skipped (_record_branch_decision,
\* _only_uses_skipped_content); the targets of decisions that are skipped
\* themselves are the subject of the run exec_untaken.
THEOREM SkipExactHolds == Spec => []SkipExact
  <1>1. ASSUME IInv PROVE SkipExact
    <2> SUFFICES ASSUME NEW n \in Nodes, status[n] # "none"
                 PROVE  status[n] = "skipped" <=> Excluded(n) \/ OnlyUsesSkippedContent(n)
      BY SameReading DEF SkipExact, Settled
    <2>1. status[n] = "skipped" => Excluded(n) \/ OnlyUsesSkippedContent(n)
      BY <1>1 DEF IInv, BranchesAndResults
    <2>2. Excluded(n) => status[n] = "skipped"
      BY <1>1 DEF IInv, BranchesAndResults
    <2>3. OnlyUsesSkippedContent(n) => status[n] = "skipped"
      BY <1>1 DEF IInv, BranchesAndResults, TasksAndResults
    <2> QED
      BY <2>1, <2>2, <2>3
  <1> QED
    BY <1>1, Inductive, PTL

\* A step records a result only for a node that has none.
LEMMA FinalStep ==
    ASSUME IInv, [Next]_vars, NEW n \in Nodes, status[n] # "none"
    PROVE  status'[n] = status[n]
  <1>1. TypeOK /\ TasksAndResults /\ RunsAndTasks /\ DependencyOrder
    BY DEF IInv
  <1>2. ASSUME NEW s \in Scopes, NEW e, NEW st, run[s] = "running", Leave(s, e, st)
        PROVE  status'[n] = status[n]
    <2>1. s # Root => s \in Nodes /\ status[s] = "none"
      BY <1>1, <1>2, Names DEF RunsAndTasks, TasksAndResults
    <2> QED
      BY <2>1, <1>1, <1>2 DEF Leave, TypeOK
  <1>3. CASE ScanStep
    <2>1. ASSUME NEW m \in Nodes,
                 DropSettled(m) \/ PassOver(m) \/ SkipNode(m) \/ BreakFull(m) \/ Dispatch(m)
          PROVE  status'[n] = status[n]
      BY <2>1, <1>1 DEF DropSettled, PassOver, SkipNode, BreakFull, Dispatch, TypeOK
    <2>2. CASE Blocked \/ Complete
      <3>1. scanning \in Scopes /\ run[scanning] = "running"
        BY <2>2, <1>1 DEF Blocked, Complete, ScanOver, RunsAndTasks, TypeOK
      <3> QED
        BY <3>1, <2>2, <1>2 DEF Blocked, Complete
    <2> QED
      BY <1>3, <2>1, <2>2 DEF ScanStep, Rescan, Suspend
  <1>4. CASE NodeStep
    <2>1. ASSUME NEW m \in Nodes, Start(m) \/ StartRaises(m) \/ StartSubplan(m)
          PROVE  status'[n] = status[n]
      BY <2>1 DEF Start, StartRaises, StartSubplan
    <2>2. ASSUME NEW m \in Nodes, NEW o \in Outcomes, NEW u \in BOOLEAN, FinishNode(m, o, u)
          PROVE  status'[n] = status[n]
      BY <2>2, <1>1 DEF FinishNode, Returns, TasksAndResults, TypeOK
    <2>3. ASSUME NEW d \in Nodes, NEW b \in Branches, FinishDecision(d, b)
          PROVE  status'[n] = status[n]
      BY <2>3, <1>1 DEF FinishDecision, Returns, Exclude, TasksAndResults
    <2> QED
      BY <1>4, <2>1, <2>2, <2>3 DEF NodeStep
  <1>5. CASE RunStep
    BY <1>5, <1>2 DEF RunStep, Wake, WakeRaises, Woken
  <1> QED
    BY <1>3, <1>4, <1>5 DEF Next, Cancel, Rest, vars

\* A result is never replaced, whatever runs concurrently.
THEOREM ResultsAreFinalHolds == Spec => ResultsAreFinal
  <1>1. ASSUME IInv, [Next]_vars
        PROVE  [\A n \in Nodes : status[n] # "none" => status'[n] = status[n]]_vars
    BY <1>1, FinalStep
  <1> QED
    BY <1>1, Inductive, PTL DEF Spec, ResultsAreFinal

-----------------------------------------------------------------------------
(***************************************************************************)
(* The executor implements PlanSemantics: its steps on results and         *)
(* branches are those the meaning of the plan allows.                      *)
(***************************************************************************)

\* A live node of a nested plan: the SUBPLAN node holding it is running, so it
\* has its dependencies and was not skipped.
LEMMA HolderRuns ==
    ASSUME IInv, NEW n \in Nodes, plan.scope[n] # Root, run[plan.scope[n]] # "idle"
    PROVE  /\ plan.scope[n] \in Nodes
           /\ Deps(plan, plan.scope[n]) \subseteq Settled
           /\ status[plan.scope[n]] # "skipped"
  <1>1. plan.scope[n] \in Nodes
    BY PlanFacts DEF IInv, TypeOK
  <1>2. task[plan.scope[n]] # "none"
    BY <1>1 DEF IInv, RunsAndTasks
  <1>3. Deps(plan, plan.scope[n]) \subseteq Settled
    BY <1>1, <1>2, GovernorsAreNodes DEF IInv, TypeOK, DependencyOrder, Settled
  <1> QED
    BY <1>1, <1>2, <1>3 DEF IInv, TasksAndResults

\* What may settle now in the executor may settle in PlanSemantics.
LEMMA EnabledInSemantics ==
    ASSUME IInv, NEW n \in Nodes, status[n] = "none", Deps(plan, n) \subseteq Settled,
           run[plan.scope[n]] # "idle"
    PROVE  Semantics!Enabled(n)
  <1>1. Semantics!DepsSettled(n)
    BY SameReading DEF Semantics!DepsSettled, Semantics!IsSettled, Settled
  <1>2. plan.scope[n] # Root =>
           Semantics!DepsSettled(plan.scope[n]) /\ status[plan.scope[n]] # "skipped"
    BY SameReading, HolderRuns DEF Semantics!DepsSettled, Semantics!IsSettled, Settled
  <1> QED
    BY <1>1, <1>2, SameReading DEF Semantics!Enabled, Semantics!IsSettled

\* A task that runs may settle its node.
LEMMA RunningEnabled ==
    ASSUME IInv, NEW n \in Nodes, task[n] = "running"
    PROVE  Semantics!Enabled(n) /\ ~Semantics!InputsSkipped(n)
  <1>1. TypeOK /\ plan.scope[n] \in Scopes
    BY PlanFacts DEF IInv, TypeOK
  <1>2. status[n] = "none" /\ run[plan.scope[n]] # "idle" /\ ~OnlyUsesSkippedContent(n)
    BY DEF IInv, TasksAndResults, RunsAndTasks, BranchesAndResults
  <1>3. Deps(plan, n) \subseteq Settled
    BY <1>1, GovernorsAreNodes DEF IInv, DependencyOrder, Settled, TypeOK
  <1> QED
    BY <1>2, <1>3, EnabledInSemantics, SameReading

\* Every step of the executor is a step of PlanSemantics or settles nothing.
LEMMA SemStep == IInv /\ [Next]_vars => [Semantics!SemNext]_(Semantics!semVars)
  <1> SUFFICES ASSUME IInv, [Next]_vars
               PROVE  Semantics!SemNext \/ UNCHANGED <<plan, status, branch>>
    BY DEF Semantics!semVars
  <1>0. TypeOK /\ TasksAndResults /\ RunsAndTasks
    BY DEF IInv
  <1>1. ASSUME NEW n \in Nodes, SkipNode(n) PROVE Semantics!SemNext
    <2>1. run[plan.scope[n]] # "idle"
      <3>1. plan.scope[n] = scanning /\ scanning \in Scopes
        BY <1>0, <1>1, Names, PlanFacts DEF SkipNode, Considers, PendingOf, Members, TypeOK
      <3> QED
        BY <3>1, <1>0, Names DEF RunsAndTasks
    <2>2. Semantics!Enabled(n) /\ Semantics!InputsSkipped(n)
      BY <2>1, <1>1, EnabledInSemantics, SameReading DEF SkipNode, Ready
    <2>3. Semantics!Skip(n)
      BY <2>2, <1>1 DEF SkipNode, Semantics!Skip
    <2> QED
      BY <2>3, SameReading DEF Semantics!SemNext
  <1>2. ASSUME NEW n \in Nodes, NEW o \in Outcomes, task[n] = "running",
               plan.type[n] # "decision",
               plan.type[n] = "subplan" /\ o # "failed" =>
                  \A m \in Members(plan, n) \cap plan.listed : status[m] # "none",
               status' = [status EXCEPT ![n] = o], UNCHANGED <<plan, branch>>
        PROVE  Semantics!SemNext
    <2>1. Semantics!Settle(n, o)
      BY <1>2, RunningEnabled, SameReading DEF Semantics!Settle, Semantics!IsSettled
    <2> QED
      BY <2>1, SameReading DEF Semantics!SemNext, Outcomes
  <1>3. ASSUME NEW n \in Nodes, NEW o \in Outcomes, NEW u \in BOOLEAN, FinishNode(n, o, u)
        PROVE  Semantics!SemNext
    BY <1>2, <1>3 DEF FinishNode, Returns, NeedsPermit
  <1>4. ASSUME NEW d \in Nodes, NEW b \in Branches, FinishDecision(d, b)
        PROVE  Semantics!SemNext
    <2>1. task[d] = "running" /\ plan.type[d] = "decision" /\ status[d] = "none"
      BY <1>0, <1>4 DEF FinishDecision, Returns, TasksAndResults
    <2>2. \A n \in Untaken(plan, d, b) : status[n] \in {"none", "skipped"}
      BY <2>1, <1>0, UntakenGoverned DEF IInv, TypeOK, DependencyOrder, TasksAndResults
    <2>3. status' = [n \in Nodes |->
                       IF n = d THEN "completed"
                       ELSE IF n \in Untaken(plan, d, b) THEN "skipped" ELSE status[n]]
      BY <2>2, <1>4 DEF FinishDecision, Exclude
    <2>4. Semantics!Decide(d, b)
      BY <2>1, <2>3, <1>4, RunningEnabled, SameReading
      DEF FinishDecision, Returns, Semantics!Decide
    <2> QED
      BY <2>4, SameReading DEF Semantics!SemNext
  <1>5. ASSUME NEW s \in Scopes, NEW e, NEW st \in Outcomes, run[s] = "running", Leave(s, e, st),
               st # "failed" => PendingOf(s) \cup InFlightOf(s) = {}
        PROVE  Semantics!SemNext \/ UNCHANGED <<plan, status, branch>>
    <2>1. CASE s = Root
      BY <2>1, <1>5 DEF Leave
    <2>2. CASE s # Root
      <3>1. s \in Nodes /\ task[s] = "running" /\ plan.type[s] = "subplan"
        BY <2>2, <1>0, <1>5, Names DEF RunsAndTasks
      <3>2. st # "failed" => \A m \in Members(plan, s) \cap plan.listed : status[m] # "none"
        BY <1>5 DEF IInv, NothingLost, Members, PendingOf, InFlightOf
      <3> QED
        BY <3>1, <3>2, <2>2, <1>2, <1>5 DEF Leave
    <2> QED
      BY <2>1, <2>2
  <1>6. CASE Blocked \/ Complete
    <2>1. scanning \in Scopes /\ run[scanning] = "running"
      BY <1>6, <1>0 DEF Blocked, Complete, ScanOver, RunsAndTasks, TypeOK
    <2> QED
      BY <2>1, <1>5, <1>6 DEF Blocked, Complete, Outcomes
  <1>7. CASE ScanStep
    BY <1>1, <1>6, <1>7
    DEF ScanStep, DropSettled, PassOver, BreakFull, Dispatch, Rescan, Suspend
  <1>8. CASE NodeStep
    BY <1>3, <1>4, <1>8 DEF NodeStep, Start, StartRaises, StartSubplan
  <1>9. CASE RunStep
    BY <1>5, <1>9 DEF RunStep, Wake, WakeRaises, Woken, Outcomes
  <1> QED
    BY <1>7, <1>8, <1>9 DEF Next, Cancel, Rest, vars

\* The scheduler, for every plan and every bound, implements the meaning of
\* the plan: it only ever settles nodes as PlanSemantics allows.
THEOREM Refinement == Spec => Refines
  <1>1. Init => Semantics!SemInit
    BY SameReading DEF Init, Semantics!SemInit
  <1> QED
    BY <1>1, SemStep, Inductive, PTL DEF Spec, Refines, Semantics!SemSpec
=============================================================================
