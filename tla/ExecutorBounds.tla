-------------------------- MODULE ExecutorBounds ---------------------------
(***************************************************************************)
(* The bounds of the scheduler and the progress of its scan, proved for    *)
(* every plan and setting: the semaphore that all nesting levels share     *)
(* limits the calls under way, the scan of a validated plan never finds    *)
(* itself with nothing to do, a setting of one makes it sequential, and a  *)
(* run that waits has room for none of its ready nodes.                    *)
(***************************************************************************)
EXTENDS ExecutorProofs, WellFoundedInduction

\* The plan a task runs and the settings never change.
LEMMA SamePlan == ASSUME [Next]_vars PROVE plan' = plan /\ setting' = setting
  BY DEF Next, ScanStep, NodeStep, RunStep, DropSettled, PassOver, SkipNode, BreakFull, Dispatch,
         Rescan, Suspend, Blocked, Complete, Leave, Start, StartRaises, StartSubplan, FinishNode,
         FinishDecision, Returns, Wake, WakeRaises, Cancel, Rest, vars

LEMMA SameLimit == ASSUME [Next]_vars PROVE MaxConcurrent' = MaxConcurrent
  BY SamePlan DEF MaxConcurrent

-----------------------------------------------------------------------------
(* The semaphore. *)

\* Nodes in a tool or model call.
InCall == {n \in Nodes : task[n] = "running" /\ NeedsPermit(n)}

\* Permits are conserved: those not in the semaphore are with running calls.
PermitsConserved == permits + Cardinality(InCall) = MaxConcurrent

\* The set of calls is finite, so it can be counted.
LEMMA InCallFinite == IsFiniteSet(InCall)
  <1>1. IsFiniteSet(Nodes)
    BY NumNodesAssumption, FS_Interval DEF Nodes
  <1> QED
    BY <1>1, FS_Subset DEF InCall

\* Starting a call takes a permit, and only its return gives one back.
LEMMA PermitStep == IInv /\ PermitsConserved /\ [Next]_vars => PermitsConserved'
  <1> SUFFICES ASSUME IInv, PermitsConserved, [Next]_vars
               PROVE  PermitsConserved'
    OBVIOUS
  <1> TypeOK /\ TasksAndResults /\ RunsAndTasks
    BY DEF IInv
  <1>0. permits \in Nat /\ Cardinality(InCall) \in Nat /\ MaxConcurrent \in Nat /\ MaxConcurrent' = MaxConcurrent
    BY InCallFinite, FS_CardinalityType, MaxConcurrentPositive, SameLimit DEF TypeOK
  <1>1. ASSUME UNCHANGED <<permits, InCall>> PROVE PermitsConserved'
    BY <1>0, <1>1 DEF PermitsConserved
  <1>2. ASSUME NEW n \in Nodes, Start(n) PROVE PermitsConserved'
    <2>1. InCall' = InCall \cup {n} /\ n \notin InCall
      BY <1>2 DEF InCall, Start, MayStart, NeedsPermit, TypeOK
    <2>2. Cardinality(InCall') = Cardinality(InCall) + 1
      BY <2>1, InCallFinite, FS_AddElement
    <2> QED
      BY <2>2, <1>0, <1>2 DEF PermitsConserved, Start
  <1>3. ASSUME NEW n \in Nodes, Returns(n) PROVE PermitsConserved'
    <2>1. InCall' = InCall \ {n} /\ n \in InCall
      BY <1>3 DEF InCall, Returns, NeedsPermit, TypeOK
    <2>2. Cardinality(InCall') = Cardinality(InCall) - 1
      BY <2>1, InCallFinite, FS_RemoveElement
    <2> QED
      BY <2>2, <1>0, <1>3 DEF PermitsConserved, Returns
  <1>4. ASSUME NEW n \in Nodes, StartRaises(n) \/ StartSubplan(n) PROVE PermitsConserved'
    <2>1. InCall' = InCall
      BY <1>4 DEF InCall, StartRaises, StartSubplan, MayStart, NeedsPermit, TypeOK
    <2> QED
      BY <2>1, <1>1, <1>4 DEF StartRaises, StartSubplan
  <1>5. ASSUME NEW n \in Nodes, Dispatch(n) PROVE PermitsConserved'
    <2>1. task[n] = "none"
      BY <1>5 DEF Dispatch, Considers, PendingOf, TasksAndResults
    <2>2. InCall' = InCall
      BY <2>1, <1>5 DEF InCall, Dispatch, NeedsPermit, TypeOK
    <2> QED
      BY <2>2, <1>1, <1>5 DEF Dispatch
  <1>6. ASSUME NEW s \in Scopes, NEW e, NEW st, run[s] = "running", Leave(s, e, st)
        PROVE  PermitsConserved'
    <2>1. s # Root => s \in Nodes /\ plan.type[s] = "subplan"
      BY <1>6, Names DEF RunsAndTasks
    <2>2. InCall' = InCall
      BY <2>1, <1>6 DEF InCall, Leave, NeedsPermit, TypeOK
    <2> QED
      BY <2>2, <1>1, <1>6 DEF Leave
  <1>7. CASE Blocked \/ Complete
    <2>1. scanning \in Scopes /\ run[scanning] = "running"
      BY <1>7 DEF Blocked, Complete, ScanOver, RunsAndTasks, TypeOK
    <2> QED
      BY <2>1, <1>7, <1>6 DEF Blocked, Complete
  <1>8. ASSUME UNCHANGED <<plan, task, permits>> PROVE PermitsConserved'
    BY <1>1, <1>8 DEF InCall, NeedsPermit
  <1>9. CASE ScanStep
    BY <1>9, <1>5, <1>7, <1>8
    DEF ScanStep, DropSettled, PassOver, SkipNode, BreakFull, Rescan, Suspend
  <1>10. CASE NodeStep
    BY <1>10, <1>2, <1>3, <1>4 DEF NodeStep, FinishNode, FinishDecision
  <1>11. CASE RunStep
    BY <1>11, <1>6, <1>8 DEF RunStep, Wake, WakeRaises, Woken
  <1> QED
    BY <1>8, <1>9, <1>10, <1>11 DEF Next, Cancel, Rest, vars

\* At no time are more than max_concurrent_nodes tool and model calls under
\* way, over all nesting levels and the tasks of dead runs.
THEOREM ConcurrencyBoundHolds == Spec => []ConcurrencyBound
  <1>1. Init => PermitsConserved
    <2> SUFFICES ASSUME Init PROVE PermitsConserved
      OBVIOUS
    <2>1. InCall = {}
      BY DEF Init, InCall
    <2> QED
      BY <2>1, FS_EmptySet, MaxConcurrentPositive DEF Init, PermitsConserved
  <1>2. TypeOK /\ PermitsConserved => ConcurrencyBound
    BY InCallFinite, FS_CardinalityType, MaxConcurrentPositive
    DEF TypeOK, PermitsConserved, ConcurrencyBound, InCall
  <1>3. IInv => TypeOK
    BY DEF IInv
  <1> QED
    BY <1>1, <1>2, <1>3, PermitStep, Inductive, PTL DEF Spec

-----------------------------------------------------------------------------
(* The scan. *)

\* The least of some nodes.
LEMMA LeastNode ==
    ASSUME NEW S \in SUBSET Nodes, S # {}
    PROVE  \E n \in S : \A m \in S : n <= m
  <1>1. S \subseteq Nat
    BY NumNodesAssumption DEF Nodes
  <1> DEFINE R == {p \in Nat \X Nat : p[1] < p[2]}
  <1>2. IsWellFoundedOn(R, Nat)
    BY NatLessThanWellFounded DEF OpToRel
  <1> HIDE DEF R
  <1>3. \E n \in S : \A m \in S : ~ (<<m, n>> \in R)
    BY <1>1, <1>2, WFMin
  <1>4. \A m, n \in Nat : ~ (<<m, n>> \in R) => n <= m
    BY DEF R
  <1> QED
    BY <1>1, <1>3, <1>4

\* While a scan has dispatched nothing and has room, every pending node it has
\* gone past is waiting for a result.
ScanWaits ==
    scanning # Nobody /\ ~dispatched /\ Cardinality(InFlightOf(scanning)) < MaxConcurrent =>
        \A n \in PendingOf(scanning) : n < cursor => status[n] = "none" /\ ~Ready(n)

\* While no task of a validated plan is in flight, its scan leaves no pending
\* node behind: the first one has all it depends on.
NoneBehind ==
    scanning # Nobody /\ Validated(plan) /\ InFlightOf(scanning) = {} =>
        \A n \in PendingOf(scanning) : cursor <= n

\* What WorkConserving says of a run holds while another run scans, too.
Waiting(s) ==
    /\ InFlightOf(s) # {}
    /\ \/ \E n \in InFlightOf(s) : Finished(n)
       \/ Cardinality(InFlightOf(s)) >= MaxConcurrent
       \/ \A n \in PendingOf(s) : ~Ready(n)

RunsWait == \A s \in Scopes : run[s] = "running" /\ s # scanning => Waiting(s)

\* A scan that is over has gone past every pending node.
LEMMA ScanOverPassed ==
    ASSUME TypeOK, ScanOver
    PROVE  \A n \in PendingOf(scanning) : n < cursor
  <1> SUFFICES ASSUME NEW n \in PendingOf(scanning), cursor <= n
               PROVE  FALSE
    <2>1. cursor \in Nat /\ \A n \in PendingOf(scanning) : n \in Nat
      BY NumNodesAssumption DEF TypeOK, PendingOf, Nodes
    <2> QED
      BY <2>1
  <1> DEFINE S == {m \in PendingOf(scanning) : cursor <= m}
  <1>1. S \subseteq Nodes /\ S # {}
    BY DEF PendingOf, TypeOK
  <1>2. PICK l \in S : \A m \in S : l <= m
    BY <1>1, LeastNode
  <1>3. Considers(l)
    BY <1>2 DEF Considers
  <1> QED
    BY <1>1, <1>3 DEF ScanOver

\* The tasks of a plan can be counted.
LEMMA InFlightFinite ==
    ASSUME TypeOK, NEW s
    PROVE  IsFiniteSet(InFlightOf(s)) /\ Cardinality(InFlightOf(s)) \in Nat
  <1>1. IsFiniteSet(Nodes)
    BY NumNodesAssumption, FS_Interval DEF Nodes
  <1>2. InFlightOf(s) \in SUBSET Nodes
    BY DEF InFlightOf, TypeOK
  <1> QED
    BY <1>1, <1>2, FS_Subset, FS_CardinalityType

\* Every step preserves ScanWaits.
LEMMA ScanWaitsStep == IInv /\ ScanWaits /\ [Next]_vars => ScanWaits'
  <1> SUFFICES ASSUME IInv, ScanWaits, [Next]_vars
               PROVE  ScanWaits'
    OBVIOUS
  <1>0. TypeOK /\ cursor \in Nat /\ (\A n \in Nodes : n \in Nat) /\ MaxConcurrent' = MaxConcurrent
    BY NumNodesAssumption, SameLimit DEF IInv, TypeOK, Nodes
  <1>1. ASSUME NEW n \in Nodes, DropSettled(n) PROVE ScanWaits'
    BY <1>0, <1>1 DEF DropSettled, Considers, ScanWaits, PendingOf, InFlightOf, Ready, Settled,
                      Members, TypeOK
  <1>2. ASSUME NEW n \in Nodes, PassOver(n) PROVE ScanWaits'
    BY <1>0, <1>2 DEF PassOver, Considers, ScanWaits, PendingOf, InFlightOf, Ready, Settled,
                      Members, TypeOK
  <1>3. ASSUME NEW n \in Nodes, SkipNode(n) \/ Dispatch(n) PROVE ScanWaits'
    BY <1>3 DEF SkipNode, Dispatch, ScanWaits
  <1>4. ASSUME NEW n \in Nodes, BreakFull(n) PROVE ScanWaits'
    <2>1. InFlightOf(scanning)' = InFlightOf(scanning) /\ Cardinality(InFlightOf(scanning)) >= MaxConcurrent
      BY <1>4 DEF BreakFull, InFlightOf, Members
    <2>2. Cardinality(InFlightOf(scanning)) \in Nat
      BY <1>0, InFlightFinite
    <2> QED
      BY <2>1, <2>2, <1>0, MaxConcurrentPositive DEF ScanWaits, TypeOK
  <1>5. ASSUME cursor' = 1, pending' \subseteq Nodes PROVE ScanWaits'
    BY <1>5, <1>0, NumNodesAssumption DEF ScanWaits, PendingOf, Nodes
  <1>6. ASSUME scanning' = Nobody PROVE ScanWaits'
    BY <1>6 DEF ScanWaits
  <1>7. TypeOK'
    BY TypeStep DEF IInv
  <1>8. CASE ScanStep
    BY <1>8, <1>1, <1>2, <1>3, <1>4, <1>5, <1>6, <1>7
    DEF ScanStep, Rescan, Suspend, Blocked, Complete, Leave, TypeOK
  <1>9. CASE NodeStep
    BY <1>9, <1>5, <1>6, <1>7
    DEF NodeStep, Start, StartRaises, StartSubplan, MayStart, FinishNode, FinishDecision, Returns,
        TypeOK
  <1>10. CASE RunStep
    BY <1>10, <1>5, <1>6, <1>7 DEF RunStep, Wake, WakeRaises, Leave, TypeOK
  <1>11. CASE UNCHANGED vars
    BY <1>0, <1>11 DEF vars, ScanWaits, PendingOf, InFlightOf, Ready, Settled, Members
  <1> QED
    BY <1>6, <1>8, <1>9, <1>10, <1>11 DEF Next, Cancel, Rest

\* A dependency is a node of the same plan.
LEMMA DepsInScope ==
    ASSUME NEW p \in Plans, NEW n \in Nodes, NEW m \in Deps(p, n)
    PROVE  m \in Nodes /\ p.scope[m] = p.scope[n]
  <1>1. Loadable(p)
    BY PlansAssumption
  <1> QED
    BY <1>1, GovernorsAreNodes DEF Loadable, Deps, Governors

\* In a validated plan a node depends only on listed nodes of its own plan
\* that come before it in sorted_node_ids.
LEMMA ValidatedDeps ==
    ASSUME NEW p \in Plans, Validated(p), NEW n \in Nodes, NEW m \in Deps(p, n)
    PROVE  m \in Nodes /\ m \in p.listed /\ m < n /\ p.scope[m] = p.scope[n]
  BY GovernorsAreNodes DEF Validated, Loadable, Deps, Governors

\* With nothing in flight, the first pending node of a validated plan is ready.
LEMMA FirstIsReady ==
    ASSUME IInv, Validated(plan), NEW s \in Scopes, run[s] = "running", InFlightOf(s) = {},
           NEW n \in PendingOf(s), \A m \in PendingOf(s) : n <= m
    PROVE  Ready(n)
  <1>1. TypeOK /\ NothingLost /\ n \in Nodes /\ plan.scope[n] = s
    BY DEF IInv, TypeOK, PendingOf, Members
  <1> SUFFICES ASSUME NEW m \in Deps(plan, n) PROVE m \in Settled
    BY DEF Ready
  <1>2. m \in Nodes /\ m \in plan.listed /\ m < n /\ plan.scope[m] = s
    BY <1>1, ValidatedDeps DEF TypeOK
  <1>3. m \in pending \cup inFlight \/ status[m] # "none"
    BY <1>1, <1>2 DEF NothingLost
  <1>4. m \notin pending
    BY <1>1, <1>2, NumNodesAssumption DEF PendingOf, Members, Nodes
  <1>5. m \notin inFlight
    BY <1>2 DEF InFlightOf, Members
  <1> QED
    BY <1>2, <1>3, <1>4, <1>5 DEF Settled

\* Every step preserves NoneBehind.
LEMMA NoneBehindStep == IInv /\ NoneBehind /\ [Next]_vars => NoneBehind'
  <1> SUFFICES ASSUME IInv, NoneBehind, [Next]_vars
               PROVE  NoneBehind'
    OBVIOUS
  <1>0. TypeOK /\ cursor \in Nat /\ (\A n \in Nodes : n \in Nat) /\ plan' = plan
    BY NumNodesAssumption, SamePlan DEF IInv, TypeOK, Nodes
  <1>1. ASSUME NEW n \in Nodes, DropSettled(n) \/ SkipNode(n) PROVE NoneBehind'
    <2>1. /\ n \in PendingOf(scanning) /\ cursor <= n /\ cursor' = n + 1 /\ pending' = pending \ {n}
          /\ \A m \in PendingOf(scanning) : cursor <= m => n <= m
          /\ UNCHANGED <<inFlight, scanning>>
      BY <1>1 DEF DropSettled, SkipNode, Considers
    <2>2. PendingOf(scanning)' = PendingOf(scanning) \ {n} /\ InFlightOf(scanning)' = InFlightOf(scanning)
      BY <2>1, <1>0 DEF PendingOf, InFlightOf, Members
    <2>3. \A m \in PendingOf(scanning) : m \in Nat
      BY <1>0 DEF PendingOf, TypeOK
    <2> QED
      BY <2>1, <2>2, <2>3, <1>0 DEF NoneBehind
  <1>2. ASSUME NEW n \in Nodes, PassOver(n) PROVE NoneBehind'
    <2>1. /\ n \in PendingOf(scanning) /\ ~Ready(n) /\ UNCHANGED <<inFlight, scanning>>
          /\ \A m \in PendingOf(scanning) : cursor <= m => n <= m
      BY <1>2 DEF PassOver, Considers
    <2>2. InFlightOf(scanning)' = InFlightOf(scanning)
      BY <2>1, <1>0 DEF InFlightOf, Members
    <2>3. scanning # Nobody => scanning \in Scopes /\ run[scanning] = "running"
      BY DEF IInv, TypeOK, RunsAndTasks
    <2> QED
      BY <2>1, <2>2, <2>3, <1>0, FirstIsReady DEF NoneBehind
  <1>3. ASSUME NEW n \in Nodes, Dispatch(n) \/ BreakFull(n) PROVE NoneBehind'
    <2>1. n \in PendingOf(scanning) /\ scanning' = scanning
      BY <1>3 DEF Dispatch, BreakFull, Considers
    <2>2. CASE Dispatch(n)
      BY <2>1, <2>2, <1>0 DEF Dispatch, PendingOf, InFlightOf, Members, NoneBehind
    <2>3. CASE BreakFull(n)
      <3>1. InFlightOf(scanning)' = InFlightOf(scanning) /\ Cardinality(InFlightOf(scanning)) >= MaxConcurrent
        BY <2>3 DEF BreakFull, InFlightOf, Members
      <3> QED
        BY <3>1, <1>0, FS_EmptySet, MaxConcurrentPositive DEF NoneBehind, TypeOK
    <2> QED
      BY <1>3, <2>2, <2>3
  <1>4. ASSUME cursor' = 1, pending' \subseteq Nodes PROVE NoneBehind'
    BY <1>4, <1>0, NumNodesAssumption DEF NoneBehind, PendingOf, Nodes
  <1>5. ASSUME scanning' = Nobody PROVE NoneBehind'
    BY <1>5 DEF NoneBehind
  <1>6. TypeOK'
    BY TypeStep DEF IInv
  <1>7. CASE ScanStep
    BY <1>7, <1>1, <1>2, <1>3, <1>4, <1>5, <1>6
    DEF ScanStep, Rescan, Suspend, Blocked, Complete, Leave, TypeOK
  <1>8. CASE NodeStep
    BY <1>8, <1>4, <1>5, <1>6
    DEF NodeStep, Start, StartRaises, StartSubplan, MayStart, FinishNode, FinishDecision, Returns,
        TypeOK
  <1>9. CASE RunStep
    BY <1>9, <1>4, <1>5, <1>6 DEF RunStep, Wake, WakeRaises, Leave, TypeOK
  <1>10. CASE UNCHANGED vars
    BY <1>10 DEF vars, NoneBehind, PendingOf, InFlightOf, Members
  <1> QED
    BY <1>5, <1>7, <1>8, <1>9, <1>10 DEF Next, Cancel, Rest

LEMMA NoneBehindInit == Init => NoneBehind
  BY NumNodesAssumption DEF Init, NoneBehind, PendingOf, Members, Nodes

\* "no ready nodes remain" cannot be raised for a validated plan: the first
\* pending node in sorted_node_ids always has all its dependencies settled.
THEOREM NeverBlockedHolds == Spec => []NeverBlocked
  <1>1. Init => NeverBlocked
    BY DEF Init, NeverBlocked
  <1>2. ASSUME IInv, NoneBehind, Validated(plan) PROVE ~Blocked
    <2> SUFFICES ASSUME Blocked PROVE FALSE
      OBVIOUS
    <2>1. TypeOK /\ ScanOver /\ scanning # Nobody /\ InFlightOf(scanning) = {}
      BY <1>2 DEF IInv, Blocked, ScanOver
    <2>2. PICK n \in PendingOf(scanning) : TRUE
      BY DEF Blocked
    <2>3. n \in Nat /\ cursor \in Nat
      BY <2>1, <2>2, NumNodesAssumption DEF PendingOf, TypeOK, Nodes
    <2> QED
      BY <2>1, <2>2, <2>3, <1>2, ScanOverPassed DEF NoneBehind
  <1>3. IInv /\ NoneBehind /\ NeverBlocked /\ [Next]_vars => NeverBlocked'
    <2> SUFFICES ASSUME IInv, NoneBehind, NeverBlocked, [Next]_vars, Validated(plan')
                 PROVE  \A s \in Scopes : run'[s] # "blocked"
      BY DEF NeverBlocked
    <2>1. plan' = plan
      BY SamePlan
    <2>2. ~Blocked /\ (\A s \in Scopes : run[s] # "blocked") /\ run \in [Scopes -> RunStates]
      BY <2>1, <1>2 DEF NeverBlocked, IInv, TypeOK
    <2>3. CASE ScanStep
      BY <2>2, <2>3 DEF ScanStep, DropSettled, PassOver, SkipNode, BreakFull, Dispatch, Rescan, Suspend,
             Complete, Leave
    <2>4. CASE NodeStep
      BY <2>2, <2>4 DEF NodeStep, Start, StartRaises, StartSubplan, FinishNode, FinishDecision, Returns
    <2>5. CASE RunStep
      BY <2>2, <2>5 DEF RunStep, Wake, WakeRaises, Leave
    <2> QED
      BY <2>2, <2>3, <2>4, <2>5 DEF Next, Cancel, Rest, vars
  <1> QED
    BY <1>1, <1>3, NoneBehindInit, NoneBehindStep, Inductive, PTL DEF Spec

\* A setting of one or less makes the schedule sequential: a node of a
\* validated plan is handed to a task only when all before it in
\* sorted_node_ids have a result, in nested plans too.
THEOREM SequentialHolds == Spec => []SequentialWhenOne
  <1>1. Init => SequentialWhenOne
    BY DEF Init, SequentialWhenOne
  <1>2. IInv /\ NoneBehind /\ SequentialWhenOne /\ [Next]_vars => SequentialWhenOne'
    <2> SUFFICES ASSUME IInv, NoneBehind, SequentialWhenOne, [Next]_vars,
                        setting' <= 1, Validated(plan'), NEW m \in Nodes, NEW n \in Nodes,
                        m < n, plan'.scope[m] = plan'.scope[n], task'[n] # "none"
                 PROVE  status'[m] # "none"
      BY DEF SequentialWhenOne
    <2>1. plan' = plan /\ setting <= 1 /\ TypeOK /\ m \in Nat /\ n \in Nat /\ cursor \in Nat
      BY SamePlan, NumNodesAssumption DEF IInv, TypeOK, Nodes
    <2>2. CASE task[n] # "none"
      <3>1. status[m] # "none"
        BY <2>1, <2>2 DEF SequentialWhenOne
      <3> QED
        BY <3>1, FinalStep
    <2>3. CASE task[n] = "none"
      <3>1. Dispatch(n)
        <4>1. CASE ScanStep
          <5>1. ASSUME NEW s \in Scopes, NEW e, NEW st, run[s] = "running", Leave(s, e, st)
                PROVE  task'[n] = "none"
            BY <5>1, <2>1, <2>3, Names DEF Leave, IInv, RunsAndTasks, TypeOK
          <5>2. CASE Blocked \/ Complete
            <6>1. scanning \in Scopes /\ run[scanning] = "running"
              BY <5>2 DEF Blocked, Complete, ScanOver, IInv, TypeOK, RunsAndTasks
            <6> QED
              BY <6>1, <5>1, <5>2 DEF Blocked, Complete
          <5>3. ASSUME NEW k \in Nodes, Dispatch(k) PROVE k = n
            BY <5>3, <2>1, <2>3 DEF Dispatch, TypeOK
          <5> QED
            BY <4>1, <2>3, <5>2, <5>3 DEF ScanStep, DropSettled, PassOver, SkipNode, BreakFull, Rescan, Suspend
        <4>2. CASE NodeStep
          BY <4>2, <2>1, <2>3 DEF NodeStep, Start, StartRaises, StartSubplan, MayStart, FinishNode,
                                  FinishDecision, Returns, TypeOK
        <4>3. CASE RunStep
          BY <4>3, <2>1, <2>3, Names DEF RunStep, Wake, WakeRaises, Woken, Leave, IInv, RunsAndTasks, TypeOK
        <4> QED
          BY <4>1, <4>2, <4>3, <2>3 DEF Next, Cancel, Rest, vars
      <3>2. /\ n \in PendingOf(scanning) /\ status' = status
            /\ \A k \in PendingOf(scanning) : cursor <= k => n <= k
            /\ Cardinality(InFlightOf(scanning)) < MaxConcurrent
        BY <3>1 DEF Dispatch, Considers
      <3>3. MaxConcurrent = 1
        BY <2>1, SettingsAssumption DEF MaxConcurrent, TypeOK
      <3>4. InFlightOf(scanning) = {}
        BY <3>2, <3>3, <2>1, InFlightFinite, FS_EmptySet
      <3>5. plan.scope[n] = scanning /\ scanning \in Scopes /\ scanning # Nobody
        BY <3>2, <2>1, PlanFacts, Names DEF PendingOf, Members, TypeOK
      <3>6. run[scanning] = "running" /\ m \in plan.listed
        BY <3>5, <2>1 DEF IInv, RunsAndTasks, Validated
      <3>7. m \in pending \cup inFlight \/ status[m] # "none"
        BY <3>5, <3>6, <2>1 DEF IInv, NothingLost
      <3>8. m \notin inFlight
        BY <3>4, <3>5, <2>1 DEF InFlightOf, Members
      <3>9. m \notin pending
        <4>1. m \in pending => m \in PendingOf(scanning)
          BY <3>5, <2>1 DEF PendingOf, Members
        <4> QED
          BY <4>1, <3>2, <3>4, <3>5, <2>1 DEF NoneBehind
      <3> QED
        BY <3>2, <3>7, <3>8, <3>9
    <2> QED
      BY <2>2, <2>3
  <1> QED
    BY <1>1, <1>2, NoneBehindInit, NoneBehindStep, Inductive, PTL DEF Spec

-----------------------------------------------------------------------------
(* The waiting runs. *)

\* A waiting run goes on waiting when its own lists stay as they are, its
\* finished tasks stay finished, and none of its nodes gets a result.
LEMMA WaitingKept ==
    ASSUME TypeOK, TypeOK', plan' = plan, MaxConcurrent' = MaxConcurrent, NEW s, Waiting(s),
           InFlightOf(s)' = InFlightOf(s), PendingOf(s)' = PendingOf(s),
           \A n \in InFlightOf(s) : Finished(n) => Finished(n)',
           \A m \in Members(plan, s) : status'[m] # "none" => status[m] # "none"
    PROVE  Waiting(s)'
  <1>1. ASSUME NEW n \in PendingOf(s), ~Ready(n) PROVE ~Ready(n)'
    <2>1. n \in Nodes /\ plan.scope[n] = s /\ plan \in Plans
      BY DEF PendingOf, Members, TypeOK
    <2>2. PICK m \in Deps(plan, n) : m \notin Settled
      BY <1>1 DEF Ready
    <2>3. m \in Members(plan, s) /\ m \in Nodes
      BY <2>1, <2>2, DepsInScope DEF Members
    <2>4. m \notin Settled'
      BY <2>2, <2>3 DEF Settled
    <2> QED
      BY <2>2, <2>4 DEF Ready
  <1> QED
    BY <1>1 DEF Waiting

\* A run with a finished task in flight is about to be woken.
LEMMA FinishedWaits ==
    ASSUME NEW s, NEW n \in InFlightOf(s)', Finished(n)'
    PROVE  Waiting(s)'
  BY DEF Waiting

\* A task that gives its node's result is one its live run waits for.
LEMMA ResultWakes ==
    ASSUME IInv, plan' = plan, inFlight' = inFlight, NEW n \in Nodes, task[n] = "running",
           task'[n] = "done", run[plan.scope[n]] = "running"
    PROVE  Waiting(plan.scope[n])'
  <1>1. n \in InFlightOf(plan.scope[n])
    BY DEF IInv, NothingLost, InFlightOf, Members
  <1>2. n \in InFlightOf(plan.scope[n])'
    BY <1>1 DEF InFlightOf, Members
  <1> QED
    BY <1>2, FinishedWaits DEF Finished

LEMMA RunsWaitStep == IInv /\ ScanWaits /\ RunsWait /\ [Next]_vars => RunsWait'
  <1> SUFFICES ASSUME IInv, ScanWaits, RunsWait, [Next]_vars,
                      NEW s \in Scopes, run'[s] = "running", s # scanning'
               PROVE  Waiting(s)'
    BY DEF RunsWait
  <1>1. TypeOK /\ TypeOK' /\ plan' = plan /\ MaxConcurrent' = MaxConcurrent /\ plan \in Plans /\ s # Nobody
    BY SamePlan, SameLimit, TypeStep, Names DEF IInv, TypeOK
  <1>2. ASSUME NEW n \in Nodes, DropSettled(n) \/ PassOver(n) \/ SkipNode(n) \/ BreakFull(n) \/ Dispatch(n)
        PROVE  Waiting(s)'
    <2>1. /\ n \in PendingOf(scanning) /\ UNCHANGED <<run, scanning>> /\ pending \ {n} \subseteq pending'
          /\ pending' \subseteq pending /\ inFlight \subseteq inFlight' /\ inFlight' \subseteq inFlight \cup {n}
          /\ \A m \in Nodes : m # n => status'[m] = status[m] /\ task'[m] = task[m]
      BY <1>1, <1>2 DEF DropSettled, PassOver, SkipNode, BreakFull, Dispatch, Considers, TypeOK
    <2>2. plan.scope[n] = scanning /\ n \notin Members(plan, s) /\ Waiting(s)
      BY <2>1 DEF PendingOf, Members, RunsWait
    <2>3. InFlightOf(s)' = InFlightOf(s) /\ PendingOf(s)' = PendingOf(s)
      BY <1>1, <2>1, <2>2 DEF InFlightOf, PendingOf, Members
    <2>4. \A m \in Members(plan, s) : status'[m] = status[m] /\ task'[m] = task[m]
      BY <2>1, <2>2 DEF Members
    <2>5. \A m \in InFlightOf(s) : Finished(m) => Finished(m)'
      BY <2>4 DEF InFlightOf, Finished
    <2> QED
      BY <1>1, <2>2, <2>3, <2>4, <2>5, WaitingKept
  <1>3. ASSUME UNCHANGED <<pending, inFlight, status, task>>, run[s] = "running", s # scanning
        PROVE  Waiting(s)'
    <2>1. Waiting(s) /\ InFlightOf(s)' = InFlightOf(s) /\ PendingOf(s)' = PendingOf(s)
      BY <1>1, <1>3 DEF RunsWait, InFlightOf, PendingOf
    <2>2. \A m \in InFlightOf(s) : Finished(m) => Finished(m)'
      BY <1>3 DEF Finished
    <2> QED
      BY <1>1, <1>3, <2>1, <2>2, WaitingKept
  <1>4. CASE Rescan
    BY <1>3, <1>4 DEF Rescan
  <1>5. CASE Suspend
    <2>1. CASE s # scanning
      BY <2>1, <1>3, <1>5 DEF Suspend
    <2>2. CASE s = scanning
      <3>1. InFlightOf(s)' = InFlightOf(s) /\ PendingOf(s)' = PendingOf(s) /\ InFlightOf(s) # {}
        BY <1>1, <1>5, <2>2 DEF Suspend, InFlightOf, PendingOf
      <3>2. CASE Cardinality(InFlightOf(s)) >= MaxConcurrent
        BY <3>1, <3>2, <1>1 DEF Waiting
      <3>3. CASE ~(Cardinality(InFlightOf(s)) >= MaxConcurrent)
        <4>1. Cardinality(InFlightOf(s)) < MaxConcurrent /\ ~dispatched /\ scanning # Nobody
          BY <3>3, <2>2, <1>1, <1>5, InFlightFinite, MaxConcurrentPositive DEF Suspend, TypeOK
        <4>2. \A n \in PendingOf(s) : ~Ready(n)
          BY <4>1, <2>2, <1>1, <1>5, ScanOverPassed DEF Suspend, ScanWaits
        <4>3. \A n \in PendingOf(s) : ~Ready(n)'
          BY <4>2, <1>1, <1>5 DEF Suspend, Ready, Settled
        <4> QED
          BY <3>1, <4>3 DEF Waiting
      <3> QED
        BY <3>2, <3>3
    <2> QED
      BY <2>1, <2>2
  <1>6. ASSUME NEW t \in Scopes, NEW e \in RunStates \ {"running"}, NEW st, run[t] = "running",
               scanning \in {t, Nobody}, Leave(t, e, st)
        PROVE  Waiting(s)'
    <2>1. s # t /\ run[s] = "running" /\ s # scanning /\ Waiting(s)
      BY <1>1, <1>6 DEF Leave, TypeOK, RunsWait
    <2>2. CASE t = Root
      BY <2>1, <2>2, <1>3, <1>6 DEF Leave
    <2>3. CASE t # Root
      <3>1. t \in Nodes /\ task[t] = "running" /\ task' = [task EXCEPT ![t] = "done"]
            /\ status' = [status EXCEPT ![t] = st] /\ UNCHANGED <<pending, inFlight>>
        BY <2>3, <1>6, Names DEF Leave, IInv, RunsAndTasks
      <3>2. CASE plan.scope[t] = s
        BY <3>1, <3>2, <2>1, <1>1, ResultWakes DEF TypeOK
      <3>3. CASE plan.scope[t] # s
        <4>1. \A m \in Members(plan, s) : status'[m] = status[m] /\ task'[m] = task[m]
          BY <3>1, <3>3, <1>1 DEF Members, TypeOK
        <4>2. InFlightOf(s)' = InFlightOf(s) /\ PendingOf(s)' = PendingOf(s)
          BY <1>1, <3>1 DEF InFlightOf, PendingOf
        <4>3. \A m \in InFlightOf(s) : Finished(m) => Finished(m)'
          BY <4>1 DEF InFlightOf, Finished
        <4> QED
          BY <1>1, <2>1, <4>1, <4>2, <4>3, WaitingKept
      <3> QED
        BY <3>2, <3>3
    <2> QED
      BY <2>2, <2>3
  <1>7. CASE Blocked \/ Complete
    <2>1. scanning \in Scopes /\ run[scanning] = "running"
      BY <1>7 DEF Blocked, Complete, ScanOver, IInv, TypeOK, RunsAndTasks
    <2> QED
      BY <2>1, <1>6, <1>7 DEF Blocked, Complete, RunStates
  <1>8. ASSUME NEW n \in Nodes, Start(n) \/ StartRaises(n) \/ StartSubplan(n)
        PROVE  Waiting(s)'
    <2>1. task[n] = "created" /\ scanning = Nobody /\ UNCHANGED <<inFlight, status>>
      BY <1>8 DEF Start, StartRaises, StartSubplan, MayStart
    <2>2. run[s] = "running" /\ Waiting(s)
      BY <2>1, <1>1, <1>8 DEF Start, StartRaises, StartSubplan, RunsWait, TypeOK
    <2>3. PendingOf(s)' = PendingOf(s) /\ InFlightOf(s)' = InFlightOf(s)
      BY <2>1, <1>1, <1>8 DEF Start, StartRaises, StartSubplan, PendingOf, InFlightOf, Members
    <2>4. \A m \in InFlightOf(s) : Finished(m) => Finished(m)'
      BY <2>1, <1>1, <1>8 DEF Start, StartRaises, StartSubplan, InFlightOf, Finished, TypeOK
    <2> QED
      BY <1>1, <2>1, <2>2, <2>3, <2>4, WaitingKept
  <1>9. ASSUME NEW n \in Nodes, Returns(n),
               \A m \in Nodes : plan.scope[m] # plan.scope[n] => status'[m] = status[m]
        PROVE  Waiting(s)'
    <2>1. /\ task[n] = "running" /\ scanning = Nobody /\ task' = [task EXCEPT ![n] = "done"]
          /\ UNCHANGED <<run, pending, inFlight>>
      BY <1>9 DEF Returns
    <2>2. run[s] = "running" /\ Waiting(s)
      BY <2>1, <1>1 DEF RunsWait
    <2>3. CASE plan.scope[n] = s
      BY <2>1, <2>2, <2>3, <1>1, ResultWakes DEF TypeOK
    <2>4. CASE plan.scope[n] # s
      <3>1. \A m \in Members(plan, s) : status'[m] = status[m] /\ task'[m] = task[m]
        BY <2>1, <2>4, <1>1, <1>9 DEF Members, TypeOK
      <3>2. InFlightOf(s)' = InFlightOf(s) /\ PendingOf(s)' = PendingOf(s)
        BY <1>1, <2>1 DEF InFlightOf, PendingOf
      <3>3. \A m \in InFlightOf(s) : Finished(m) => Finished(m)'
        BY <3>1 DEF InFlightOf, Finished
      <3> QED
        BY <1>1, <2>2, <3>1, <3>2, <3>3, WaitingKept
    <2> QED
      BY <2>3, <2>4
  <1>10. ASSUME NEW n \in Nodes, NEW o \in Outcomes, NEW u \in BOOLEAN, FinishNode(n, o, u)
         PROVE  Waiting(s)'
    BY <1>1, <1>9, <1>10 DEF FinishNode, TypeOK
  <1>11. ASSUME NEW d \in Nodes, NEW b \in Branches, FinishDecision(d, b)
         PROVE  Waiting(s)'
    <2>1. \A m \in Untaken(plan, d, b) : m \in Nodes /\ plan.scope[m] = plan.scope[d]
      <3>1. Loadable(plan) /\ plan.branches \in [Nodes -> [Branches -> SUBSET Nodes]]
        BY <1>1, PlansAssumption, PlanFacts
      <3> QED
        BY <3>1 DEF Untaken, Loadable
    <2> QED
      BY <2>1, <1>9, <1>11 DEF FinishDecision, Exclude
  <1>12. ASSUME NEW t \in Scopes, Wake(t) PROVE Waiting(s)'
    <2>1. /\ scanning = Nobody /\ scanning' = t /\ UNCHANGED <<run, pending, task, status>>
          /\ inFlight' = {n \in inFlight : n \in Members(plan, t) => ~Finished(n)}
      BY <1>12 DEF Wake, Woken
    <2>2. Waiting(s) /\ s # t
      BY <2>1, <1>1 DEF RunsWait
    <2>3. InFlightOf(s)' = InFlightOf(s) /\ PendingOf(s)' = PendingOf(s)
      BY <1>1, <2>1, <2>2 DEF InFlightOf, PendingOf, Members
    <2>4. \A m \in InFlightOf(s) : Finished(m) => Finished(m)'
      BY <2>1 DEF Finished
    <2> QED
      BY <1>1, <2>1, <2>2, <2>3, <2>4, WaitingKept
  <1>13. ASSUME NEW t \in Scopes, WakeRaises(t) PROVE Waiting(s)'
    BY <1>6, <1>13 DEF WakeRaises, Woken, RunStates
  <1>14. CASE Cancel
    BY <1>1, <1>3, <1>14 DEF Cancel, TypeOK
  <1>15. CASE UNCHANGED vars
    BY <1>3, <1>15 DEF vars
  <1> QED
    BY <1>2, <1>4, <1>5, <1>7, <1>8, <1>10, <1>11, <1>12, <1>13, <1>14, <1>15
    DEF Next, ScanStep, NodeStep, RunStep, Rest

\* No run waits in vain and none wastes a slot, for every plan, validated or
\* not, and every setting: what a suspended run has pending and ready is only
\* there because in_flight is full or a finished task is about to wake it.
THEOREM WorkConservingHolds == Spec => []WorkConserving
  <1>1. Init => ScanWaits /\ RunsWait
    BY NumNodesAssumption DEF Init, ScanWaits, RunsWait, PendingOf, Members, Nodes
  <1>2. IInv /\ RunsWait => WorkConserving
    BY Names DEF RunsWait, Waiting, WorkConserving
  <1> QED
    BY <1>1, <1>2, ScanWaitsStep, RunsWaitStep, Inductive, PTL DEF Spec
=============================================================================
