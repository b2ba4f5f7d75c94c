---------------------------- MODULE TaskLifecycle ----------------------------
(***************************************************************************)
(* One task from POST /task to its end: the row a StateStore keeps for it  *)
(* (state/memory.py, state/sqlite.py), the orchestrator's background jobs  *)
(* that plan and execute it (executor/orchestrator.py: run, resume), the   *)
(* REST handlers that submit it and claim it for resumption, and the       *)
(* clients that stream its events through the bus (gateways/rest/app.py,   *)
(* events/bus.py).                                                         *)
(*                                                                         *)
(* Between two real waits (the planner, the executor) a job performs a     *)
(* list of store writes and publications, `todo'.  The in-memory store and *)
(* the bus never suspend, so with it the list is one step of the event     *)
(* loop and nobody else acts until it is done.  In a shared deployment     *)
(* several workers share one SQLite file, and anything may happen between  *)
(* two writes of a job; each worker has a bus of its own, so that streams  *)
(* are part of the other deployment alone.                                 *)
(*                                                                         *)
(* Abstracted: the plan and the results (only the status column of the row *)
(* is kept), what an execution does (Executor), and which attempts the     *)
(* planner's feedback rules call for.  Revision and cancellation belong to *)
(* the ACP gateway and are not part of this module.                        *)
(***************************************************************************)
EXTENDS Integers, Sequences, FiniteSets

CONSTANTS
    Resumes,            \* calls to resume the task, each with its job
    Watchers,           \* clients of GET /task/{id}/events
    MaxReplanAttempts,  \* settings.max_replan_attempts
    MaxQueue,           \* EventBus max_queue
    Deployments         \* the ways of running the service: see Deployment

RunJob == "run"
Jobs   == {RunJob} \cup Resumes

ASSUME ResumesAssumption == RunJob \notin Resumes
ASSUME BoundsAssumption == MaxReplanAttempts \in Nat /\ MaxQueue \in Nat \ {0}

\* shared: several workers share a durable store; patient: nobody resumes
\* before Orchestrator.run has returned; mortal: a worker may die, which the
\* row survives only in a durable store.
Deployment == {d \in [shared: BOOLEAN, patient: BOOLEAN, mortal: BOOLEAN] : d.mortal => d.shared}

ASSUME DeploymentsAssumption == Deployments \subseteq Deployment

Terminal  == {"completed", "failed", "rejected"}
TaskStatus == Terminal \cup {"planning", "awaiting_confirmation", "resuming", "executing"}
Resumable == {"awaiting_confirmation"}        \* PAUSED is never set

\* Events of the stream; `node' stands for everything about nodes.
TerminalEvents == {"task_completed", "task_failed", "plan_failed", "plan_rejected",
                   "awaiting_confirmation"}
Events == TerminalEvents \cup {"planning_started", "plan_ready", "node"}

VARIABLES
    deployment, \* how the service is run; never changes
    confirm,    \* settings.confirm_plans; never changes
    row,        \* status column of the task's row, "absent" before submission
    attempt,    \* planning attempts made
    pc,         \* per job: where it is
    todo,       \* per job: writes and publications before it waits again
    started,    \* jobs that entered the executor
    orphans,    \* jobs whose executor raised and left node tasks running
    late,       \* events of such tasks since, up to MaxQueue
    stream,     \* per watcher: where its connection is
    queue       \* per watcher: its subscription's queue

vars == <<deployment, confirm, row, attempt, pc, todo, started, orphans, late, stream, queue>>

Save(s) == [do |-> "save", arg |-> s]
Emit(e) == [do |-> "emit", arg |-> e]
Goto(l) == [do |-> "goto", arg |-> l]

Operations == {Save(s) : s \in TaskStatus} \cup {Emit(e) : e \in Events}
              \cup {Goto(l) : l \in {"planning", "executing", "done"}}

TypeOK ==
    /\ deployment \in Deployments
    /\ confirm \in BOOLEAN
    /\ row \in TaskStatus \cup {"absent"}
    /\ attempt \in 0..MaxReplanAttempts
    /\ pc \in [Jobs -> {"away", "checked", "selected", "refused", "queued", "promoting",
                        "planning", "busy", "executing", "done", "dead"}]
    /\ todo \in [Jobs -> Seq(Operations)]
    /\ started \subseteq Jobs
    /\ orphans \subseteq Jobs
    /\ late \in 0..MaxQueue
    /\ stream \in [Watchers -> {"away", "joining", "streaming", "closed"}]
    /\ queue \in [Watchers -> Seq(Events)]
    /\ \A w \in Watchers : Len(queue[w]) <= MaxQueue

-----------------------------------------------------------------------------
\* Half way through a handler that does not wait for anything but the store.
MidStep(j)    == pc[j] \in {"busy", "checked", "selected", "promoting"}
Joining(w)    == stream[w] = "joining"
Undisturbed(j) ==
    ~deployment.shared => (\A k \in Jobs \ {j} : ~MidStep(k)) /\ (\A w \in Watchers : ~Joining(w))

\* A bug to catch: a full queue sheds the event that arrives.
DeliverDropsNewest(q, e) == IF Len(q) < MaxQueue THEN Append(q, e) ELSE q

\* Subscription.deliver: a full queue sheds its oldest event.
Deliver(q, e) == IF Len(q) < MaxQueue THEN Append(q, e) ELSE Append(Tail(q), e)

\* EventBus.publish: to every registered subscription.
Publish(e) ==
    queue' = [w \in Watchers |->
                IF stream[w] \in {"joining", "streaming"} THEN Deliver(queue[w], e) ELSE queue[w]]

\* Job j goes on with these operations, then waits where the last one says.
Perform(j, ops) ==
    /\ pc' = [pc EXCEPT ![j] = "busy"]
    /\ todo' = [todo EXCEPT ![j] = ops]

Init ==
    /\ deployment \in Deployments
    /\ confirm \in BOOLEAN
    /\ row = "absent"
    /\ attempt = 0
    /\ pc = [j \in Jobs |-> "away"]
    /\ todo = [j \in Jobs |-> <<>>]
    /\ started = {}
    /\ orphans = {}
    /\ late = 0
    /\ stream = [w \in Watchers |-> "away"]
    /\ queue = [w \in Watchers |-> <<>>]

\* The next operation of a job's list.
Operate(j) ==
    /\ pc[j] = "busy"
    /\ Undisturbed(j)
    /\ LET op == Head(todo[j]) IN
          /\ row' = IF op.do = "save" THEN op.arg ELSE row
          /\ IF op.do = "emit" THEN Publish(op.arg) ELSE UNCHANGED queue
          /\ pc' = IF op.do = "goto" THEN [pc EXCEPT ![j] = op.arg] ELSE pc
          /\ started' = IF op = Goto("executing") THEN started \cup {j} ELSE started
    /\ todo' = [todo EXCEPT ![j] = Tail(@)]
    /\ UNCHANGED <<deployment, confirm, attempt, orphans, late, stream>>

-----------------------------------------------------------------------------
(* POST /task and Orchestrator.run. *)

\* submit_task saves the new state and queues the background job.
Submit ==
    /\ row = "absent"
    /\ Undisturbed(RunJob)
    /\ row' = "planning"
    /\ pc' = [pc EXCEPT ![RunJob] = "queued"]
    /\ UNCHANGED <<deployment, confirm, attempt, todo, started, orphans, late, stream, queue>>

\* run loads the state and calls the planner.
RunStarts ==
    /\ pc[RunJob] = "queued"
    /\ Undisturbed(RunJob)
    /\ Perform(RunJob, <<Emit("planning_started"), Goto("planning")>>)
    /\ UNCHANGED <<deployment, confirm, row, attempt, started, orphans, late, stream, queue>>

PlannerReturns ==
    /\ pc[RunJob] = "planning"
    /\ Undisturbed(RunJob)
    /\ UNCHANGED <<deployment, confirm, row, started, orphans, late, stream, queue>>

\* Every attempt the planner returns is saved; one that raises is not.
AttemptSaved == {<<Save("planning")>>, <<>>}

\* An attempt that calls for another one.
AttemptFails ==
    /\ PlannerReturns
    /\ attempt < MaxReplanAttempts
    /\ attempt' = attempt + 1
    /\ \E saved \in AttemptSaved : Perform(RunJob, saved \o <<Goto("planning")>>)

\* The last attempt failed: _emit_plan_terminal, save, and save again in the
\* finally clause.
PlanningFails ==
    /\ PlannerReturns
    /\ attempt = MaxReplanAttempts
    /\ UNCHANGED attempt
    /\ \E saved \in AttemptSaved :
          Perform(RunJob, saved \o <<Emit("plan_failed"), Save("failed"), Save("failed"),
                                     Goto("done")>>)

\* The planner declines the task, at any attempt.
PlanRejected ==
    /\ PlannerReturns
    /\ UNCHANGED attempt
    /\ Perform(RunJob, <<Save("planning"), Emit("plan_rejected"), Save("rejected"),
                         Save("rejected"), Goto("done")>>)

\* A bug to catch: the failure is announced and not saved.
PlannerRaisesUnsaved ==
    /\ PlannerReturns
    /\ UNCHANGED attempt
    /\ Perform(RunJob, <<Emit("task_failed"), Goto("done")>>)

\* Anything else raised by the planner.
PlannerRaises ==
    /\ PlannerReturns
    /\ UNCHANGED attempt
    /\ Perform(RunJob, <<Emit("task_failed"), Save("failed"), Goto("done")>>)

\* A bug to catch: nothing is announced at the gate.
PresentOrExecuteSilent ==
    /\ PlannerReturns
    /\ UNCHANGED attempt
    /\ Perform(RunJob, <<Save("planning"), Emit("plan_ready")>> \o
                       IF confirm THEN <<Save("awaiting_confirmation"),
                                         Save("awaiting_confirmation"), Goto("done")>>
                       ELSE <<Goto("executing")>>)

\* A valid plan: _present_or_execute gates on confirmation or executes.
PresentOrExecute ==
    /\ PlannerReturns
    /\ UNCHANGED attempt
    /\ Perform(RunJob, <<Save("planning"), Emit("plan_ready")>> \o
                       IF confirm THEN <<Save("awaiting_confirmation"),
                                         Emit("awaiting_confirmation"),
                                         Save("awaiting_confirmation"), Goto("done")>>
                       ELSE <<Goto("executing")>>)

-----------------------------------------------------------------------------
(* The executor, as its callers see it. *)

Executing(j) == pc[j] = "executing" /\ Undisturbed(j)

\* Something happens to a node: of the execution, or of a task it left behind.
NodeEvent(j) ==
    /\ pc[j] = "executing" \/ (j \in orphans /\ ~MidStep(j))
    /\ Undisturbed(j)
    /\ Publish("node")
    /\ late' = IF j \in orphans /\ late < MaxQueue THEN late + 1 ELSE late
    /\ UNCHANGED <<deployment, confirm, row, attempt, pc, todo, started, orphans, stream>>

\* Executor.execute publishes task_completed and returns; no task is left.
ExecuteReturns(j) ==
    /\ Executing(j)
    /\ Perform(j, <<Emit("task_completed"), Save("completed"), Goto("done")>>)
    /\ UNCHANGED <<deployment, confirm, row, attempt, started, orphans, late, stream, queue>>

\* Executor.execute raises what the node it awaits raised; the tasks of other
\* nodes, if there are any, run on and publish.
ExecuteRaises(j) ==
    /\ Executing(j)
    /\ orphans' \in {orphans, orphans \cup {j}}
    /\ Perform(j, <<Emit("task_failed"), Save("failed"), Goto("done")>>)
    /\ UNCHANGED <<deployment, confirm, row, attempt, started, late, stream, queue>>

-----------------------------------------------------------------------------
(* POST /task/{id}/resume, and Orchestrator.resume. *)

Step(r, from, to) ==
    /\ pc[r] = from
    /\ Undisturbed(r)
    /\ pc' = [pc EXCEPT ![r] = to]
    /\ UNCHANGED <<deployment, confirm, attempt, todo, orphans, late, stream, queue>>

MayAsk == row # "absent" /\ (deployment.patient => pc[RunJob] \in {"done", "dead"})

\* resume_task looks at the row.
ResumeRequested(r) ==
    /\ MayAsk
    /\ Step(r, "away", IF row \in Resumable THEN "checked" ELSE "refused")
    /\ UNCHANGED <<row, started>>

\* transition_task_status, first half: SELECT.
ClaimSelects(r) ==
    /\ Step(r, "checked", IF row \in Resumable THEN "selected" ELSE "refused")
    /\ UNCHANGED <<row, started>>

\* A bug to catch: the UPDATE is not conditional on the status.
ClaimUpdatesBlindly(r) ==
    /\ Step(r, "selected", "queued")
    /\ row' = "resuming"
    /\ UNCHANGED started

\* transition_task_status, second half: UPDATE ... WHERE status IN (...).
\* The winner queues the background job, the loser answers 409.
ClaimUpdates(r) ==
    /\ Step(r, "selected", IF row \in Resumable THEN "queued" ELSE "refused")
    /\ row' = IF row \in Resumable THEN "resuming" ELSE row
    /\ UNCHANGED started

\* Orchestrator.resume called without a claim, as a duplicate or by another
\* gateway.
ResumeCalled(r) ==
    /\ MayAsk
    /\ Step(r, "away", "queued")
    /\ UNCHANGED <<row, started>>

\* A bug to catch: the job does not ask for any status in particular.
PromotableAny == TaskStatus

Promotable == Resumable \cup {"resuming"}

\* The job's own transition to EXECUTING: SELECT.
PromoteSelects(r) ==
    /\ r \in Resumes
    /\ Step(r, "queued", IF row \in Promotable THEN "promoting" ELSE "done")
    /\ UNCHANGED <<row, started>>

\* UPDATE; the winner enters the executor.
PromoteUpdates(r) ==
    /\ Step(r, "promoting", IF row \in Promotable THEN "executing" ELSE "done")
    /\ row' = IF row \in Promotable THEN "executing" ELSE row
    /\ started' = IF row \in Promotable THEN started \cup {r} ELSE started

\* The worker running the job or handler dies, its tasks with it; the row stays.
Crash(j) ==
    /\ deployment.mortal
    /\ pc[j] \notin {"away", "refused", "done", "dead"}
    /\ pc' = [pc EXCEPT ![j] = "dead"]
    /\ todo' = [todo EXCEPT ![j] = <<>>]
    /\ orphans' = orphans \ {j}
    /\ UNCHANGED <<deployment, confirm, row, attempt, started, late, stream, queue>>

-----------------------------------------------------------------------------
(* GET /task/{id}/events: event_stream and _event_source. *)

WatchStep(w, from) ==
    /\ stream[w] = from
    /\ ~deployment.shared => (\A j \in Jobs : ~MidStep(j)) /\ (\A v \in Watchers \ {w} : ~Joining(v))
    /\ UNCHANGED <<deployment, confirm, row, attempt, pc, todo, started, orphans, late>>

\* The subscription is registered before the row is read.
Subscribe(w) ==
    /\ WatchStep(w, "away")
    /\ ~deployment.shared
    /\ row # "absent"
    /\ stream' = [stream EXCEPT ![w] = "joining"]
    /\ UNCHANGED queue

\* _terminal_snapshot has an event for this status.
HasSnapshot(s) == s \in {"completed", "failed", "awaiting_confirmation"}

\* One synthesised event and the end, or the live stream.
Join(w) ==
    /\ WatchStep(w, "joining")
    /\ stream' = [stream EXCEPT ![w] = IF HasSnapshot(row) THEN "closed" ELSE "streaming"]
    /\ UNCHANGED queue

\* The next event; a terminal one ends the stream.  A keepalive changes nothing.
Receive(w) ==
    /\ WatchStep(w, "streaming")
    /\ queue[w] # <<>>
    /\ queue' = [queue EXCEPT ![w] = Tail(@)]
    /\ stream' = IF Head(queue[w]) \in TerminalEvents THEN [stream EXCEPT ![w] = "closed"] ELSE stream

-----------------------------------------------------------------------------
RunStep ==
    \/ RunStarts
    \/ AttemptFails
    \/ PlanningFails
    \/ PlanRejected
    \/ PlannerRaises
    \/ PresentOrExecute

ExecStep(j) == ExecuteReturns(j) \/ ExecuteRaises(j)

HandlerStep(r) == ClaimSelects(r) \/ ClaimUpdates(r) \/ PromoteSelects(r) \/ PromoteUpdates(r)

WatcherStep(w) == Join(w) \/ Receive(w)

Next ==
    \/ Submit
    \/ RunStep
    \/ \E j \in Jobs : Operate(j) \/ NodeEvent(j) \/ ExecStep(j) \/ Crash(j)
    \/ \E r \in Resumes : ResumeRequested(r) \/ ResumeCalled(r) \/ HandlerStep(r)
    \/ \E w \in Watchers : Subscribe(w) \/ WatcherStep(w)

Spec == Init /\ [][Next]_vars

\* Started handlers, jobs and streams go on, and the planner and the executor
\* answer: model and tool calls have timeouts.  Nobody needs to connect,
\* resume or submit.
FairSpec ==
    /\ Spec
    /\ WF_vars(RunStep)
    /\ \A j \in Jobs : WF_vars(Operate(j)) /\ WF_vars(ExecStep(j))
    /\ \A r \in Resumes : WF_vars(HandlerStep(r))
    /\ \A w \in Watchers : WF_vars(WatcherStep(w))

-----------------------------------------------------------------------------
(* Properties. *)

\* Some job or claim is under way.
Alive == \E j \in Jobs : pc[j] \notin {"away", "refused", "done", "dead"}

\* However many clients resume it, and whether the store is shared or not, a
\* task enters the executor at most once.
OneExecution == Cardinality(started) <= 1

\* The recorded outcome of a task is never overwritten by a slower job.
OutcomeIsFinal == [][(row \in Terminal) => UNCHANGED row]_vars

\* A task at rest leaves no stream behind: one that is still open has the
\* event after which it closes (docs/streaming.md) in its queue.
EndIsQueued ==
    ~Alive /\ row \in {"completed", "failed", "awaiting_confirmation"} =>
        \A w \in Watchers : stream[w] = "streaming" =>
            \E i \in 1..Len(queue[w]) : queue[w][i] \in TerminalEvents

\* So it is however many events a full queue has shed (Subscription.deliver),
\* unless node tasks that Executor.execute left behind when it raised have
\* published a whole queue of events since.
EndNeverShed == late < MaxQueue => EndIsQueued

\* A stream that is open before a task is rejected closes in the end, unless
\* node tasks left behind flooded it (_event_source, Subscription.deliver).
StreamsClose ==
    \A w \in Watchers :
        stream[w] = "streaming" /\ row # "rejected" ~> stream[w] = "closed" \/ late = MaxQueue

\* A client that connects after the task has finished is answered with its end
\* at once (docs/streaming.md): it never waits for events of a task that has
\* none to come.  _terminal_snapshot has nothing for a rejected task.
LateClientsAnswered ==
    [][\A w \in Watchers : stream[w] = "joining" /\ row \in Terminal => stream'[w] # "streaming"]_vars

\* A task is left in a status no entry point takes it out of (planning,
\* resuming, executing, with no job for it) only if a worker died: a claim
\* that loses, a job that finds the task promoted, a planner or an executor
\* that raises never strand it (Orchestrator.run and resume).
StuckOnlyByCrash ==
    ~Alive /\ row \notin Terminal \cup Resumable \cup {"absent"} =>
        \E j \in Jobs : pc[j] = "dead"

=============================================================================
