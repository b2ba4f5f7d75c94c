------------------------------- MODULE AcpTurn -------------------------------
(***************************************************************************)
(* The turns of one ACP session (gateways/acp/server.py, session.py,       *)
(* mapping.py): each session/prompt runs a task with Orchestrator.run, and *)
(* a loop turns the task's events into updates for the client, asks it to  *)
(* approve the plan (resume, revise or refuse) and every guarded tool call *)
(* (executor/tool_approval.py), and watches for session/cancel.            *)
(*                                                                         *)
(* Everything runs on one event loop over the in-memory store, so an       *)
(* action here is what happens between two suspensions.  The orchestrator  *)
(* coroutine a turn awaits is its `driver'; the tool calls of the plan are *)
(* asyncio tasks of their own, which outlive a cancelled driver.           *)
(*                                                                         *)
(* Abstracted: the plan is its set of guarded calls, independent of each   *)
(* other; what else the executor does shows as notices on the event queue; *)
(* planning is one step (TaskLifecycle has its attempts); texts.           *)
(***************************************************************************)
EXTENDS Integers, Sequences, FiniteSets

CONSTANTS
    Turns,          \* session/prompt requests of the session
    Calls,          \* guarded tool calls of every plan
    Nested,         \* those inside a subplan
    Twins,          \* those that use the one tool several of them use
    MaxQueue,       \* EventBus max_queue
    MaxNotices,     \* bound: events of other nodes per turn
    MaxRevisions,   \* bound: revisions per turn
    MayClose,       \* the client may go away
    Nobody          \* no turn

ASSUME CallsAssumption == Nested \subseteq Calls /\ Twins \subseteq Calls
ASSUME TurnBoundsAssumption ==
    MaxQueue \in Nat \ {0} /\ MaxNotices \in Nat /\ MaxRevisions \in Nat
ASSUME NobodyAssumption == Nobody \notin Turns
ASSUME MayCloseAssumption == MayClose \in BOOLEAN

ToolOf(c) == IF c \in Twins THEN "twin" ELSE c
Tools     == {ToolOf(c) : c \in Calls}

VARIABLES
    stdin,      \* the client's end of the connection: "open" or "closed"
    turn,       \* per turn: where its handler is
    asked,      \* per turn: the call the client is asked about
    stop,       \* per turn: its stop reason
    cancels,    \* AcpServer._cancels of the session: whose event it holds
    cancel,     \* turns whose cancel event is set
    carried,    \* Session.carried_context: whose output
    basis,      \* per turn: whose output its request was composed with
    queue,      \* per turn: its subscription's queue
    shed,       \* turns whose subscription dropped events
    notices,    \* per turn: events of other nodes so far
    driver,     \* per turn: the orchestrator coroutine
    row,        \* per turn: status of its task's row
    output,     \* turns whose row holds a final output
    revisions,  \* per turn: revisions asked for
    approved,   \* per turn: the revision the client approved, -1 for none
    call,       \* per turn and call: the node's task
    answer,     \* per turn and call: the broker's future
    always,     \* ToolApprovalBroker._always_allow
    allowed,    \* calls the client said yes to
    view,       \* per turn and call: the plan entry the client last saw
    outputs     \* turns and calls whose result the client was sent

brokerVars == <<answer, always, allowed>>
taskVars   == <<driver, row, output, revisions, approved>>
turnVars   == <<turn, asked, stop, cancels, cancel, carried, basis>>
busVars    == <<queue, shed, notices>>
vars == <<stdin, turnVars, busVars, taskVars, call, brokerVars, view, outputs>>

NoCall == "none"
Event(k, c) == [kind |-> k, call |-> c]
Plain(k)    == Event(k, NoCall)

Terminal == {"completed", "failed", "plan_failed", "plan_rejected"}
Events == {Plain(k) : k \in Terminal \cup {"notice", "plan_ready", "awaiting"}}
          \cup {Event(k, c) : k \in {"approval", "started", "finished"}, c \in Calls}

TypeOK ==
    /\ stdin \in {"open", "closed"}
    /\ turn \in [Turns -> {"away", "loop", "waiting", "gate", "asking", "closing", "done"}]
    /\ asked \in [Turns -> Calls \cup {NoCall}]
    /\ stop \in [Turns -> {"none", "end_turn", "cancelled", "refusal", "error"}]
    /\ cancels \in Turns \cup {Nobody}
    /\ carried \in Turns \cup {Nobody}
    /\ basis \in [Turns -> Turns \cup {Nobody}]
    /\ cancel \subseteq Turns /\ shed \subseteq Turns /\ output \subseteq Turns
    /\ queue \in [Turns -> Seq(Events)]
    /\ \A t \in Turns : Len(queue[t]) <= MaxQueue
    /\ notices \in [Turns -> 0..MaxNotices]
    /\ driver \in [Turns -> {"none", "planning", "executing", "cancelling", "done"}]
    /\ row \in [Turns -> {"absent", "planning", "awaiting_confirmation", "executing",
                          "completed", "failed", "rejected", "cancelled"}]
    /\ revisions \in [Turns -> 0..MaxRevisions]
    /\ approved \in [Turns -> -1..MaxRevisions]
    /\ call \in [Turns -> [Calls -> {"idle", "dispatched", "ready", "asking", "running",
                                     "finished", "failed", "denied"}]]
    /\ answer \in [Turns -> [Calls -> {"none", "pending", "yes", "no"}]]
    /\ always \subseteq Tools
    /\ allowed \subseteq Turns \X Calls
    /\ view \in [Turns -> [Calls -> {"absent", "pending", "in_progress", "completed",
                                     "completed_failed"}]]
    /\ outputs \subseteq Turns \X Calls

Live(t)  == turn[t] \notin {"away", "done"}
AllCalls(x) == [c \in Calls |-> x]

Init ==
    /\ stdin = "open"
    /\ turn = [t \in Turns |-> "away"]
    /\ asked = [t \in Turns |-> NoCall]
    /\ stop = [t \in Turns |-> "none"]
    /\ cancels = Nobody /\ carried = Nobody
    /\ basis = [t \in Turns |-> Nobody]
    /\ cancel = {} /\ shed = {} /\ output = {}
    /\ queue = [t \in Turns |-> <<>>]
    /\ notices = [t \in Turns |-> 0]
    /\ driver = [t \in Turns |-> "none"]
    /\ row = [t \in Turns |-> "absent"]
    /\ revisions = [t \in Turns |-> 0]
    /\ approved = [t \in Turns |-> -1]
    /\ call = [t \in Turns |-> AllCalls("idle")]
    /\ answer = [t \in Turns |-> AllCalls("none")]
    /\ always = {} /\ allowed = {}
    /\ view = [t \in Turns |-> AllCalls("absent")]
    /\ outputs = {}

-----------------------------------------------------------------------------
(* The event bus (events/bus.py). *)

\* Subscription.deliver of several events: the newest MaxQueue of them stay.
Newest(q) == IF Len(q) > MaxQueue THEN SubSeq(q, Len(q) - MaxQueue + 1, Len(q)) ELSE q

\* EventBus.publish to the subscription of turn t; nobody reads the queue of
\* a turn that is closing.
Publish(t, events) ==
    LET q == queue[t] \o events IN
    /\ queue' = IF Live(t) /\ turn[t] # "closing" THEN [queue EXCEPT ![t] = Newest(q)] ELSE queue
    /\ shed' = IF Live(t) /\ turn[t] # "closing" /\ Len(q) > MaxQueue
               THEN shed \cup {t} ELSE shed

-----------------------------------------------------------------------------
(* The orchestrator coroutine a turn drives (executor/orchestrator.py). *)

\* The planner finds no plan, declines the task, or raises.
PlanningEnds(t) ==
    /\ driver[t] = "planning"
    /\ \E e \in {"plan_failed", "plan_rejected", "failed"} :
          /\ Publish(t, <<Plain(e)>>)
          /\ row' = [row EXCEPT ![t] = IF e = "plan_rejected" THEN "rejected" ELSE "failed"]
    /\ driver' = [driver EXCEPT ![t] = "done"]
    /\ UNCHANGED <<stdin, turnVars, notices, output, revisions, approved, call,
                   brokerVars, view, outputs>>

\* A bug to catch: a revised plan is not shown again.
PresentOnce(t) ==
    /\ driver[t] = "planning"
    /\ IF revisions[t] = 0
       THEN /\ Publish(t, <<Plain("plan_ready"), Plain("awaiting")>>)
            /\ row' = [row EXCEPT ![t] = "awaiting_confirmation"]
            /\ driver' = [driver EXCEPT ![t] = "done"]
            /\ UNCHANGED call
       ELSE /\ Publish(t, <<Plain("plan_ready")>>)
            /\ row' = [row EXCEPT ![t] = "executing"]
            /\ driver' = [driver EXCEPT ![t] = "executing"]
            /\ call' = [call EXCEPT ![t] = AllCalls("dispatched")]
    /\ UNCHANGED <<stdin, turnVars, notices, output, revisions, approved, brokerVars,
                   view, outputs>>

\* _present_or_execute: ACP always confirms, so the coroutine returns at the gate.
PresentPlan(t) ==
    /\ driver[t] = "planning"
    /\ Publish(t, <<Plain("plan_ready"), Plain("awaiting")>>)
    /\ row' = [row EXCEPT ![t] = "awaiting_confirmation"]
    /\ driver' = [driver EXCEPT ![t] = "done"]
    /\ UNCHANGED <<stdin, turnVars, notices, output, revisions, approved, call,
                   brokerVars, view, outputs>>

Finished(t) == {c \in Calls : call[t][c] \in {"finished", "failed", "denied"}}

\* The row is saved when the coroutine ends.
DriverEnds(t, status) ==
    /\ driver' = [driver EXCEPT ![t] = "done"]
    /\ row' = [row EXCEPT ![t] = status]
    /\ UNCHANGED <<stdin, turnVars, notices, revisions, approved, call, brokerVars, view, outputs>>

\* Executor.execute has every result; there may be no final output.
ExecuteReturns(t) ==
    /\ driver[t] = "executing"
    /\ Finished(t) = Calls
    /\ Publish(t, <<Plain("completed")>>)
    /\ output' \in {output, output \cup {t}}
    /\ DriverEnds(t, "completed")

\* A node's task raises, or the plan is stuck.
ExecuteRaises(t) ==
    /\ driver[t] = "executing"
    /\ Publish(t, <<Plain("failed")>>)
    /\ UNCHANGED output
    /\ DriverEnds(t, "failed")

\* _mark_cancelled, and the save of the finally clause.  The event it
\* publishes finds no reader.
DriverCancelled(t) ==
    /\ driver[t] = "cancelling"
    /\ UNCHANGED <<queue, shed, output>>
    /\ DriverEnds(t, "cancelled")

\* Output chunks and events of the other nodes of the plan; those in flight
\* go on when the executor has raised.
Notice(t) ==
    /\ driver[t] = "executing" \/ (row[t] = "failed" /\ call[t] # AllCalls("idle"))
    /\ notices[t] < MaxNotices
    /\ notices' = [notices EXCEPT ![t] = @ + 1]
    /\ Publish(t, <<Plain("notice")>>)
    /\ UNCHANGED <<stdin, turnVars, taskVars, call, brokerVars, view, outputs>>

-----------------------------------------------------------------------------
(* A guarded tool call (Executor._execute_tool) and the approval broker. *)

CallStep(t, c, from, to) ==
    /\ call[t][c] = from
    /\ call' = [call EXCEPT ![t][c] = to]
    /\ UNCHANGED <<stdin, turnVars, notices, taskVars, always, allowed, view, outputs>>

\* The node's task runs; a nested node's events carry its path.
CallStarts(t, c) ==
    /\ CallStep(t, c, "dispatched", "ready")
    /\ Publish(t, <<Event("started", c)>>)
    /\ UNCHANGED answer

\* _approve_tool_call: the tool was allowed for good.
CallNeedsNoAnswer(t, c) ==
    /\ ToolOf(c) \in always
    /\ CallStep(t, c, "ready", "running")
    /\ UNCHANGED <<queue, shed, answer>>

\* ToolApprovalBroker.request publishes under the task id of the plan the
\* node belongs to; a subplan has its own, which no turn subscribes to.
CallAsks(t, c) ==
    /\ ToolOf(c) \notin always
    /\ CallStep(t, c, "ready", "asking")
    /\ answer' = [answer EXCEPT ![t][c] = "pending"]
    /\ IF c \in Nested THEN UNCHANGED <<queue, shed>> ELSE Publish(t, <<Event("approval", c)>>)

CallAllowed(t, c) ==
    /\ answer[t][c] = "yes"
    /\ CallStep(t, c, "asking", "running")
    /\ UNCHANGED <<queue, shed, answer>>

CallDenied(t, c) ==
    /\ answer[t][c] = "no"
    /\ CallStep(t, c, "asking", "denied")
    /\ Publish(t, <<Event("finished", c)>>)
    /\ UNCHANGED answer

\* ToolHarness.execute returns or raises; either is recorded as the node's
\* result, a failed one in the second case.
CallReturns(t, c) ==
    /\ \E to \in {"finished", "failed"} : CallStep(t, c, "running", to)
    /\ Publish(t, <<Event("finished", c)>>)
    /\ UNCHANGED answer

\* A bug to catch: an answer goes to every future of the turn.
ResolveAll(t, c, yes) ==
    answer' = [answer EXCEPT ![t] = [d \in Calls |->
                 IF @[d] = "pending" THEN IF yes THEN "yes" ELSE "no" ELSE @[d]]]

\* ToolApprovalBroker.resolve.
Resolve(t, c, yes) ==
    answer' = IF answer[t][c] = "pending"
              THEN [answer EXCEPT ![t][c] = IF yes THEN "yes" ELSE "no"] ELSE answer

-----------------------------------------------------------------------------
(* The client. *)

\* session/prompt: _run_turn saves the task, registers its cancel event over
\* any other of the session, starts Orchestrator.run and subscribes.  The
\* coroutine first runs when the turn suspends, so planning_started is heard.
\* Nothing keeps a client from prompting while another turn is running.
Prompt(t) ==
    /\ stdin = "open"
    /\ turn[t] = "away"
    /\ turn' = [turn EXCEPT ![t] = "loop"]
    /\ basis' = [basis EXCEPT ![t] = carried]
    /\ cancels' = t
    /\ row' = [row EXCEPT ![t] = "planning"]
    /\ driver' = [driver EXCEPT ![t] = "planning"]
    /\ queue' = [queue EXCEPT ![t] = <<Plain("notice")>>]
    /\ UNCHANGED <<stdin, asked, stop, cancel, carried, shed, notices, output, revisions,
                   approved, call, brokerVars, view, outputs>>

\* session/cancel.
Cancel ==
    /\ stdin = "open"
    /\ cancel' = IF cancels = Nobody THEN cancel ELSE cancel \cup {cancels}
    /\ UNCHANGED <<stdin, turn, asked, stop, cancels, carried, basis, busVars, taskVars, call,
                   brokerVars, view, outputs>>

\* The client closes the connection; serve waits for the turns in flight.
CloseStdin ==
    /\ MayClose
    /\ stdin = "open"
    /\ stdin' = "closed"
    /\ UNCHANGED <<turnVars, busVars, taskVars, call, brokerVars, view, outputs>>

-----------------------------------------------------------------------------
(* The turn loop (_run_turn). *)

\* The finally clause: the session's cancel event is popped, whosever it is,
\* and a driver that is not done is cancelled.
EndTurn(t, reason) ==
    /\ turn' = [turn EXCEPT ![t] = "closing"]
    /\ stop' = [stop EXCEPT ![t] = reason]
    /\ cancels' = Nobody
    /\ queue' = [queue EXCEPT ![t] = <<>>]
    /\ driver' = [driver EXCEPT ![t] = IF @ = "done" THEN "done" ELSE "cancelling"]

GoOn(t, to) ==
    /\ turn' = [turn EXCEPT ![t] = to]
    /\ queue' = [queue EXCEPT ![t] = Tail(@)]
    /\ UNCHANGED <<stop, cancels, driver>>

\* PlanTracker.load: all entries pending.
Load(t) == view' = [view EXCEPT ![t] = AllCalls("pending")]

\* PlanTracker.entries of a node that ended: the only plan status for that is
\* completed, and (failed) is added to the text.
EntryOf(t, c) == IF call[t][c] = "finished" THEN "completed" ELSE "completed_failed"

\* A bug to catch: every entry keeps its text.
TranslateUnmarked(t, e) ==
    view' = [view EXCEPT ![t][e.call] = IF e.kind = "started" THEN "in_progress" ELSE "completed"]

\* PlanTracker.start and finish.
TranslateNode(t, e) ==
    view' = [view EXCEPT ![t][e.call] =
               IF e.kind = "started" THEN "in_progress" ELSE EntryOf(t, e.call)]

\* _emit_node_output reads the result from the task's row.  It has none while
\* the task runs, and when it failed those recorded before, whose events come
\* before the one that tells of the failure.
EmitOutput(t, e) ==
    outputs' = IF /\ e.kind = "finished"
                  /\ row[t] = "completed" \/ \E i \in 1..Len(queue[t]) : queue[t][i].kind = "failed"
               THEN outputs \cup {<<t, e.call>>} ELSE outputs

\* _translate: nested node events are filtered out.
Translate(t, e) ==
    \/ /\ e.kind \in {"started", "finished"} /\ e.call \notin Nested
       /\ TranslateNode(t, e)
       /\ EmitOutput(t, e)
    \/ /\ e.kind = "plan_ready"
       /\ Load(t)
       /\ UNCHANGED outputs
    \/ /\ e.kind = "notice" \/ e.call \in Nested
       /\ UNCHANGED <<view, outputs>>

\* Not seen before the turn suspends: sub.__anext__ finds an event at once.
Awake(t) == turn[t] \in {"loop", "waiting"}

TakesEvent(t) ==
    /\ Awake(t)
    /\ queue[t] # <<>>
    /\ UNCHANGED <<stdin, cancel, carried, basis, shed, notices, row, output, revisions,
                   approved, call, brokerVars>>

HandleUpdate(t) ==
    /\ TakesEvent(t)
    /\ Translate(t, Head(queue[t]))
    /\ GoOn(t, "loop")
    /\ UNCHANGED asked

HandleTerminal(t) ==
    /\ TakesEvent(t)
    /\ Head(queue[t]).kind \in Terminal
    /\ EndTurn(t, "end_turn")
    /\ UNCHANGED <<asked, view, outputs>>

\* session/request_permission goes out and the turn waits for the answer.
HandleGate(t) ==
    /\ TakesEvent(t)
    /\ Head(queue[t]).kind = "awaiting"
    /\ GoOn(t, "gate")
    /\ UNCHANGED <<asked, view, outputs>>

HandleToolApproval(t) ==
    /\ TakesEvent(t)
    /\ Head(queue[t]).kind = "approval"
    /\ GoOn(t, "asking")
    /\ asked' = [asked EXCEPT ![t] = Head(queue[t]).call]
    /\ UNCHANGED <<view, outputs>>

\* _next_event suspends.
Suspend(t) ==
    /\ turn[t] = "loop"
    /\ queue[t] = <<>> /\ t \notin cancel
    /\ turn' = [turn EXCEPT ![t] = "waiting"]
    /\ UNCHANGED <<stdin, asked, stop, cancels, cancel, carried, basis, busVars, taskVars, call,
                   brokerVars, view, outputs>>

\* Cancellation fires first.  An event already there wins, unless both
\* arrive while the turn is suspended.
TakeCancel(t) ==
    /\ Awake(t)
    /\ t \in cancel
    /\ turn[t] = "loop" => queue[t] = <<>>
    /\ EndTurn(t, "cancelled")
    /\ UNCHANGED <<stdin, asked, cancel, carried, basis, shed, notices, row, output,
                   revisions, approved, call, brokerVars, view, outputs>>

-----------------------------------------------------------------------------
(* The client's answers. *)

Answers(t, at) ==
    /\ stdin = "open"
    /\ turn[t] = at
    /\ UNCHANGED <<stdin, cancel, carried, basis, shed, notices, output, view, outputs>>

\* Approve: Orchestrator.resume claims the row and the executor dispatches.
GateApproved(t) ==
    /\ Answers(t, "gate")
    /\ turn' = [turn EXCEPT ![t] = "loop"]
    /\ approved' = [approved EXCEPT ![t] = revisions[t]]
    /\ IF row[t] = "awaiting_confirmation"
       THEN /\ row' = [row EXCEPT ![t] = "executing"]
            /\ driver' = [driver EXCEPT ![t] = "executing"]
            /\ call' = [call EXCEPT ![t] = AllCalls("dispatched")]
       ELSE UNCHANGED <<row, driver, call>>
    /\ UNCHANGED <<asked, stop, cancels, queue, revisions, brokerVars>>

\* Reject with feedback: Orchestrator.revise plans again.
GateRevised(t) ==
    /\ Answers(t, "gate")
    /\ revisions[t] < MaxRevisions
    /\ row[t] = "awaiting_confirmation"
    /\ turn' = [turn EXCEPT ![t] = "loop"]
    /\ revisions' = [revisions EXCEPT ![t] = @ + 1]
    /\ driver' = [driver EXCEPT ![t] = "planning"]
    /\ queue' = [queue EXCEPT ![t] = Newest(Append(@, Plain("notice")))]
    /\ UNCHANGED <<asked, stop, cancels, row, approved, call, brokerVars>>

\* Reject, any other answer, or an error response, which ends the request
\* with an error of its own.
GateDeclined(t) ==
    /\ Answers(t, "gate")
    /\ \E reason \in {"refusal", "cancelled", "error"} : EndTurn(t, reason)
    /\ UNCHANGED <<asked, row, revisions, approved, call, brokerVars>>

ToolAnswers(t) ==
    /\ Answers(t, "asking")
    /\ asked' = [asked EXCEPT ![t] = NoCall]
    /\ UNCHANGED <<row, revisions, approved, call>>

BackToLoop(t) ==
    /\ turn' = [turn EXCEPT ![t] = "loop"]
    /\ UNCHANGED <<stop, cancels, queue, driver>>

\* allow_once and always_allow.
ToolAllowed(t) ==
    /\ ToolAnswers(t)
    /\ BackToLoop(t)
    /\ Resolve(t, asked[t], TRUE)
    /\ allowed' = allowed \cup {<<t, asked[t]>>}
    /\ always' \in {always, always \cup {ToolOf(asked[t])}}

\* A bug to catch: a denial leaves the future alone.
ToolDeniedSilently(t) ==
    /\ ToolAnswers(t)
    /\ BackToLoop(t)
    /\ UNCHANGED brokerVars

\* deny, and everything else.
ToolDenied(t) ==
    /\ ToolAnswers(t)
    /\ BackToLoop(t)
    /\ Resolve(t, asked[t], FALSE)
    /\ UNCHANGED <<allowed, always>>

\* An error response.
ToolAnswerFails(t) ==
    /\ ToolAnswers(t)
    /\ EndTurn(t, "error")
    /\ UNCHANGED brokerVars

\* A bug to catch: whatever the task came to is carried.
FinishTurnCarries(t) ==
    /\ turn[t] = "closing"
    /\ driver[t] = "done"
    /\ turn' = [turn EXCEPT ![t] = "done"]
    /\ carried' = t
    /\ UNCHANGED <<stdin, asked, stop, cancels, cancel, basis, busVars, taskVars, call,
                   brokerVars, view, outputs>>

\* A bug to catch: the driver is cancelled and not awaited.
FinishTurnEarly(t) ==
    /\ turn[t] = "closing"
    /\ turn' = [turn EXCEPT ![t] = "done"]
    /\ carried' = IF t \in output THEN t ELSE carried
    /\ UNCHANGED <<stdin, asked, stop, cancels, cancel, basis, busVars, taskVars, call,
                   brokerVars, view, outputs>>

\* The driver is drained; the task's final output is carried forward and the
\* request answered.
FinishTurn(t) ==
    /\ turn[t] = "closing"
    /\ driver[t] = "done"
    /\ turn' = [turn EXCEPT ![t] = "done"]
    /\ carried' = IF t \in output THEN t ELSE carried
    /\ UNCHANGED <<stdin, asked, stop, cancels, cancel, basis, busVars, taskVars, call,
                   brokerVars, view, outputs>>

-----------------------------------------------------------------------------
DriverStep(t) ==
    \/ PlanningEnds(t)
    \/ PresentPlan(t)
    \/ ExecuteReturns(t)
    \/ DriverCancelled(t)

CallSteps(t, c) ==
    \/ CallStarts(t, c)
    \/ CallNeedsNoAnswer(t, c)
    \/ CallAsks(t, c)
    \/ CallAllowed(t, c)
    \/ CallDenied(t, c)
    \/ CallReturns(t, c)

LoopStep(t) ==
    \/ HandleUpdate(t)
    \/ HandleTerminal(t)
    \/ HandleGate(t)
    \/ HandleToolApproval(t)
    \/ Suspend(t)
    \/ TakeCancel(t)
    \/ FinishTurn(t)

ClientAnswer(t) ==
    \/ GateApproved(t)
    \/ GateRevised(t)
    \/ GateDeclined(t)
    \/ ToolAllowed(t)
    \/ ToolDenied(t)
    \/ ToolAnswerFails(t)

Next ==
    \/ Cancel
    \/ CloseStdin
    \/ \E t \in Turns :
          \/ Prompt(t)
          \/ DriverStep(t)
          \/ ExecuteRaises(t)
          \/ Notice(t)
          \/ LoopStep(t)
          \/ ClientAnswer(t)
          \/ \E c \in Calls : CallSteps(t, c)

Spec == Init /\ [][Next]_vars

\* The loop, the coroutine and the node tasks go on, model and tool calls
\* come back (they have timeouts), and a client that is there answers.
\* Nobody needs to prompt, cancel or hang up, and no execution must raise.
FairSpec ==
    /\ Spec
    /\ \A t \in Turns :
          /\ WF_vars(DriverStep(t))
          /\ WF_vars(LoopStep(t))
          /\ WF_vars(ClientAnswer(t))
          /\ \A c \in Calls : WF_vars(CallSteps(t, c))

-----------------------------------------------------------------------------
(* Properties. *)

Ran(t, c) == call[t][c] \in {"running", "finished", "failed"}

\* A guarded tool runs only after the client said yes to that very call, or
\* allowed the tool for good, however many calls wait at once, in which order
\* they are answered, and whether or not the turn that asked is still there.
NothingUnapproved ==
    \A t \in Turns, c \in Calls : Ran(t, c) => <<t, c>> \in allowed \/ ToolOf(c) \in always

\* No node of a plan is dispatched unless the client approved that plan, the
\* last revision of it, at the gate.
OnlyApprovedPlans ==
    \A t \in Turns : (\E c \in Calls : call[t][c] # "idle") => approved[t] = revisions[t]

\* A turn that has answered leaves its task settled: nothing drives it any
\* more, its row has an outcome or waits at the gate, and end_turn is only
\* said of an outcome that is recorded.
AnsweredIsSettled ==
    \A t \in Turns : turn[t] = "done" =>
        /\ driver[t] = "done"
        /\ row[t] \in {"completed", "failed", "rejected", "cancelled", "awaiting_confirmation"}
        /\ stop[t] = "end_turn" => row[t] \in {"completed", "failed", "rejected"}

\* A follow-up prompt is composed with the recorded final output of a
\* completed task, never with what a cancelled or failed turn left.
BuildsOnFinished ==
    \A t \in Turns : basis[t] # Nobody => row[basis[t]] = "completed" /\ basis[t] \in output

\* Turns that ended with a completed task and of which the client missed nothing.
ToldAll(t) == stop[t] = "end_turn" /\ row[t] = "completed" /\ t \notin shed

\* When a task completes, the plan the client is left with tells for every
\* call whether it succeeded (PlanTracker.entries): none is left open, and
\* exactly those that failed or were denied say (failed), whatever waited in
\* the queue and whichever revision was shown before.
EntriesTellOutcomes ==
    \A t \in Turns : ToldAll(t) =>
        \A c \in Calls \ Nested :
            /\ view[t][c] \notin {"absent", "pending", "in_progress"}
            /\ view[t][c] = "completed" <=> call[t][c] = "finished"

\* gateways/acp/mapping.py: "``failed`` has no plan equivalent and is surfaced
\* by the server as a message plus the turn's stop reason": a turn with a
\* failed call does not end as one that went well.
FailuresSurfaced ==
    \A t \in Turns : ToldAll(t) =>
        \A c \in Calls \ Nested : call[t][c] \notin {"failed", "denied"}

\* CHANGELOG.md: "The adapter sends tool `rawInput`/`rawOutput` and a
\* `node_meta` extension update on node completion": a completed task's
\* results have all been sent.
OutputsArrive ==
    \A t \in Turns : ToldAll(t) =>
        \A c \in Calls \ Nested : call[t][c] = "finished" => <<t, c>> \in outputs

\* A prompt is answered in the end, as long as the client is there to answer.
PromptsAnswered == \A t \in Turns : Live(t) ~> turn[t] = "done" \/ stdin = "closed"

\* docs/architecture.md: "Interactive ACP clients receive permission requests
\* before guarded calls": a call that waits is asked about, or its turn ends.
CallsAreAsked ==
    \A t \in Turns, c \in Calls :
        answer[t][c] = "pending" ~> asked[t] = c \/ turn[t] \in {"closing", "done"}
                                    \/ stdin = "closed"

=============================================================================
