------------------------------- MODULE Planning -------------------------------
(***************************************************************************)
(* Planning a task: Orchestrator._plan_with_retry and its callers          *)
(* (executor/orchestrator.py), Planner.plan_attempt with the repair of the *)
(* model's payload (planner/planner.py), and the validator, module         *)
(* PlanValidator, that decides on every payload.                           *)
(*                                                                         *)
(* A feedback text is named by the attempt it was made from (Never for     *)
(* None).  The prompts and the wording of errors and of feedback are left  *)
(* out: what the model may answer is a plan of the constant Payloads or    *)
(* one of the other Answers.  Saves and events are in TaskLifecycle.       *)
(***************************************************************************)
EXTENDS PlanValidator

CONSTANTS
    Payloads,            \* the plans, as JSON says them, the model may answer with
    MaxReplanAttempts,   \* settings.max_replan_attempts
    MaxRevisions         \* bound on the user's revisions of one task

\* A nested plan hangs off a node that comes before its own nodes.
WellNested(p) ==
    \A k \in DOMAIN p : p[k].scope < k /\ (p[k].scope # Outer => p[p[k].scope].subplan)

\* A node without the fields of a decision (branches is None) lists no branches.
BranchesDeclared(p) ==
    \A k \in DOMAIN p : p[k].decision = "none" => \A b \in YesNo : p[k].branches[b] = {}

ASSUME PlanningAssumption ==
    /\ MaxReplanAttempts \in Nat /\ MaxRevisions \in Nat
    /\ \A p \in Payloads : p \in Seq(NodeShape) /\ WellNested(p) /\ BranchesDeclared(p)

VARIABLES
    conditional,                \* the request reads like "if ..., otherwise ..."
    status,                     \* state.status
    phase,                      \* idle, asking the model, validating its plan
    attempt,                    \* the loop variable of _plan_with_retry
    prior_reasoning,            \* the stalled attempt quoted to the model
    validation_feedback,        \* the invalid attempt explained to the model
    rejected_answer_feedback,   \* the mistaken rejection answered with guidance
    thinking,                   \* whether the next call may reason at length
    recorded,                   \* the last of state.planning_attempts, and its number
    payload,                    \* the model's plan before the repair
    revisions

vars == <<conditional, status, phase, attempt, prior_reasoning, validation_feedback,
          rejected_answer_feedback, thinking, recorded, payload, revisions,
          plan, stage, stack, in_degree, queue, sorted, order, verdict>>

Never    == -1
Attempts == MaxReplanAttempts + 1

\* What a planner call may come to other than a JSON plan, and its error_type:
\* output over the stall limit, short output that is no JSON, JSON that is no object,
\* a node that is no Node, a refusal that names an answerable request or not.
Answers == {"timeout", "stall", "json", "not_object", "malformed", "answerable", "refused"}
ErrorType(answer) ==
    IF answer \in {"timeout", "stall", "json"} THEN answer
    ELSE IF answer \in {"not_object", "malformed"} THEN "schema"
    ELSE IF answer \in {"answerable", "refused"} THEN "rejection"
    ELSE "validation"

Ended == {"awaiting_confirmation", "executing", "rejected", "failed", "cancelled"}

-----------------------------------------------------------------------------
(***************************************************************************)
(* _repair_plan_payload: a plan without a RESULT node that ends in exactly *)
(* one SYNTHESIS node gets one that returns it, nested plans first.  (The  *)
(* missing descriptions it also fills in are not modelled.)                *)
(***************************************************************************)
Referenced(p, s) ==
    UNION {p[k].context_needed \cup p[k].branches["yes"] \cup p[k].branches["no"] : k \in MembersOf(p, s)}

TerminalSyntheses(p, s) ==
    {k \in MembersOf(p, s) : p[k].type = "synthesis" /\ p[k].id \notin Referenced(p, s)}

Incomplete(p) ==
    {s \in {Outer} \cup {k \in DOMAIN p : p[k].subplan} :
        /\ \A k \in MembersOf(p, s) : p[k].type # "result"
        /\ Cardinality(TerminalSyntheses(p, s)) = 1}

NextId(p, s) == 1 + CHOOSE i \in IdsOf(p, s) : \A j \in IdsOf(p, s) : j <= i

\* A bug to catch: the new node takes the number of nodes, an id that may be in use.
ResultNodeByCount(p, s) ==
    [id |-> Cardinality(MembersOf(p, s)), type |-> "result", scope |-> s,
     context_needed |-> {p[k].id : k \in TerminalSyntheses(p, s)},
     branches |-> [b \in YesNo |-> {}], decision |-> "none", tool |-> "none",
     forced_tier |-> "none", subplan |-> FALSE]

ResultNode(p, s) ==
    [id |-> NextId(p, s), type |-> "result", scope |-> s,
     context_needed |-> {p[k].id : k \in TerminalSyntheses(p, s)},
     branches |-> [b \in YesNo |-> {}], decision |-> "none", tool |-> "none",
     forced_tier |-> "none", subplan |-> FALSE]

Repaired(p) ==
    {p \o [i \in 1..Cardinality(Incomplete(p)) |-> ResultNode(p, q[i])] : q \in Ascending(Incomplete(p))}

-----------------------------------------------------------------------------
Init ==
    /\ ValidatorInit
    /\ conditional \in BOOLEAN
    /\ status = "pending" /\ phase = "idle" /\ attempt = 0
    /\ prior_reasoning = Never /\ validation_feedback = Never
    /\ rejected_answer_feedback = Never /\ thinking = FALSE
    /\ recorded = [answer |-> "none", attempt |-> Never]
    /\ payload = <<>> /\ revisions = 0

\* The plan is dropped, with the frames of its validation.
Discard ==
    /\ payload' = <<>>
    /\ plan' = <<>> /\ stage' = "idle" /\ stack' = <<>> /\ in_degree' = <<>>
    /\ queue' = <<>> /\ sorted' = <<>> /\ order' = <<>> /\ verdict' = "none"

\* _plan_with_retry starts, for run or for revise.
StartPlanning ==
    /\ status' = "planning" /\ phase' = "asking" /\ attempt' = 0
    /\ prior_reasoning' = Never /\ validation_feedback' = Never
    /\ rejected_answer_feedback' = Never /\ thinking' = FALSE
    /\ Discard
    /\ UNCHANGED <<conditional, recorded>>

Run ==
    /\ status = "pending"
    /\ StartPlanning
    /\ UNCHANGED revisions

Revise ==
    /\ status = "awaiting_confirmation"
    /\ revisions < MaxRevisions
    /\ revisions' = revisions + 1
    /\ StartPlanning

\* The loop is left.
Settle(outcome) ==
    /\ status' = outcome
    /\ phase' = "idle"
    /\ UNCHANGED <<attempt, prior_reasoning, validation_feedback, rejected_answer_feedback, thinking>>

\* The loop goes round, or is over: planning failed.
Continue ==
    IF attempt + 1 < Attempts
    THEN status' = status /\ phase' = "asking" /\ attempt' = attempt + 1
    ELSE status' = "failed" /\ phase' = "idle" /\ attempt' = attempt

\* _save_planning_attempt.
Record(answer) ==
    recorded' = [answer  |-> IF answer \in {"plan", "answerable", "refused"} THEN answer ELSE "failure",
                 attempt |-> attempt]

\* A bug to catch: only the text the new error calls for is replaced.
RetryWithContextKept(answer) ==
    /\ prior_reasoning' = IF answer = "stall" THEN attempt ELSE prior_reasoning
    /\ validation_feedback' =
           IF ErrorType(answer) \in {"schema", "validation"} THEN attempt ELSE validation_feedback
    /\ rejected_answer_feedback' = Never
    /\ thinking' = (answer # "timeout")
    /\ Continue

\* The attempt failed for a reason the next one is told of (_planning_retry_context).
RetryWithContext(answer) ==
    /\ prior_reasoning' = IF answer = "stall" THEN attempt ELSE Never
    /\ validation_feedback' =
           IF ErrorType(answer) \in {"schema", "validation"} THEN attempt ELSE Never
    /\ rejected_answer_feedback' = Never
    /\ thinking' = (answer # "timeout")
    /\ Continue

\* A refusal of an answerable request is answered with guidance, while attempts are left.
RetryRejected ==
    /\ attempt < Attempts - 1
    /\ rejected_answer_feedback' = attempt
    /\ prior_reasoning' = Never /\ validation_feedback' = Never
    /\ thinking' = TRUE
    /\ Continue

\* A bug to catch: every refusal is final.
AnswerableRetryable(answer) == FALSE

\* rejection_retry_feedback has guidance for this refusal.
Retryable(answer) == answer = "answerable"

\* The planner call ends without a plan.
PlannerFails(answer) ==
    /\ phase = "asking"
    /\ Record(answer)
    /\ \/ ErrorType(answer) # "rejection" /\ RetryWithContext(answer)
       \/ ErrorType(answer) = "rejection" /\ Retryable(answer) /\ RetryRejected
       \/ /\ ErrorType(answer) = "rejection"
          /\ ~(Retryable(answer) /\ attempt < Attempts - 1)
          /\ Settle("rejected")
    /\ UNCHANGED <<conditional, payload, revisions, validator>>

\* A ValueError leaves plan_attempt (a number with too many digits in the JSON): the
\* loop catches it, the attempt is not recorded and the guidance stays.
PlannerRaisesValueError ==
    /\ phase = "asking"
    /\ thinking' = TRUE
    /\ prior_reasoning' = Never
    /\ validation_feedback' = attempt
    /\ Continue
    /\ UNCHANGED <<conditional, rejected_answer_feedback, recorded, payload, revisions, validator>>

\* A bug to catch: an exception the loop does not expect leaves the task as it is.
PlannerRaisesUncaught ==
    /\ phase = "asking"
    /\ Settle(status)
    /\ UNCHANGED <<conditional, recorded, payload, revisions, validator>>

\* Any other exception (no tier answers, context_needed is not a list when the repair
\* reads it) ends the task.
PlannerRaises ==
    /\ phase = "asking"
    /\ Settle("failed")
    /\ UNCHANGED <<conditional, recorded, payload, revisions, validator>>

\* The model answers with a plan: it is repaired and validated.
PlannerAnswers(p) ==
    /\ phase = "asking"
    /\ phase' = "validating"
    /\ payload' = p
    /\ \E r \in Repaired(p) : Call(r)
    /\ UNCHANGED <<conditional, status, attempt, prior_reasoning, validation_feedback,
                   rejected_answer_feedback, thinking, recorded, revisions>>

Validate ==
    /\ phase = "validating"
    /\ ValidatorNext
    /\ UNCHANGED <<conditional, status, phase, attempt, prior_reasoning, validation_feedback,
                   rejected_answer_feedback, thinking, recorded, payload, revisions>>

PlanInvalid ==
    /\ phase = "validating" /\ stage = "done" /\ verdict # "valid"
    /\ Record("invalid")
    /\ RetryWithContext("invalid")
    /\ Discard
    /\ UNCHANGED <<conditional, revisions>>

\* _structural_retry_feedback: a conditional request wants a decision in the plan.
Suspicious == conditional /\ \A k \in MembersOf(plan, Outer) : plan[k].type # "decision"

\* The valid plan is given up for a retry; the guidance on a refusal stays.
PlanSuspicious ==
    /\ phase = "validating" /\ stage = "done" /\ verdict = "valid"
    /\ Suspicious /\ attempt < Attempts - 1
    /\ Record("invalid")
    /\ validation_feedback' = attempt
    /\ prior_reasoning' = Never
    /\ thinking' = TRUE
    /\ Continue
    /\ Discard
    /\ UNCHANGED <<conditional, rejected_answer_feedback, revisions>>

\* The plan is taken and presented, or executed at once (settings.confirm_plans).
PlanReady ==
    /\ phase = "validating" /\ stage = "done" /\ verdict = "valid"
    /\ ~(Suspicious /\ attempt < Attempts - 1)
    /\ Record("plan")
    /\ \E outcome \in {"awaiting_confirmation", "executing"} : Settle(outcome)
    /\ UNCHANGED <<conditional, payload, revisions, validator>>

\* The coroutine is cancelled while the planner works.
Cancel ==
    /\ phase = "asking"
    /\ Settle("cancelled")
    /\ UNCHANGED <<conditional, recorded, payload, revisions, validator>>

Loop ==
    \/ \E answer \in Answers : PlannerFails(answer)
    \/ \E p \in Payloads : PlannerAnswers(p)
    \/ PlannerRaisesValueError \/ PlannerRaises \/ Cancel
    \/ Validate \/ PlanInvalid \/ PlanSuspicious \/ PlanReady

Next == Run \/ Revise \/ Loop

(***************************************************************************)
(* Fairness: the planner call is under asyncio.wait_for, so it ends, and   *)
(* what follows it is code that runs to its end.  A user need not revise.  *)
(***************************************************************************)
Spec == Init /\ [][Next]_vars /\ WF_vars(Run) /\ WF_vars(Loop)

-----------------------------------------------------------------------------
\* The values of the loop's and the validator's variables; at most Attempts attempts.
TypeOK ==
    /\ status \in {"pending", "planning"} \cup Ended
    /\ phase \in {"idle", "asking", "validating"}
    /\ attempt \in 0..MaxReplanAttempts
    /\ {prior_reasoning, validation_feedback, rejected_answer_feedback} \subseteq Never..MaxReplanAttempts
    /\ thinking \in BOOLEAN
    /\ stage \in {"idle", "check", "sort", "nested", "done"}
    /\ verdict \in {"none", "valid"} \cup Errors
    /\ revisions \in 0..MaxRevisions

(***************************************************************************)
(* Kahn's loop is exact (topo_sort), with repeated ids, self references,   *)
(* and edges that are both data and branch: the order a frame has sorted,  *)
(* and every order written into the plan, is a topological order of that   *)
(* plan, and a plan is turned down for a cycle only when it has no order.  *)
(***************************************************************************)
SortExact ==
    /\ \A s \in DOMAIN order : order[s] # <<>> => Topological(plan, s, order[s])
    /\ stage = "nested" => Topological(plan, Top, sorted[Top])
    /\ verdict = "cycle" => Unsortable(plan, Top)

(***************************************************************************)
(* Every plan that passes is, renumbered by its sorted_node_ids, a plan    *)
(* PlanGraph calls Validated: the assumption under which the executor is   *)
(* verified is what the validator establishes, nested plans included.      *)
(***************************************************************************)
Graph(n) == INSTANCE PlanGraph WITH NumNodes <- n

Numberings(p) == {r \in [1..Len(p) -> 1..Len(p)] : \A j, k \in 1..Len(p) : r[j] = r[k] => j = k}

FollowsOrders(r) ==
    \A j, k \in 1..Len(plan) :
        /\ plan[j].scope = plan[k].scope /\ r[j] < r[k] =>
              \E a, b \in 1..Len(order[plan[j].scope]) :
                  a < b /\ order[plan[j].scope][a] = plan[j].id /\ order[plan[j].scope][b] = plan[k].id
        /\ plan[k].scope = j => r[j] < r[k]

AsGraph(r) ==
    LET At(n)       == CHOOSE k \in 1..Len(plan) : r[k] = n
        Ranks(k, S) == {r[j] : j \in {i \in 1..Len(plan) : plan[i].scope = plan[k].scope /\ plan[i].id \in S}}
    IN  [type           |-> [n \in 1..Len(plan) |-> plan[At(n)].type],
         scope          |-> [n \in 1..Len(plan) |-> IF plan[At(n)].scope = Outer THEN 0 ELSE r[plan[At(n)].scope]],
         context_needed |-> [n \in 1..Len(plan) |-> Ranks(At(n), plan[At(n)].context_needed)],
         branches       |-> [n \in 1..Len(plan) |->
                               [b \in YesNo |-> Ranks(At(n), plan[At(n)].branches[b])]],
         listed         |-> {n \in 1..Len(plan) :
                               \E i \in 1..Len(order[plan[At(n)].scope]) :
                                   order[plan[At(n)].scope][i] = plan[At(n)].id}]

AcceptedIsValidated ==
    verdict = "valid" =>
        \E r \in Numberings(plan) : FollowsOrders(r) /\ Graph(Len(plan))!Validated(AsGraph(r))

(***************************************************************************)
(* The repair never costs a plan: what would have been accepted as it came *)
(* is accepted repaired, unless the added node is the one too many.        *)
(***************************************************************************)
Acceptable(p) ==
    \A s \in {Outer} \cup {k \in DOMAIN p : p[k].subplan} :
        /\ PreSortError(p, s) = "none"
        /\ RefsExist(p, s)
        /\ ~Unsortable(p, s)
        /\ ~NestsTooDeep(p, s)
        /\ Cardinality(HoldersIn(p, s)) <= MaxSubplansPerPlan

RepairHarmless ==
    stage = "done" /\ verdict # "valid" /\ Acceptable(payload) =>
        \E s \in Incomplete(payload) :
            Cardinality(MembersOf(payload, s)) = IF s = Outer THEN MaxPlanNodes ELSE MaxSubplanNodes

(***************************************************************************)
(* What the model is told of a failed attempt is about the attempt just    *)
(* before ("the validator/schema failure from the immediately preceding    *)
(* attempt", plan_attempt), and of one kind only.  The guidance on a       *)
(* mistaken refusal may be older: _plan_with_retry does not clear it when  *)
(* a plan is suspicious or a ValueError is caught, so that it is repeated  *)
(* beside the complaint about the attempt just before, and never alone.    *)
(***************************************************************************)
FeedbackIsFresh ==
    phase # "idle" =>
        /\ prior_reasoning \in {Never, attempt - 1}
        /\ validation_feedback \in {Never, attempt - 1}
        /\ prior_reasoning = Never \/ validation_feedback = Never
        /\ rejected_answer_feedback # Never =>
              /\ rejected_answer_feedback < attempt
              /\ prior_reasoning = Never
              /\ rejected_answer_feedback = attempt - 1 <=> validation_feedback = Never

(***************************************************************************)
(* The outcome is the one the record of attempts shows: a plan that is     *)
(* presented and a rejection are the last attempt recorded, and a refusal  *)
(* of an answerable request ends the task only when no attempt is left.    *)
(***************************************************************************)
OutcomeIsRecorded ==
    /\ status \in {"awaiting_confirmation", "executing"} =>
          recorded.answer = "plan" /\ recorded.attempt = attempt /\ verdict = "valid"
    /\ status = "rejected" =>
          /\ ErrorType(recorded.answer) = "rejection" /\ recorded.attempt = attempt
          /\ recorded.answer = "answerable" => attempt = Attempts - 1

(***************************************************************************)
(* Planning comes to an end, whatever the model answers.                   *)
(***************************************************************************)
PlanningEnds == status = "planning" ~> status \in Ended
==============================================================================
