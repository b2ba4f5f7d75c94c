---------------------------- MODULE AcpTurnProofs ----------------------------
(***************************************************************************)
(* No guarded tool runs, and no plan is dispatched, without the client's   *)
(* consent; what an answered turn leaves behind is settled, what the next  *)
(* prompt builds on is recorded, and the plan the client saw says which    *)
(* calls failed: for every number of turns and calls, any nesting, any     *)
(* queue bound, with or without overlapping prompts and disconnection.     *)
(***************************************************************************)
EXTENDS AcpTurn, SequenceTheorems, TLAPS

CallState == {"idle", "dispatched", "ready", "asking", "running", "finished", "failed", "denied"}
EntryState == {"absent", "pending", "in_progress", "completed", "completed_failed"}

\* The part of TypeOK the argument needs.
Shapes ==
    /\ turn \in [Turns -> {"away", "loop", "waiting", "gate", "asking", "closing", "done"}]
    /\ driver \in [Turns -> {"none", "planning", "executing", "cancelling", "done"}]
    /\ row \in [Turns -> {"absent", "planning", "awaiting_confirmation", "executing",
                          "completed", "failed", "rejected", "cancelled"}]
    /\ revisions \in [Turns -> 0..MaxRevisions]
    /\ approved \in [Turns -> -1..MaxRevisions]
    /\ call \in [Turns -> [Calls -> CallState]]
    /\ answer \in [Turns -> [Calls -> {"none", "pending", "yes", "no"}]]

\* A future holds yes only for a call the client said yes to.
YesIsConsent ==
    \A t \in Turns, c \in Calls : answer[t][c] = "yes" => <<t, c>> \in allowed

\* While a task is new, planned or at the gate, none of its nodes exists: so
\* the revision a dispatched plan has can no longer change.
IdleBeforeApproval ==
    \A t \in Turns :
        turn[t] = "away" \/ driver[t] = "planning" \/ row[t] = "awaiting_confirmation" =>
            \A c \in Calls : call[t][c] = "idle"

\* The inductive invariant.
ConsentInv ==
    /\ Shapes
    /\ YesIsConsent
    /\ NothingUnapproved
    /\ IdleBeforeApproval
    /\ OnlyApprovedPlans

LEMMA ConsentInit == Init => ConsentInv
  <1> USE TurnBoundsAssumption
  <1> QED
    BY DEF Init, ConsentInv, Shapes, YesIsConsent, NothingUnapproved, IdleBeforeApproval,
           OnlyApprovedPlans, Ran, CallState, AllCalls

\* Steps of the bus, the driver and the client that touch no call.
LEMMA ConsentDriver ==
  ASSUME ConsentInv, NEW t \in Turns, DriverStep(t) \/ ExecuteRaises(t) \/ Notice(t)
  PROVE  ConsentInv'
  <1>1. UNCHANGED <<turn, call, answer, allowed, always, revisions, approved>>
    BY DEF DriverStep, PlanningEnds, PresentPlan, ExecuteReturns, ExecuteRaises, DriverCancelled,
           DriverEnds, Notice, turnVars, taskVars, brokerVars
  <1>2. /\ Shapes'
        /\ \A u \in Turns : driver'[u] = "planning" => driver[u] = "planning"
        /\ \A u \in Turns : row'[u] = "awaiting_confirmation" =>
              row[u] = "awaiting_confirmation" \/ driver[u] = "planning"
    BY <1>1 DEF ConsentInv, Shapes, DriverStep, PlanningEnds, PresentPlan, ExecuteReturns,
                ExecuteRaises, DriverCancelled, DriverEnds, Notice, taskVars
  <1> QED
    BY <1>1, <1>2 DEF ConsentInv, YesIsConsent, NothingUnapproved, IdleBeforeApproval,
                      OnlyApprovedPlans, Ran

\* A call moves on: it runs only on a yes or a tool allowed for good.
LEMMA ConsentCall ==
  ASSUME ConsentInv, NEW t \in Turns, NEW c \in Calls, CallSteps(t, c)
  PROVE  ConsentInv'
  <1>1. UNCHANGED <<turn, driver, row, revisions, approved, always, allowed>>
    BY DEF CallSteps, CallStarts, CallNeedsNoAnswer, CallAsks, CallAllowed, CallDenied, CallReturns,
           CallStep, turnVars, taskVars
  <1>2. PICK to \in CallState \ {"idle"} :
           /\ call[t][c] # "idle"
           /\ call' = [call EXCEPT ![t][c] = to]
           /\ to \in {"running", "finished", "failed"} => <<t, c>> \in allowed \/ ToolOf(c) \in always
    BY DEF CallSteps, CallStarts, CallNeedsNoAnswer, CallAsks, CallAllowed, CallDenied, CallReturns,
           CallStep, ConsentInv, YesIsConsent, NothingUnapproved, Ran, CallState
  <1>3. answer' = answer \/ answer' = [answer EXCEPT ![t][c] = "pending"]
    BY DEF CallSteps, CallStarts, CallNeedsNoAnswer, CallAsks, CallAllowed, CallDenied, CallReturns
  <1>4. Shapes'
    <2>1. call' \in [Turns -> [Calls -> CallState]]
      <3>1. [call[t] EXCEPT ![c] = to] \in [Calls -> CallState]
        BY DEF ConsentInv, Shapes
      <3> QED
        BY <1>2, <3>1 DEF ConsentInv, Shapes
    <2>2. answer' \in [Turns -> [Calls -> {"none", "pending", "yes", "no"}]]
      <3>1. [answer[t] EXCEPT ![c] = "pending"] \in [Calls -> {"none", "pending", "yes", "no"}]
        BY DEF ConsentInv, Shapes
      <3> QED
        BY <1>3, <3>1 DEF ConsentInv, Shapes
    <2> QED
      BY <1>1, <2>1, <2>2 DEF ConsentInv, Shapes
  <1>5. YesIsConsent'
    BY <1>1, <1>3 DEF ConsentInv, Shapes, YesIsConsent
  <1>6. NothingUnapproved'
    BY <1>1, <1>2 DEF ConsentInv, Shapes, NothingUnapproved, Ran
  <1>7. \A u \in Turns, d \in Calls : call'[u][d] = "idle" <=> call[u][d] = "idle"
    BY <1>2 DEF ConsentInv, Shapes
  <1>8. IdleBeforeApproval' /\ OnlyApprovedPlans'
    BY <1>1, <1>7 DEF ConsentInv, IdleBeforeApproval, OnlyApprovedPlans
  <1> QED
    BY <1>4, <1>5, <1>6, <1>8 DEF ConsentInv

\* The turn loop decides nothing.
LEMMA ConsentLoop ==
  ASSUME ConsentInv, NEW t \in Turns, LoopStep(t)
  PROVE  ConsentInv'
  <1>1. UNCHANGED <<call, answer, allowed, always, revisions, approved, row>>
    BY DEF LoopStep, HandleUpdate, HandleTerminal, HandleGate, HandleToolApproval, TakesEvent,
           Suspend, TakeCancel, FinishTurn, taskVars, brokerVars
  <1>2. /\ Shapes'
        /\ \A u \in Turns : turn'[u] = "away" => turn[u] = "away"
        /\ \A u \in Turns : driver'[u] = "planning" => driver[u] = "planning"
    BY <1>1 DEF ConsentInv, Shapes, LoopStep, HandleUpdate, HandleTerminal, HandleGate,
                HandleToolApproval, TakesEvent, Suspend, TakeCancel, FinishTurn, GoOn, EndTurn,
                taskVars
  <1> QED
    BY <1>1, <1>2 DEF ConsentInv, YesIsConsent, NothingUnapproved, IdleBeforeApproval,
                      OnlyApprovedPlans, Ran

\* Only the client's answers give consent.
LEMMA ConsentAnswer ==
  ASSUME ConsentInv, NEW t \in Turns, ClientAnswer(t)
  PROVE  ConsentInv'
  <1>1. CASE GateApproved(t)
    <2>1. UNCHANGED <<answer, always, allowed, revisions>>
      BY <1>1 DEF GateApproved, brokerVars
    <2>2. AllCalls("dispatched") \in [Calls -> CallState]
      BY DEF AllCalls, CallState
    <2>3. Shapes'
      <3>1. call' \in [Turns -> [Calls -> CallState]]
        BY <1>1, <2>2 DEF ConsentInv, Shapes, GateApproved
      <3>2. approved' \in [Turns -> -1..MaxRevisions]
        BY <1>1 DEF ConsentInv, Shapes, GateApproved
      <3> QED
        BY <1>1, <2>1, <3>1, <3>2 DEF ConsentInv, Shapes, GateApproved
    <2>4. NothingUnapproved'
      <3> SUFFICES ASSUME NEW u \in Turns, NEW c \in Calls, Ran(u, c)'
                   PROVE  <<u, c>> \in allowed \/ ToolOf(c) \in always
        BY <2>1 DEF NothingUnapproved
      <3>1. call'[u] = call[u] \/ call'[u] = AllCalls("dispatched")
        BY <1>1 DEF ConsentInv, Shapes, GateApproved
      <3>2. AllCalls("dispatched")[c] = "dispatched"
        BY DEF AllCalls
      <3> QED
        BY <3>1, <3>2 DEF ConsentInv, NothingUnapproved, Ran
    <2>5. IdleBeforeApproval'
      <3> SUFFICES ASSUME NEW u \in Turns,
                          turn'[u] = "away" \/ driver'[u] = "planning"
                             \/ row'[u] = "awaiting_confirmation"
                   PROVE  \A c \in Calls : call'[u][c] = "idle"
        BY DEF IdleBeforeApproval
      <3>1. CASE u # t
        BY <1>1, <3>1 DEF ConsentInv, Shapes, IdleBeforeApproval, GateApproved
      <3>2. CASE u = t /\ row[t] = "awaiting_confirmation"
        BY <1>1, <3>2 DEF ConsentInv, Shapes, GateApproved
      <3>3. CASE u = t /\ row[t] # "awaiting_confirmation"
        BY <1>1, <3>3 DEF ConsentInv, Shapes, IdleBeforeApproval, GateApproved
      <3> QED
        BY <3>1, <3>2, <3>3
    <2>6. OnlyApprovedPlans'
      BY <1>1, <2>1 DEF ConsentInv, Shapes, OnlyApprovedPlans, GateApproved
    <2> QED
      BY <2>1, <2>3, <2>4, <2>5, <2>6 DEF ConsentInv, YesIsConsent
  <1>2. CASE GateRevised(t)
    <2>1. UNCHANGED <<answer, always, allowed, call, row, approved>>
      BY <1>2 DEF GateRevised, brokerVars
    <2>2. Shapes'
      BY <1>2, <2>1, TurnBoundsAssumption DEF ConsentInv, Shapes, GateRevised
    <2>3. IdleBeforeApproval'
      BY <1>2, <2>1 DEF ConsentInv, Shapes, IdleBeforeApproval, GateRevised
    <2>4. OnlyApprovedPlans'
      BY <1>2, <2>1 DEF ConsentInv, Shapes, IdleBeforeApproval, OnlyApprovedPlans, GateRevised
    <2> QED
      BY <2>1, <2>2, <2>3, <2>4 DEF ConsentInv, YesIsConsent, NothingUnapproved, Ran
  <1>3. CASE GateDeclined(t) \/ ToolAnswerFails(t)
    <2>1. UNCHANGED <<answer, always, allowed, call, row, approved, revisions>>
      BY <1>3 DEF GateDeclined, ToolAnswerFails, ToolAnswers, brokerVars
    <2>2. /\ Shapes'
          /\ \A u \in Turns : turn'[u] = "away" => turn[u] = "away"
          /\ \A u \in Turns : driver'[u] = "planning" => driver[u] = "planning"
      BY <1>3, <2>1 DEF ConsentInv, Shapes, GateDeclined, ToolAnswerFails, EndTurn
    <2> QED
      BY <2>1, <2>2 DEF ConsentInv, YesIsConsent, NothingUnapproved, IdleBeforeApproval,
                        OnlyApprovedPlans, Ran
  <1>4. CASE ToolAllowed(t) \/ ToolDenied(t)
    <2>1. UNCHANGED <<driver, call, row, approved, revisions>>
      BY <1>4 DEF ToolAllowed, ToolDenied, ToolAnswers, BackToLoop
    <2>2. turn' = [turn EXCEPT ![t] = "loop"]
      BY <1>4 DEF ToolAllowed, ToolDenied, BackToLoop
    <2>3. allowed \subseteq allowed' /\ always \subseteq always'
      BY <1>4 DEF ToolAllowed, ToolDenied
    <2>4. \/ answer' = answer
          \/ answer' = [answer EXCEPT ![t][asked[t]] = "no"]
          \/ answer' = [answer EXCEPT ![t][asked[t]] = "yes"] /\ <<t, asked[t]>> \in allowed'
      BY <1>4 DEF ToolAllowed, ToolDenied, Resolve
    <2>5. answer' \in [Turns -> [Calls -> {"none", "pending", "yes", "no"}]]
      BY <2>4 DEF ConsentInv, Shapes
    <2>6. Shapes'
      BY <2>1, <2>2, <2>5 DEF ConsentInv, Shapes
    <2>7. YesIsConsent'
      <3> SUFFICES ASSUME NEW u \in Turns, NEW c \in Calls, answer'[u][c] = "yes"
                   PROVE  <<u, c>> \in allowed'
        BY DEF YesIsConsent
      <3>1. answer'[u][c] = answer[u][c] \/ (u = t /\ c = asked[t])
        BY <2>4 DEF ConsentInv, Shapes
      <3>2. CASE answer[u][c] = "yes"
        BY <2>3, <3>2 DEF ConsentInv, YesIsConsent
      <3>3. CASE answer[u][c] # "yes" /\ u = t /\ c = asked[t]
        BY <2>4, <3>3 DEF ConsentInv, Shapes
      <3> QED
        BY <3>1, <3>2, <3>3
    <2>8. NothingUnapproved'
      BY <2>1, <2>3 DEF ConsentInv, NothingUnapproved, Ran
    <2>9. IdleBeforeApproval' /\ OnlyApprovedPlans'
      BY <2>1, <2>2 DEF ConsentInv, Shapes, IdleBeforeApproval, OnlyApprovedPlans
    <2> QED
      BY <2>6, <2>7, <2>8, <2>9 DEF ConsentInv
  <1> QED
    BY <1>1, <1>2, <1>3, <1>4 DEF ClientAnswer

LEMMA ConsentPrompt ==
  ASSUME ConsentInv, NEW t \in Turns, Prompt(t)
  PROVE  ConsentInv'
  <1>1. UNCHANGED <<answer, always, allowed, call, approved, revisions>>
    BY DEF Prompt, brokerVars
  <1>2. Shapes' /\ IdleBeforeApproval'
    BY <1>1 DEF ConsentInv, Shapes, IdleBeforeApproval, Prompt
  <1> QED
    BY <1>1, <1>2 DEF ConsentInv, YesIsConsent, NothingUnapproved, OnlyApprovedPlans, Ran

\* The invariant holds in every state of every behaviour.
LEMMA ConsentInductive == Spec => []ConsentInv
  <1>1. ConsentInv /\ [Next]_vars => ConsentInv'
    <2> SUFFICES ASSUME ConsentInv, [Next]_vars PROVE ConsentInv'
      OBVIOUS
    <2>1. CASE Cancel \/ CloseStdin \/ UNCHANGED vars
      <3>1. UNCHANGED <<turn, driver, row, revisions, approved, call, answer, allowed, always>>
        BY <2>1 DEF Cancel, CloseStdin, vars, turnVars, taskVars, brokerVars
      <3> QED
        BY <3>1 DEF ConsentInv, Shapes, YesIsConsent, NothingUnapproved, IdleBeforeApproval,
                    OnlyApprovedPlans, Ran
    <2>2. ASSUME NEW t \in Turns,
                 \/ Prompt(t) \/ DriverStep(t) \/ ExecuteRaises(t) \/ Notice(t) \/ LoopStep(t)
                 \/ ClientAnswer(t) \/ \E c \in Calls : CallSteps(t, c)
          PROVE  ConsentInv'
      BY <2>2, ConsentPrompt, ConsentDriver, ConsentLoop, ConsentAnswer, ConsentCall
    <2> QED
      BY <2>1, <2>2 DEF Next
  <1> QED
    BY <1>1, ConsentInit, PTL DEF Spec

\* A guarded tool runs only with the client's consent to that call or tool:
\* the broker's futures and the answers of concurrent calls never cross.
THEOREM NothingUnapprovedHolds == Spec => []NothingUnapproved
  BY ConsentInductive, PTL DEF ConsentInv

\* What is dispatched is the last revision of the plan, approved at the gate.
THEOREM OnlyApprovedPlansHolds == Spec => []OnlyApprovedPlans
  BY ConsentInductive, PTL DEF ConsentInv

-----------------------------------------------------------------------------
(***************************************************************************)
(* What a turn leaves behind, and what the client has seen of it.          *)
(***************************************************************************)

\* A turn whose events are read.
Subscribed(t) == turn[t] \in {"loop", "waiting", "gate", "asking"}

\* The outcome a terminal event speaks of.
OutcomeOf(kind) ==
    IF kind = "completed" THEN "completed" ELSE IF kind = "plan_rejected" THEN "rejected" ELSE "failed"

\* A terminal event is published with the coroutine's last save: while it is
\* on the queue, and once the turn has ended with it, the row stays.
Settling(t) ==
    /\ turn[t] = "away" => driver[t] = "none" /\ stop[t] = "none" /\ t \notin output
    /\ driver[t] = "done" =>
          row[t] \in {"completed", "failed", "rejected", "cancelled", "awaiting_confirmation"}
    /\ turn[t] = "done" => driver[t] = "done"
    /\ t \in output => driver[t] = "done" /\ row[t] = "completed"
    /\ stop[t] = "end_turn" =>
          /\ turn[t] \in {"closing", "done"} /\ driver[t] = "done"
          /\ row[t] \in {"completed", "failed", "rejected"}
    /\ \A i \in 1..Len(queue[t]) : queue[t][i].kind \in Terminal =>
          driver[t] = "done" /\ row[t] = OutcomeOf(queue[t][i].kind)

\* What the next prompt is composed with has been recorded.
Carrying ==
    /\ carried # Nobody => carried \in output
    /\ \A t \in Turns : basis[t] # Nobody => basis[t] \in output

\* After e the plan entry of call c is not (or no longer) completed.
Resets(e, c) == e.kind = "plan_ready" \/ (e.kind = "started" /\ e.call = c)

\* The client sees how c has ended, or will once it has read the queue.
Shown(t, c) ==
    \/ view[t][c] = EntryOf(t, c) /\ \A j \in 1..Len(queue[t]) : ~Resets(queue[t][j], c)
    \/ \E i \in 1..Len(queue[t]) :
          /\ queue[t][i] = Event("finished", c)
          /\ \A j \in 1..Len(queue[t]) : j > i => ~Resets(queue[t][j], c)

\* No event follows the completion of a task, and it comes after the events of
\* all of its calls, none of which goes on.
Showing(t) ==
    /\ \A i \in 1..Len(queue[t]) : queue[t][i].kind = "completed" =>
          i = Len(queue[t]) /\ Finished(t) = Calls
    /\ Subscribed(t) /\ t \notin shed => \A c \in Finished(t) \ Nested : Shown(t, c)
    /\ row[t] = "completed" => Finished(t) = Calls
    /\ stop[t] = "end_turn" /\ row[t] = "completed" /\ t \notin shed =>
          \A c \in Calls \ Nested : view[t][c] = EntryOf(t, c)

AskedIsCall == \A t \in Turns : turn[t] = "asking" => asked[t] \in Calls

\* The inductive invariant, on top of ConsentInv.
TurnInv == TypeOK /\ AskedIsCall /\ Carrying /\ (\A t \in Turns : Settling(t) /\ Showing(t))

-----------------------------------------------------------------------------
(* Types, and the queue of a turn.                                          *)

LEMMA EventFacts ==
    /\ \A k \in Terminal \cup {"notice", "plan_ready", "awaiting"} : Plain(k) \in Events /\ Plain(k).kind = k
    /\ \A k \in {"approval", "started", "finished"}, c \in Calls :
          Event(k, c) \in Events /\ Event(k, c).kind = k /\ Event(k, c).call = c
    /\ \A e \in Events : e.kind \in {"approval", "started", "finished"} => e.call \in Calls
  <1>1. \A k \in Terminal \cup {"notice", "plan_ready", "awaiting"} : Plain(k) \in Events
    BY DEF Events
  <1>2. \A k, c : Event(k, c).kind = k /\ Event(k, c).call = c /\ Plain(k).kind = k
    BY DEF Event, Plain
  <1>3. \A k \in {"approval", "started", "finished"}, c \in Calls : Event(k, c) \in Events
    BY DEF Events
  <1>4. ASSUME NEW e \in Events, e.kind \in {"approval", "started", "finished"} PROVE e.call \in Calls
    <2>1. ASSUME NEW k \in Terminal \cup {"notice", "plan_ready", "awaiting"}, e = Plain(k) PROVE FALSE
      BY <1>2, <1>4, <2>1 DEF Terminal
    <2>2. PICK k \in {"approval", "started", "finished"}, c \in Calls : e = Event(k, c)
      BY <2>1 DEF Events
    <2> QED
      BY <1>2, <2>2
  <1> QED
    BY <1>1, <1>2, <1>3, <1>4

\* What Subscription.deliver keeps is the end of the queue.
LEMMA NewestFacts ==
    ASSUME NEW q \in Seq(Events)
    PROVE  /\ Newest(q) \in Seq(Events)
           /\ Len(Newest(q)) \in Nat /\ Len(Newest(q)) <= MaxQueue /\ Len(Newest(q)) <= Len(q)
           /\ \A i \in 1..Len(Newest(q)) :
                 /\ i + (Len(q) - Len(Newest(q))) \in 1..Len(q)
                 /\ Newest(q)[i] = q[i + (Len(q) - Len(Newest(q)))]
           /\ Len(q) <= MaxQueue => Newest(q) = q
  <1>1. Len(q) \in Nat /\ MaxQueue \in Nat \ {0} /\ \A i \in 1..Len(q) : q[i] \in Events
    BY TurnBoundsAssumption, LenProperties, ElementOfSeq
  <1>2. CASE Len(q) <= MaxQueue
    <2>1. Newest(q) = q
      BY <1>1, <1>2 DEF Newest
    <2>2. \A i \in 1..Len(q) : i + (Len(q) - Len(q)) = i
      BY <1>1
    <2> QED
      BY <1>1, <1>2, <2>1, <2>2
  <1>3. CASE Len(q) > MaxQueue
    <2> DEFINE m == Len(q) - MaxQueue + 1
               r == SubSeq(q, m, Len(q))
    <2>1. m \in Int /\ Len(q) \in Int /\ m <= Len(q) /\ Len(q) - m + 1 = MaxQueue /\ m \in 1..Len(q)
      BY <1>1, <1>3
    <2>2. \A i \in m..Len(q) : q[i] \in Events
      BY <1>1, <2>1
    <2>3. r \in Seq(Events) /\ Len(r) = Len(q) - m + 1 /\ \A i \in 1..(Len(q) - m + 1) : r[i] = q[m + i - 1]
      <3> HIDE DEF m
      <3> QED
        BY <2>1, <2>2, SubSeqProperties
    <2>4. Newest(q) = r /\ Len(r) = MaxQueue
      BY <1>3, <2>1, <2>3 DEF Newest
    <2>5. ASSUME NEW i \in 1..MaxQueue
          PROVE  i + (Len(q) - MaxQueue) \in 1..Len(q) /\ m + i - 1 = i + (Len(q) - MaxQueue)
      BY <1>1, <1>3
    <2> HIDE DEF r, m
    <2>6. \A i \in 1..MaxQueue : r[i] = q[i + (Len(q) - MaxQueue)]
      BY <2>1, <2>3, <2>5
    <2>7. MaxQueue <= Len(q) /\ MaxQueue <= MaxQueue /\ MaxQueue \in Nat /\ ~(Len(q) <= MaxQueue)
      BY <1>1, <1>3
    <2>8. Newest(q) \in Seq(Events) /\ Len(Newest(q)) = MaxQueue
          /\ \A i \in 1..MaxQueue : Newest(q)[i] = q[i + (Len(q) - MaxQueue)]
      BY <2>3, <2>4, <2>6
    <2> QED
      BY <2>5, <2>7, <2>8
  <1> QED
    BY <1>1, <1>2, <1>3

\* A queue that some events are added to: what it had or what is new.
LEMMA AddedFacts ==
    ASSUME NEW q \in Seq(Events), NEW es \in Seq(Events)
    PROVE  /\ q \o es \in Seq(Events) /\ Len(q \o es) = Len(q) + Len(es)
           /\ \A i \in 1..Len(Newest(q \o es)) :
                 \/ \E j \in 1..Len(q) : Newest(q \o es)[i] = q[j]
                 \/ \E j \in 1..Len(es) :
                       Newest(q \o es)[i] = es[j] /\ i = Len(Newest(q \o es)) - Len(es) + j
  <1> DEFINE a == q \o es
             r == Newest(a)
  <1>1. /\ a \in Seq(Events) /\ Len(a) = Len(q) + Len(es) /\ Len(q) \in Nat /\ Len(es) \in Nat
        /\ \A i \in 1..(Len(q) + Len(es)) : a[i] = IF i <= Len(q) THEN q[i] ELSE es[i - Len(q)]
    BY ConcatProperties, LenProperties
  <1> HIDE DEF a
  <1>2. /\ Len(r) \in Nat /\ Len(r) <= Len(a)
        /\ \A i \in 1..Len(r) : i + (Len(a) - Len(r)) \in 1..Len(a) /\ r[i] = a[i + (Len(a) - Len(r))]
    BY <1>1, NewestFacts
  <1> HIDE DEF r
  <1>3. ASSUME NEW i \in 1..Len(r)
        PROVE  \/ \E j \in 1..Len(q) : r[i] = q[j]
               \/ \E j \in 1..Len(es) : r[i] = es[j] /\ i = Len(r) - Len(es) + j
    <2> DEFINE k == i + (Len(a) - Len(r))
    <2>1. k \in 1..(Len(q) + Len(es)) /\ r[i] = a[k] /\ k \in Nat
      BY <1>1, <1>2
    <2>2. k <= Len(q) => k \in 1..Len(q)
      BY <1>1, <2>1
    <2>3. ~(k <= Len(q)) => k - Len(q) \in 1..Len(es) /\ i = Len(r) - Len(es) + (k - Len(q))
      BY <1>1, <1>2, <2>1
    <2> HIDE DEF k
    <2>4. CASE k <= Len(q)
      BY <2>1, <2>2, <2>4, <1>1
    <2>5. CASE ~(k <= Len(q))
      BY <2>1, <2>3, <2>5, <1>1
    <2> QED
      BY <2>4, <2>5
  <1> QED
    BY <1>1, <1>3 DEF a, r

LEMMA PublishFacts ==
    ASSUME TypeOK, NEW t \in Turns, NEW es \in Seq(Events), Publish(t, es)
    PROVE  /\ queue' \in [Turns -> Seq(Events)] /\ \A u \in Turns : Len(queue'[u]) <= MaxQueue
           /\ shed' \subseteq Turns /\ shed \subseteq shed'
           /\ \A u \in Turns \ {t} : queue'[u] = queue[u] /\ (u \in shed' <=> u \in shed)
           /\ \A i \in 1..Len(queue'[t]) :
                 \/ \E j \in 1..Len(queue[t]) : queue'[t][i] = queue[t][j]
                 \/ \E j \in 1..Len(es) : queue'[t][i] = es[j] /\ i = Len(queue'[t]) - Len(es) + j
           /\ Subscribed(t) /\ t \notin shed' => t \notin shed /\ queue'[t] = queue[t] \o es
  <1> DEFINE a == queue[t] \o es
  <1>1. queue[t] \in Seq(Events) /\ queue \in [Turns -> Seq(Events)] /\ shed \subseteq Turns
        /\ turn[t] \in {"away", "loop", "waiting", "gate", "asking", "closing", "done"}
        /\ \A u \in Turns : Len(queue[u]) <= MaxQueue
    BY DEF TypeOK
  <1>2. a \in Seq(Events) /\ Newest(a) \in Seq(Events) /\ Len(Newest(a)) <= MaxQueue
        /\ (Len(a) <= MaxQueue => Newest(a) = a) /\ Len(a) \in Nat /\ MaxQueue \in Nat
    BY <1>1, AddedFacts, NewestFacts, LenProperties, TurnBoundsAssumption
  <1>3. \A i \in 1..Len(Newest(a)) :
                 \/ \E j \in 1..Len(queue[t]) : Newest(a)[i] = queue[t][j]
                 \/ \E j \in 1..Len(es) : Newest(a)[i] = es[j] /\ i = Len(Newest(a)) - Len(es) + j
    BY <1>1, AddedFacts
  <1>4. /\ queue' = IF Live(t) /\ turn[t] # "closing" THEN [queue EXCEPT ![t] = Newest(a)] ELSE queue
        /\ shed' = IF Live(t) /\ turn[t] # "closing" /\ Len(a) > MaxQueue THEN shed \cup {t} ELSE shed
    BY DEF Publish
  <1> HIDE DEF a
  <1>5. CASE Live(t) /\ turn[t] # "closing"
    <2>1. queue' = [queue EXCEPT ![t] = Newest(a)] /\ queue'[t] = Newest(a)
          /\ \A u \in Turns \ {t} : queue'[u] = queue[u]
      BY <1>1, <1>4, <1>5
    <2>2. queue' \in [Turns -> Seq(Events)] /\ \A u \in Turns : Len(queue'[u]) <= MaxQueue
      BY <1>1, <1>2, <2>1
    <2>3. shed' \subseteq Turns /\ shed \subseteq shed' /\ (\A u \in Turns \ {t} : u \in shed' <=> u \in shed)
          /\ (t \notin shed' => t \notin shed /\ Len(a) <= MaxQueue)
      BY <1>1, <1>2, <1>4, <1>5
    <2> QED
      BY <2>1, <2>2, <2>3, <1>2, <1>3 DEF a
  <1>6. CASE ~(Live(t) /\ turn[t] # "closing")
    <2>1. queue' = queue /\ shed' = shed /\ ~Subscribed(t)
      BY <1>1, <1>4, <1>6 DEF Live, Subscribed
    <2> QED
      BY <2>1, <1>1
  <1> QED
    BY <1>5, <1>6

\* The types that ConsentInv does not speak of.
OtherShapes ==
    /\ stdin \in {"open", "closed"}
    /\ asked \in [Turns -> Calls \cup {NoCall}] /\ AskedIsCall
    /\ stop \in [Turns -> {"none", "end_turn", "cancelled", "refusal", "error"}]
    /\ cancels \in Turns \cup {Nobody} /\ carried \in Turns \cup {Nobody}
    /\ basis \in [Turns -> Turns \cup {Nobody}]
    /\ cancel \subseteq Turns /\ shed \subseteq Turns /\ output \subseteq Turns
    /\ queue \in [Turns -> Seq(Events)] /\ \A t \in Turns : Len(queue[t]) <= MaxQueue
    /\ notices \in [Turns -> 0..MaxNotices]
    /\ always \subseteq Tools /\ allowed \subseteq Turns \X Calls
    /\ view \in [Turns -> [Calls -> EntryState]] /\ outputs \subseteq Turns \X Calls

LEMMA ShapesAreTypes == Shapes /\ OtherShapes <=> TypeOK /\ AskedIsCall
  BY DEF Shapes, OtherShapes, TypeOK, CallState, EntryState

LEMMA SingleEvent == \A e \in Events : <<e>> \in Seq(Events) /\ Len(<<e>>) = 1 /\ <<e>>[1] = e
  OBVIOUS

LEMMA PairOfEvents ==
    ASSUME NEW d \in Events, NEW e \in Events
    PROVE  <<d, e>> \in Seq(Events) /\ Len(<<d, e>>) = 2 /\ <<d, e>>[1] = d /\ <<d, e>>[2] = e
  OBVIOUS

LEMMA TypesDriver ==
    ASSUME TypeOK, AskedIsCall, NEW t \in Turns, DriverStep(t) \/ ExecuteRaises(t) \/ Notice(t)
    PROVE  OtherShapes'
  <1>1. OtherShapes
    BY ShapesAreTypes DEF TypeOK, Shapes, OtherShapes
  <1>2. UNCHANGED <<stdin, turn, asked, stop, cancels, cancel, carried, basis, always, allowed, view, outputs>>
    BY DEF DriverStep, PlanningEnds, PresentPlan, ExecuteReturns, ExecuteRaises, DriverCancelled,
           DriverEnds, Notice, turnVars, brokerVars
  <1>3. queue' \in [Turns -> Seq(Events)] /\ (\A u \in Turns : Len(queue'[u]) <= MaxQueue) /\ shed' \subseteq Turns
    <2>1. ASSUME NEW es \in Seq(Events), Publish(t, es)
          PROVE  queue' \in [Turns -> Seq(Events)] /\ (\A u \in Turns : Len(queue'[u]) <= MaxQueue)
                 /\ shed' \subseteq Turns
      BY <2>1, PublishFacts
    <2>2. CASE PlanningEnds(t)
      BY <2>1, <2>2, EventFacts, SingleEvent DEF PlanningEnds, Terminal
    <2>3. CASE PresentPlan(t)
      BY <2>1, <2>3, EventFacts, PairOfEvents DEF PresentPlan
    <2>4. CASE ExecuteReturns(t) \/ ExecuteRaises(t) \/ Notice(t)
      BY <2>1, <2>4, EventFacts, SingleEvent DEF ExecuteReturns, ExecuteRaises, Notice, Terminal
    <2>5. CASE DriverCancelled(t)
      BY <2>5, <1>1 DEF DriverCancelled, OtherShapes
    <2> QED
      BY <2>2, <2>3, <2>4, <2>5 DEF DriverStep
  <1>4. notices' \in [Turns -> 0..MaxNotices]
    <2>1. CASE Notice(t)
      <3>1. notices' = [notices EXCEPT ![t] = @ + 1] /\ notices[t] < MaxNotices /\ notices \in [Turns -> 0..MaxNotices]
        BY <1>1, <2>1 DEF Notice, OtherShapes
      <3>2. notices[t] + 1 \in 0..MaxNotices
        BY <3>1, TurnBoundsAssumption
      <3> QED
        BY <3>1, <3>2
    <2>2. CASE DriverStep(t) \/ ExecuteRaises(t)
      <3>1. UNCHANGED notices
        BY <2>2 DEF DriverStep, PlanningEnds, PresentPlan, ExecuteReturns, ExecuteRaises, DriverCancelled,
               DriverEnds
      <3> QED
        BY <1>1, <3>1 DEF OtherShapes
    <2> QED
      BY <2>1, <2>2
  <1>5. output' \subseteq Turns
    BY <1>1 DEF OtherShapes, DriverStep, PlanningEnds, PresentPlan, ExecuteReturns, ExecuteRaises,
           DriverCancelled, Notice, taskVars
  <1> QED
    BY <1>1, <1>2, <1>3, <1>4, <1>5 DEF OtherShapes, AskedIsCall

LEMMA TypesCall ==
    ASSUME TypeOK, AskedIsCall, NEW t \in Turns, NEW c \in Calls, CallSteps(t, c)
    PROVE  OtherShapes'
  <1>1. OtherShapes
    BY ShapesAreTypes DEF TypeOK, Shapes, OtherShapes
  <1>2. UNCHANGED <<stdin, turn, asked, stop, cancels, cancel, carried, basis, notices, output, always,
                    allowed, view, outputs>>
    BY DEF CallSteps, CallStarts, CallNeedsNoAnswer, CallAsks, CallAllowed, CallDenied, CallReturns,
           CallStep, turnVars, taskVars
  <1>3. UNCHANGED <<queue, shed>> \/ \E k \in {"approval", "started", "finished"} : Publish(t, <<Event(k, c)>>)
    BY DEF CallSteps, CallStarts, CallNeedsNoAnswer, CallAsks, CallAllowed, CallDenied, CallReturns
  <1>4. queue' \in [Turns -> Seq(Events)] /\ (\A u \in Turns : Len(queue'[u]) <= MaxQueue) /\ shed' \subseteq Turns
    <2>1. CASE UNCHANGED <<queue, shed>>
      BY <1>1, <2>1 DEF OtherShapes
    <2>2. ASSUME NEW k \in {"approval", "started", "finished"}, Publish(t, <<Event(k, c)>>)
          PROVE  queue' \in [Turns -> Seq(Events)] /\ (\A u \in Turns : Len(queue'[u]) <= MaxQueue)
                 /\ shed' \subseteq Turns
      <3>1. <<Event(k, c)>> \in Seq(Events)
        BY EventFacts, SingleEvent
      <3> QED
        BY <2>2, <3>1, PublishFacts
    <2> QED
      BY <1>3, <2>1, <2>2
  <1> QED
    BY <1>1, <1>2, <1>4 DEF OtherShapes, AskedIsCall

\* Reading the queue, and ending a turn.
LEMMA TypesRead ==
    ASSUME TypeOK, NEW t \in Turns
    PROVE  /\ queue[t] # <<>> => Head(queue[t]) \in Events
           /\ queue[t] # <<>> /\ queue' = [queue EXCEPT ![t] = Tail(@)] =>
                 queue' \in [Turns -> Seq(Events)] /\ \A u \in Turns : Len(queue'[u]) <= MaxQueue
           /\ queue' = [queue EXCEPT ![t] = <<>>] =>
                 queue' \in [Turns -> Seq(Events)] /\ \A u \in Turns : Len(queue'[u]) <= MaxQueue
  <1>1. queue \in [Turns -> Seq(Events)] /\ queue[t] \in Seq(Events) /\ Len(queue[t]) \in Nat
        /\ MaxQueue \in Nat /\ \A u \in Turns : Len(queue[u]) <= MaxQueue
    BY TurnBoundsAssumption, LenProperties DEF TypeOK
  <1>2. <<>> \in Seq(Events) /\ Len(<<>>) = 0 /\ 0 <= MaxQueue
    BY <1>1, EmptySeq
  <1>3. queue[t] # <<>> => /\ Head(queue[t]) \in Events /\ Tail(queue[t]) \in Seq(Events)
                           /\ Len(Tail(queue[t])) = Len(queue[t]) - 1
    BY <1>1, HeadTailProperties
  <1>4. queue[t] # <<>> => Len(Tail(queue[t])) <= MaxQueue
    BY <1>1, <1>3
  <1> QED
    BY <1>1, <1>2, <1>3, <1>4

LEMMA TypesLoop ==
    ASSUME TypeOK, AskedIsCall, NEW t \in Turns, LoopStep(t)
    PROVE  OtherShapes'
  <1>1. OtherShapes /\ turn \in [Turns -> {"away", "loop", "waiting", "gate", "asking", "closing", "done"}]
    BY ShapesAreTypes DEF TypeOK, Shapes, OtherShapes
  <1>2. UNCHANGED <<stdin, cancel, basis, shed, notices, output, always, allowed>>
    BY DEF LoopStep, HandleUpdate, HandleTerminal, HandleGate, HandleToolApproval, TakesEvent, Suspend,
           TakeCancel, FinishTurn, busVars, taskVars, brokerVars
  <1>3. /\ queue' \in [Turns -> Seq(Events)] /\ \A u \in Turns : Len(queue'[u]) <= MaxQueue
        /\ stop' \in [Turns -> {"none", "end_turn", "cancelled", "refusal", "error"}]
        /\ cancels' \in Turns \cup {Nobody}
    <2>1. CASE HandleUpdate(t) \/ HandleGate(t) \/ HandleToolApproval(t)
      BY <1>1, <2>1, TypesRead DEF HandleUpdate, HandleGate, HandleToolApproval, TakesEvent, GoOn, OtherShapes
    <2>2. CASE HandleTerminal(t) \/ TakeCancel(t)
      BY <1>1, <2>2, TypesRead DEF HandleTerminal, TakeCancel, EndTurn, OtherShapes
    <2>3. CASE Suspend(t) \/ FinishTurn(t)
      BY <1>1, <2>3 DEF Suspend, FinishTurn, OtherShapes, busVars
    <2> QED
      BY <2>1, <2>2, <2>3 DEF LoopStep
  <1>4. carried' \in Turns \cup {Nobody}
    BY <1>1 DEF LoopStep, HandleUpdate, HandleTerminal, HandleGate, HandleToolApproval, TakesEvent, Suspend,
           TakeCancel, FinishTurn, OtherShapes
  <1>5. asked' \in [Turns -> Calls \cup {NoCall}] /\ AskedIsCall'
    <2>1. CASE HandleToolApproval(t)
      <3>1. Head(queue[t]).call \in Calls
        BY <2>1, TypesRead, EventFacts DEF HandleToolApproval, TakesEvent
      <3> QED
        BY <1>1, <2>1, <3>1 DEF HandleToolApproval, GoOn, OtherShapes, AskedIsCall
    <2>2. CASE HandleUpdate(t) \/ HandleGate(t)
      BY <1>1, <2>2 DEF HandleUpdate, HandleGate, GoOn, OtherShapes, AskedIsCall
    <2>3. CASE HandleTerminal(t) \/ TakeCancel(t)
      BY <1>1, <2>3 DEF HandleTerminal, TakeCancel, EndTurn, OtherShapes, AskedIsCall
    <2>4. CASE Suspend(t) \/ FinishTurn(t)
      BY <1>1, <2>4 DEF Suspend, FinishTurn, OtherShapes, AskedIsCall
    <2> QED
      BY <2>1, <2>2, <2>3, <2>4 DEF LoopStep
  <1>6. view' \in [Turns -> [Calls -> EntryState]] /\ outputs' \subseteq Turns \X Calls
    <2>1. CASE HandleUpdate(t)
      <3> DEFINE e == Head(queue[t])
      <3>1. e \in Events /\ Translate(t, e)
        BY <2>1, TypesRead DEF HandleUpdate, TakesEvent
      <3> HIDE DEF e
      <3>2. CASE e.kind \in {"started", "finished"} /\ TranslateNode(t, e) /\ EmitOutput(t, e)
        <4>1. e.call \in Calls
          BY <3>1, <3>2, EventFacts
        <4>2. view' \in [Turns -> [Calls -> EntryState]]
          BY <1>1, <3>2, <4>1 DEF TranslateNode, EntryOf, EntryState, OtherShapes
        <4>3. outputs' \subseteq Turns \X Calls
          BY <1>1, <3>2, <4>1 DEF EmitOutput, OtherShapes
        <4> QED
          BY <4>2, <4>3
      <3>3. CASE Load(t) /\ UNCHANGED outputs
        BY <1>1, <3>3 DEF Load, AllCalls, OtherShapes, EntryState
      <3>4. CASE UNCHANGED <<view, outputs>>
        BY <1>1, <3>4 DEF OtherShapes
      <3> QED
        BY <3>1, <3>2, <3>3, <3>4 DEF Translate
    <2>2. CASE ~HandleUpdate(t)
      BY <1>1, <2>2 DEF LoopStep, HandleTerminal, HandleGate, HandleToolApproval, Suspend, TakeCancel,
             FinishTurn, OtherShapes
    <2> QED
      BY <2>1, <2>2
  <1> QED
    BY <1>1, <1>2, <1>3, <1>4, <1>5, <1>6 DEF OtherShapes

LEMMA TypesAnswer ==
    ASSUME TypeOK, AskedIsCall, NEW t \in Turns, ClientAnswer(t)
    PROVE  OtherShapes'
  <1>1. OtherShapes /\ turn \in [Turns -> {"away", "loop", "waiting", "gate", "asking", "closing", "done"}]
    BY ShapesAreTypes DEF TypeOK, Shapes, OtherShapes
  <1>2. UNCHANGED <<stdin, cancel, carried, basis, shed, notices, output, view, outputs>>
    BY DEF ClientAnswer, GateApproved, GateRevised, GateDeclined, ToolAllowed, ToolDenied, ToolAnswerFails,
           ToolAnswers, Answers
  <1>3. CASE GateApproved(t)
    BY <1>1, <1>2, <1>3 DEF GateApproved, OtherShapes, AskedIsCall, brokerVars
  <1>4. CASE GateRevised(t)
    <2>1. queue' = [queue EXCEPT ![t] = Newest(Append(queue[t], Plain("notice")))]
      BY <1>4 DEF GateRevised
    <2>2. Append(queue[t], Plain("notice")) \in Seq(Events)
      BY <1>1, EventFacts, AppendProperties DEF OtherShapes
    <2>3. queue' \in [Turns -> Seq(Events)] /\ \A u \in Turns : Len(queue'[u]) <= MaxQueue
      BY <1>1, <2>1, <2>2, NewestFacts DEF OtherShapes
    <2> QED
      BY <1>1, <1>2, <1>4, <2>3 DEF GateRevised, OtherShapes, AskedIsCall, brokerVars
  <1>5. CASE GateDeclined(t)
    <2>1. queue' \in [Turns -> Seq(Events)] /\ \A u \in Turns : Len(queue'[u]) <= MaxQueue
      BY <1>5, TypesRead DEF GateDeclined, EndTurn
    <2> QED
      BY <1>1, <1>2, <1>5, <2>1 DEF GateDeclined, EndTurn, OtherShapes, AskedIsCall, brokerVars
  <1>6. CASE ToolAnswerFails(t)
    <2>1. queue' \in [Turns -> Seq(Events)] /\ \A u \in Turns : Len(queue'[u]) <= MaxQueue
      BY <1>6, TypesRead DEF ToolAnswerFails, EndTurn
    <2> QED
      BY <1>1, <1>2, <1>6, <2>1 DEF ToolAnswerFails, ToolAnswers, EndTurn, OtherShapes, AskedIsCall, brokerVars
  <1>7. CASE ToolAllowed(t) \/ ToolDenied(t)
    <2>1. asked[t] \in Calls
      BY <1>1, <1>7 DEF ToolAllowed, ToolDenied, ToolAnswers, Answers, OtherShapes, AskedIsCall
    <2>2. always' \subseteq Tools /\ allowed' \subseteq Turns \X Calls
      <3>1. ToolOf(asked[t]) \in Tools /\ <<t, asked[t]>> \in Turns \X Calls
        BY <2>1 DEF Tools
      <3>2. always' \in {always, always \cup {ToolOf(asked[t])}} /\ allowed' \in {allowed, allowed \cup {<<t, asked[t]>>}}
        BY <1>7 DEF ToolAllowed, ToolDenied
      <3> QED
        BY <1>1, <3>1, <3>2 DEF OtherShapes
    <2>3. UNCHANGED <<stop, cancels, queue, notices>> /\ turn' = [turn EXCEPT ![t] = "loop"]
          /\ asked' = [asked EXCEPT ![t] = NoCall]
      BY <1>2, <1>7 DEF ToolAllowed, ToolDenied, ToolAnswers, BackToLoop
    <2>4. asked' \in [Turns -> Calls \cup {NoCall}] /\ AskedIsCall'
      BY <1>1, <2>3 DEF OtherShapes, AskedIsCall
    <2> QED
      BY <1>1, <1>2, <2>2, <2>3, <2>4 DEF OtherShapes
  <1> QED
    BY <1>3, <1>4, <1>5, <1>6, <1>7 DEF ClientAnswer

LEMMA TypesStep ==
    ASSUME TypeOK, AskedIsCall, Shapes', [Next]_vars
    PROVE  TypeOK' /\ AskedIsCall'
  <1>1. OtherShapes /\ turn \in [Turns -> {"away", "loop", "waiting", "gate", "asking", "closing", "done"}]
    BY ShapesAreTypes DEF TypeOK, Shapes, OtherShapes
  <1>2. ASSUME NEW t \in Turns, Prompt(t) PROVE OtherShapes'
    <2>1. <<Plain("notice")>> \in Seq(Events) /\ Len(<<Plain("notice")>>) <= MaxQueue
      BY EventFacts, SingleEvent, TurnBoundsAssumption
    <2>2. queue' \in [Turns -> Seq(Events)] /\ \A u \in Turns : Len(queue'[u]) <= MaxQueue
      BY <1>1, <1>2, <2>1 DEF Prompt, OtherShapes
    <2> QED
      BY <1>1, <1>2, <2>2 DEF Prompt, OtherShapes, AskedIsCall, brokerVars
  <1>3. ASSUME Cancel \/ CloseStdin PROVE OtherShapes'
    BY <1>1, <1>3 DEF Cancel, CloseStdin, OtherShapes, AskedIsCall, turnVars, busVars, taskVars, brokerVars
  <1>4. ASSUME UNCHANGED vars PROVE OtherShapes'
    <2>1. UNCHANGED <<stdin, turn, asked, stop, cancels, cancel, carried, basis, queue, shed, notices, output,
                      always, allowed, view, outputs>>
      BY <1>4 DEF vars, turnVars, busVars, taskVars, brokerVars
    <2> QED
      BY <1>1, <2>1 DEF OtherShapes, AskedIsCall
  <1>5. ASSUME NEW t \in Turns,
               \/ Prompt(t) \/ DriverStep(t) \/ ExecuteRaises(t) \/ Notice(t) \/ LoopStep(t)
               \/ ClientAnswer(t) \/ \E c \in Calls : CallSteps(t, c)
        PROVE  OtherShapes'
    BY <1>2, <1>5, TypesDriver, TypesCall, TypesLoop, TypesAnswer
  <1>6. OtherShapes'
    BY <1>3, <1>4, <1>5 DEF Next
  <1> QED
    BY <1>6 DEF Shapes, OtherShapes, TypeOK, CallState, EntryState

-----------------------------------------------------------------------------
(* The turns a step is not about.                                           *)

Same(u) ==
    /\ turn'[u] = turn[u] /\ stop'[u] = stop[u] /\ queue'[u] = queue[u] /\ driver'[u] = driver[u]
    /\ row'[u] = row[u] /\ call'[u] = call[u] /\ view'[u] = view[u]
    /\ (u \in shed' <=> u \in shed) /\ (u \in output' <=> u \in output)

LEMMA SameKept ==
    ASSUME NEW u \in Turns, Same(u), Settling(u), Showing(u)
    PROVE  Settling(u)' /\ Showing(u)'
  <1>1. Settling(u)'
    BY DEF Same, Settling
  <1>2. Finished(u)' = Finished(u) /\ (Subscribed(u)' <=> Subscribed(u)) /\ \A c \in Calls : Shown(u, c)' <=> Shown(u, c)
    BY DEF Same, Finished, Subscribed, Shown, EntryOf
  <1>3. \A c \in Finished(u) : c \in Calls
    BY DEF Finished
  <1>4. /\ \A i \in 1..Len(queue'[u]) : queue'[u][i].kind = "completed" =>
             i = Len(queue'[u]) /\ Finished(u)' = Calls
        /\ row'[u] = "completed" => Finished(u)' = Calls
        /\ stop'[u] = "end_turn" /\ row'[u] = "completed" /\ u \notin shed' =>
             \A c \in Calls \ Nested : view'[u][c] = EntryOf(u, c)'
    BY <1>2 DEF Same, Showing, EntryOf
  <1>5. Subscribed(u)' /\ u \notin shed' => \A c \in Finished(u)' \ Nested : Shown(u, c)'
    BY <1>2, <1>3 DEF Same, Showing
  <1> QED
    BY <1>1, <1>4, <1>5 DEF Showing

LEMMA OthersSame ==
    ASSUME TypeOK, NEW t \in Turns, NEW u \in Turns, u # t,
           \/ Prompt(t) \/ DriverStep(t) \/ ExecuteRaises(t) \/ Notice(t) \/ LoopStep(t)
           \/ ClientAnswer(t) \/ \E c \in Calls : CallSteps(t, c)
    PROVE  Same(u)
  <1> DEFINE Typed == /\ turn \in [Turns -> {"away", "loop", "waiting", "gate", "asking", "closing", "done"}]
                      /\ stop \in [Turns -> {"none", "end_turn", "cancelled", "refusal", "error"}]
                      /\ queue \in [Turns -> Seq(Events)]
                      /\ driver \in [Turns -> {"none", "planning", "executing", "cancelling", "done"}]
                      /\ row \in [Turns -> {"absent", "planning", "awaiting_confirmation", "executing",
                                            "completed", "failed", "rejected", "cancelled"}]
                      /\ call \in [Turns -> [Calls -> {"idle", "dispatched", "ready", "asking", "running",
                                                       "finished", "failed", "denied"}]]
                      /\ view \in [Turns -> [Calls -> EntryState]]
  <1>0. Typed
    BY DEF TypeOK, EntryState
  <1>1. ASSUME NEW es, Publish(t, es) PROVE queue'[u] = queue[u] /\ (u \in shed' <=> u \in shed)
    BY <1>0, <1>1 DEF Publish
  <1>2. CASE Prompt(t)
    BY <1>0, <1>2 DEF Prompt, Same
  <1>3. CASE DriverStep(t) \/ ExecuteRaises(t) \/ Notice(t)
    <2>1. queue'[u] = queue[u] /\ (u \in shed' <=> u \in shed)
      BY <1>1, <1>3 DEF DriverStep, PlanningEnds, PresentPlan, ExecuteReturns, ExecuteRaises, DriverCancelled, Notice
    <2>2. turn' = turn /\ stop' = stop /\ call' = call /\ view' = view
      BY <1>3 DEF DriverStep, PlanningEnds, PresentPlan, ExecuteReturns, ExecuteRaises, DriverCancelled,
             DriverEnds, Notice, turnVars
    <2>3. driver'[u] = driver[u] /\ row'[u] = row[u] /\ (u \in output' <=> u \in output)
      BY <1>0, <1>3 DEF DriverStep, PlanningEnds, PresentPlan, ExecuteReturns, ExecuteRaises, DriverCancelled,
             DriverEnds, Notice, taskVars
    <2> QED
      BY <2>1, <2>2, <2>3 DEF Same
  <1>4. ASSUME NEW c \in Calls, CallSteps(t, c) PROVE Same(u)
    <2>1. queue'[u] = queue[u] /\ (u \in shed' <=> u \in shed)
      BY <1>1, <1>4 DEF CallSteps, CallStarts, CallNeedsNoAnswer, CallAsks, CallAllowed, CallDenied, CallReturns
    <2>2. UNCHANGED <<turn, stop, view, driver, row, output>> /\ \E to : call' = [call EXCEPT ![t][c] = to]
      BY <1>4 DEF CallSteps, CallStarts, CallNeedsNoAnswer, CallAsks, CallAllowed, CallDenied, CallReturns,
             CallStep, turnVars, taskVars
    <2> QED
      BY <1>0, <2>1, <2>2 DEF Same
  <1>5. CASE LoopStep(t)
    <2>1. UNCHANGED <<shed, row, output, call>>
      BY <1>5 DEF LoopStep, HandleUpdate, HandleTerminal, HandleGate, HandleToolApproval, TakesEvent, Suspend,
             TakeCancel, FinishTurn, busVars, taskVars
    <2>2. turn'[u] = turn[u] /\ stop'[u] = stop[u] /\ queue'[u] = queue[u] /\ driver'[u] = driver[u]
      BY <1>0, <1>5 DEF LoopStep, HandleUpdate, HandleTerminal, HandleGate, HandleToolApproval, Suspend,
             TakeCancel, FinishTurn, GoOn, EndTurn, busVars, taskVars
    <2>3. view'[u] = view[u]
      <3>1. CASE HandleUpdate(t)
        BY <1>0, <3>1 DEF HandleUpdate, Translate, TranslateNode, Load
      <3>2. CASE ~HandleUpdate(t)
        BY <1>5, <3>2 DEF LoopStep, HandleTerminal, HandleGate, HandleToolApproval, Suspend, TakeCancel, FinishTurn
      <3> QED
        BY <3>1, <3>2
    <2> QED
      BY <2>1, <2>2, <2>3 DEF Same
  <1>6. CASE ClientAnswer(t)
    <2>1. UNCHANGED <<shed, output, view>>
      BY <1>6 DEF ClientAnswer, GateApproved, GateRevised, GateDeclined, ToolAllowed, ToolDenied,
             ToolAnswerFails, ToolAnswers, Answers
    <2>2. turn'[u] = turn[u] /\ stop'[u] = stop[u] /\ queue'[u] = queue[u] /\ driver'[u] = driver[u]
      <3>1. CASE GateApproved(t) \/ GateRevised(t)
        BY <1>0, <3>1 DEF GateApproved, GateRevised
      <3>2. CASE GateDeclined(t) \/ ToolAnswerFails(t)
        BY <1>0, <3>2 DEF GateDeclined, ToolAnswerFails, EndTurn
      <3>3. CASE ToolAllowed(t) \/ ToolDenied(t)
        BY <1>0, <3>3 DEF ToolAllowed, ToolDenied, BackToLoop
      <3> QED
        BY <1>6, <3>1, <3>2, <3>3 DEF ClientAnswer
    <2>3. row'[u] = row[u] /\ call'[u] = call[u]
      <3>1. CASE GateApproved(t)
        BY <1>0, <3>1 DEF GateApproved
      <3>2. CASE ~GateApproved(t)
        BY <1>6, <3>2 DEF ClientAnswer, GateRevised, GateDeclined, ToolAllowed, ToolDenied, ToolAnswerFails,
               ToolAnswers
      <3> QED
        BY <3>1, <3>2
    <2> QED
      BY <2>1, <2>2, <2>3 DEF Same
  <1> QED
    BY <1>2, <1>3, <1>4, <1>5, <1>6

-----------------------------------------------------------------------------
(* What the client sees of the finished calls.                              *)

\* Events that open no entry again leave what is shown shown.
LEMMA PublishShows ==
    ASSUME TypeOK, NEW t \in Turns, NEW es \in Seq(Events), Publish(t, es), view' = view,
           Subscribed(t), t \notin shed', NEW c \in Calls, Shown(t, c), EntryOf(t, c)' = EntryOf(t, c),
           \A j \in 1..Len(es) : ~Resets(es[j], c)
    PROVE  Shown(t, c)'
  <1> DEFINE q == queue[t]
             r == queue'[t]
  <1>1. q \in Seq(Events) /\ r = q \o es
    BY PublishFacts DEF TypeOK
  <1> HIDE DEF q, r
  <1>2. /\ Len(q) \in Nat /\ Len(es) \in Nat /\ Len(r) = Len(q) + Len(es)
        /\ \A i \in 1..(Len(q) + Len(es)) : r[i] = IF i <= Len(q) THEN q[i] ELSE es[i - Len(q)]
    BY <1>1, ConcatProperties, LenProperties
  <1>3. ASSUME NEW i \in 1..Len(r)
        PROVE  (i \in 1..Len(q) /\ r[i] = q[i]) \/ (i > Len(q) /\ ~Resets(r[i], c))
    <2>1. i <= Len(q) => i \in 1..Len(q)
      BY <1>2
    <2>2. ~(i <= Len(q)) => i > Len(q) /\ i - Len(q) \in 1..Len(es)
      BY <1>2
    <2> QED
      BY <1>2, <2>1, <2>2
  <1>4. \A i \in 1..Len(q) : i \in 1..Len(r) /\ r[i] = q[i]
    BY <1>2
  <1>5. CASE view[t][c] = EntryOf(t, c) /\ \A j \in 1..Len(q) : ~Resets(q[j], c)
    BY <1>3, <1>5 DEF Shown, Resets, r
  <1>6. ASSUME NEW i \in 1..Len(q), q[i] = Event("finished", c), \A j \in 1..Len(q) : j > i => ~Resets(q[j], c)
        PROVE  Shown(t, c)'
    <2>1. i \in 1..Len(r) /\ r[i] = Event("finished", c) /\ \A j \in 1..Len(r) : j > i => ~Resets(r[j], c)
      BY <1>3, <1>4, <1>6
    <2> QED
      BY <2>1 DEF Shown, Resets, r, Event
  <1> QED
    BY <1>5, <1>6 DEF Shown, q

\* The last event published is that the call has finished.
LEMMA PublishFinished ==
    ASSUME TypeOK, NEW t \in Turns, NEW c \in Calls, Publish(t, <<Event("finished", c)>>),
           Subscribed(t), t \notin shed'
    PROVE  Shown(t, c)'
  <1> DEFINE e == Event("finished", c)
             q == queue[t]
             r == queue'[t]
  <1>1. e \in Events /\ <<e>> \in Seq(Events) /\ Len(<<e>>) = 1 /\ <<e>>[1] = e
    BY EventFacts, SingleEvent
  <1>2. q \in Seq(Events) /\ r = q \o <<e>>
    BY <1>1, PublishFacts DEF TypeOK
  <1> HIDE DEF q, r, e
  <1>3. /\ Len(q) \in Nat /\ Len(r) = Len(q) + 1
        /\ \A i \in 1..(Len(q) + 1) : r[i] = IF i <= Len(q) THEN q[i] ELSE <<e>>[i - Len(q)]
    BY <1>1, <1>2, ConcatProperties, LenProperties
  <1>4. Len(r) \in 1..Len(r) /\ ~(Len(r) <= Len(q)) /\ Len(r) - Len(q) = 1 /\ \A j \in 1..Len(r) : ~(j > Len(r))
    BY <1>3
  <1>5. r[Len(r)] = e
    BY <1>1, <1>3, <1>4
  <1> QED
    BY <1>4, <1>5 DEF Shown, Resets, r, e, Event

\* Reading the first event: the entry is completed by its finish, and stays so
\* unless the event opens it again.
LEMMA ReadShows ==
    ASSUME TypeOK, NEW t \in Turns, queue[t] # <<>>, queue' = [queue EXCEPT ![t] = Tail(@)],
           NEW c \in Calls, Shown(t, c), EntryOf(t, c)' = EntryOf(t, c),
           Head(queue[t]) = Event("finished", c) => view'[t][c] = EntryOf(t, c),
           view[t][c] = EntryOf(t, c) /\ ~Resets(Head(queue[t]), c) => view'[t][c] = EntryOf(t, c)
    PROVE  Shown(t, c)'
  <1> DEFINE q == queue[t]
             r == queue'[t]
  <1>1. q \in Seq(Events) /\ r = Tail(q) /\ q # <<>>
    BY DEF TypeOK
  <1> HIDE DEF q, r
  <1>2. /\ Len(q) \in Nat /\ Len(q) >= 1 /\ Len(r) = Len(q) - 1 /\ Head(q) = q[1]
        /\ \A i \in 1..Len(r) : r[i] = q[i + 1]
    BY <1>1, HeadTailProperties, EmptySeq, LenProperties
  <1>3. 1 \in 1..Len(q) /\ \A i \in 1..Len(r) : i + 1 \in 1..Len(q) /\ r[i] = q[i + 1]
    BY <1>2
  <1>4. \A i \in 1..Len(q) : i = 1 \/ (i - 1 \in 1..Len(r) /\ r[i - 1] = q[i])
    <2> SUFFICES ASSUME NEW i \in 1..Len(q), i # 1 PROVE i - 1 \in 1..Len(r) /\ r[i - 1] = q[i]
      OBVIOUS
    <2>1. i - 1 \in 1..Len(r) /\ (i - 1) + 1 = i
      BY <1>2
    <2> QED
      BY <1>3, <2>1
  <1>5. CASE view[t][c] = EntryOf(t, c) /\ \A j \in 1..Len(q) : ~Resets(q[j], c)
    <2>1. view'[t][c] = EntryOf(t, c)
      BY <1>2, <1>3, <1>5 DEF q
    <2>2. \A j \in 1..Len(r) : ~Resets(r[j], c)
      BY <1>3, <1>5
    <2> QED
      BY <2>1, <2>2 DEF Shown, Resets, r
  <1>6. ASSUME NEW i \in 1..Len(q), q[i] = Event("finished", c), \A j \in 1..Len(q) : j > i => ~Resets(q[j], c)
        PROVE  Shown(t, c)'
    <2>1. CASE i = 1
      <3>1. view'[t][c] = EntryOf(t, c)
        BY <1>2, <1>6, <2>1 DEF q
      <3>2. \A j \in 1..Len(r) : j + 1 > 1
        BY <1>2
      <3>3. \A j \in 1..Len(r) : ~Resets(r[j], c)
        BY <1>3, <1>6, <2>1, <3>2
      <3> QED
        BY <3>1, <3>3 DEF Shown, Resets, r
    <2>2. CASE i # 1
      <3>1. i - 1 \in 1..Len(r) /\ r[i - 1] = Event("finished", c)
        BY <1>4, <1>6, <2>2
      <3>2. \A j \in 1..Len(r) : j > i - 1 => j + 1 > i
        BY <1>2
      <3>3. \A j \in 1..Len(r) : j > i - 1 => ~Resets(r[j], c)
        BY <1>3, <1>6, <3>2
      <3> QED
        BY <3>1, <3>3 DEF Shown, Resets, r, Event
    <2> QED
      BY <2>1, <2>2
  <1> QED
    BY <1>5, <1>6 DEF Shown, q

-----------------------------------------------------------------------------
(* The turn a step is about.                                                *)

\* Publishing while nothing has ended: every terminal event is a new one.
LEMMA PublishedKinds ==
    ASSUME TypeOK, NEW t \in Turns, NEW es \in Seq(Events), Publish(t, es), Settling(t), Showing(t)
    PROVE  /\ \A i \in 1..Len(queue'[t]) : queue'[t][i].kind \in Terminal =>
                 \/ driver[t] = "done" /\ row[t] = OutcomeOf(queue'[t][i].kind)
                 \/ \E j \in 1..Len(es) : queue'[t][i] = es[j]
           /\ \A i \in 1..Len(queue'[t]) : queue'[t][i].kind = "completed" =>
                 \/ driver[t] = "done" /\ row[t] = "completed" /\ Finished(t) = Calls
                 \/ \E j \in 1..Len(es) : queue'[t][i] = es[j] /\ i = Len(queue'[t]) - Len(es) + j
  <1>1. \A i \in 1..Len(queue'[t]) :
           \/ \E j \in 1..Len(queue[t]) : queue'[t][i] = queue[t][j]
           \/ \E j \in 1..Len(es) : queue'[t][i] = es[j] /\ i = Len(queue'[t]) - Len(es) + j
    BY PublishFacts
  <1>2. \A j \in 1..Len(queue[t]) :
           /\ queue[t][j].kind \in Terminal => driver[t] = "done" /\ row[t] = OutcomeOf(queue[t][j].kind)
           /\ queue[t][j].kind = "completed" =>
                 driver[t] = "done" /\ row[t] = "completed" /\ Finished(t) = Calls
    BY DEF Settling, Showing, OutcomeOf, Terminal
  <1>3. ASSUME NEW i \in 1..Len(queue'[t]), NEW j \in 1..Len(queue[t]), queue'[t][i] = queue[t][j]
        PROVE  /\ queue'[t][i].kind \in Terminal => driver[t] = "done" /\ row[t] = OutcomeOf(queue'[t][i].kind)
               /\ queue'[t][i].kind = "completed" =>
                     driver[t] = "done" /\ row[t] = "completed" /\ Finished(t) = Calls
    BY <1>2, <1>3
  <1> QED
    BY <1>1, <1>3

\* The coroutine ends with a terminal event: k speaks of what it saves.
LEMMA DriverEnding ==
    ASSUME TypeOK, NEW t \in Turns, Settling(t), Showing(t), driver[t] \in {"planning", "executing"},
           NEW k \in Terminal, Publish(t, <<Plain(k)>>), driver'[t] = "done", row'[t] = OutcomeOf(k),
           t \in output' => t \in output \/ k = "completed", k = "completed" => Finished(t) = Calls,
           UNCHANGED <<turn, stop, call, view>>
    PROVE  Settling(t)' /\ Showing(t)'
  <1> DEFINE es == <<Plain(k)>>
  <1>1. Plain(k) \in Events /\ Plain(k).kind = k /\ es \in Seq(Events) /\ Len(es) = 1 /\ es[1] = Plain(k)
        /\ Publish(t, es)
    BY EventFacts, SingleEvent
  <1> HIDE DEF es
  <1>2. /\ driver[t] # "done" /\ turn[t] # "away" /\ turn[t] # "done" /\ t \notin output /\ stop[t] # "end_turn"
        /\ OutcomeOf(k) \in {"completed", "failed", "rejected"} /\ (k = "completed" => OutcomeOf(k) = "completed")
    BY DEF Settling, OutcomeOf
  <1>3. \A j \in 1..Len(es) : es[j] = Plain(k) /\ j = 1
    BY <1>1
  <1>4. \A i \in 1..Len(queue'[t]) : queue'[t][i].kind \in Terminal => queue'[t][i] = Plain(k)
    <2>1. \A i \in 1..Len(queue'[t]) : queue'[t][i].kind \in Terminal => \E j \in 1..Len(es) : queue'[t][i] = es[j]
      BY <1>1, <1>2, PublishedKinds
    <2> QED
      BY <1>3, <2>1
  <1>5. ASSUME NEW i \in 1..Len(queue'[t]), queue'[t][i].kind = "completed"
        PROVE  i = Len(queue'[t]) /\ k = "completed"
    <2>1. \E j \in 1..Len(es) : queue'[t][i] = es[j] /\ i = Len(queue'[t]) - Len(es) + j
      BY <1>1, <1>2, <1>5, PublishedKinds
    <2>2. queue'[t][i] = Plain(k) /\ i = Len(queue'[t]) - 1 + 1 /\ Len(queue'[t]) \in Nat
      <3>1. Len(queue'[t]) \in Nat
        BY <1>1, PublishFacts, LenProperties
      <3> QED
        BY <1>1, <1>3, <2>1, <3>1
    <2> QED
      BY <1>1, <1>5, <2>2
  <1>6. Settling(t)'
    <2>1. \A i \in 1..Len(queue'[t]) : queue'[t][i].kind \in Terminal =>
             driver'[t] = "done" /\ row'[t] = OutcomeOf(queue'[t][i].kind)
      BY <1>1, <1>4
    <2> QED
      BY <1>2, <2>1 DEF Settling, OutcomeOf
  <1>7. /\ Finished(t)' = Finished(t) /\ (Subscribed(t)' <=> Subscribed(t))
        /\ \A c \in Calls : EntryOf(t, c)' = EntryOf(t, c)
    BY DEF Finished, Subscribed, EntryOf
  <1>8. ASSUME Subscribed(t), t \notin shed', NEW c \in Finished(t) \ Nested PROVE Shown(t, c)'
    <2>1. c \in Calls /\ t \notin shed /\ Shown(t, c)
      BY <1>1, <1>8, PublishFacts DEF Showing, Finished
    <2>2. \A j \in 1..Len(es) : ~Resets(es[j], c)
      BY <1>1, <1>3 DEF Resets, Terminal
    <2> QED
      BY <1>1, <1>7, <1>8, <2>1, <2>2, PublishShows
  <1>9. Showing(t)'
    BY <1>2, <1>5, <1>7, <1>8 DEF Showing, OutcomeOf, Terminal
  <1> QED
    BY <1>6, <1>9

\* Events that end nothing and open no entry of a finished call.
LEMMA Telling ==
    ASSUME TypeOK, NEW t \in Turns, Settling(t), Showing(t), NEW es \in Seq(Events), Publish(t, es),
           \A j \in 1..Len(es) : es[j].kind \notin Terminal,
           UNCHANGED <<turn, stop, view>>, t \in output' <=> t \in output,
           \/ UNCHANGED <<driver, row>>
           \/ driver[t] = "planning" /\ driver'[t] = "done" /\ row'[t] = "awaiting_confirmation",
           Finished(t) # Calls \/ driver[t] # "done" \/ row[t] = "failed",
           \A c \in Finished(t) : c \in Finished(t)' /\ EntryOf(t, c)' = EntryOf(t, c),
           \A c \in Finished(t)' : \/ c \in Finished(t) /\ \A j \in 1..Len(es) : ~Resets(es[j], c)
                                   \/ es = <<Event("finished", c)>>
    PROVE  Settling(t)' /\ Showing(t)'
  <1>1. /\ \A i \in 1..Len(queue'[t]) : queue'[t][i].kind \in Terminal =>
               driver[t] = "done" /\ row[t] = OutcomeOf(queue'[t][i].kind)
        /\ \A i \in 1..Len(queue'[t]) : queue'[t][i].kind # "completed"
    <2>1. ASSUME NEW i \in 1..Len(queue'[t]), queue'[t][i].kind \in Terminal
          PROVE  driver[t] = "done" /\ row[t] = OutcomeOf(queue'[t][i].kind)
      <3>1. ~\E j \in 1..Len(es) : queue'[t][i] = es[j]
        BY <2>1
      <3> QED
        BY <2>1, <3>1, PublishedKinds
    <2>2. ASSUME NEW i \in 1..Len(queue'[t]), queue'[t][i].kind = "completed" PROVE FALSE
      <3>1. ~\E j \in 1..Len(es) : queue'[t][i] = es[j]
        BY <2>2 DEF Terminal
      <3> QED
        BY <2>2, <3>1, PublishedKinds
    <2> QED
      BY <2>1, <2>2
  <1>2. Settling(t)'
    <2>1. CASE UNCHANGED <<driver, row>>
      BY <1>1, <2>1 DEF Settling, OutcomeOf
    <2>2. CASE driver[t] = "planning" /\ driver'[t] = "done" /\ row'[t] = "awaiting_confirmation"
      BY <1>1, <2>2 DEF Settling
    <2> QED
      BY <2>1, <2>2
  <1>3. Subscribed(t)' <=> Subscribed(t)
    BY DEF Subscribed
  <1>4. ASSUME Subscribed(t), t \notin shed', NEW c \in Finished(t)' \ Nested PROVE Shown(t, c)'
    <2>1. c \in Calls /\ t \notin shed
      BY <1>4, PublishFacts DEF Finished
    <2>2. CASE c \in Finished(t) /\ \A j \in 1..Len(es) : ~Resets(es[j], c)
      <3>1. Shown(t, c)
        BY <1>4, <2>1, <2>2 DEF Showing
      <3> QED
        BY <1>4, <2>1, <2>2, <3>1, PublishShows DEF Finished
    <2>3. CASE es = <<Event("finished", c)>>
      BY <1>4, <2>1, <2>3, PublishFinished
    <2> QED
      BY <1>4, <2>2, <2>3
  <1>5. /\ row'[t] = "completed" => Finished(t)' = Calls
        /\ stop'[t] = "end_turn" /\ row'[t] = "completed" /\ t \notin shed' =>
           \A c \in Calls \ Nested : view'[t][c] = EntryOf(t, c)'
    <2>1. row'[t] = "completed" => row[t] = "completed" /\ Finished(t) = Calls
      BY DEF Showing
    <2>2. Finished(t)' \subseteq Calls
      BY DEF Finished
    <2>3. row'[t] = "completed" => Finished(t)' = Calls /\ \A c \in Calls : EntryOf(t, c)' = EntryOf(t, c)
      BY <2>1, <2>2
    <2> QED
      BY <2>1, <2>3, PublishFacts DEF Showing
  <1>6. Showing(t)'
    BY <1>1, <1>3, <1>4, <1>5 DEF Showing
  <1> QED
    BY <1>2, <1>6

\* No call has finished before the plan is approved.
LEMMA IdleShowsNothing ==
    ASSUME ConsentInv, NEW t \in Turns,
           turn[t] = "away" \/ driver[t] = "planning" \/ row[t] = "awaiting_confirmation"
    PROVE  Finished(t) = {}
  BY DEF ConsentInv, IdleBeforeApproval, Finished

LEMMA TurnDriver ==
    ASSUME ConsentInv, TypeOK, NEW t \in Turns, Settling(t), Showing(t),
           DriverStep(t) \/ ExecuteRaises(t) \/ Notice(t)
    PROVE  Settling(t)' /\ Showing(t)'
  <1>0. driver \in [Turns -> {"none", "planning", "executing", "cancelling", "done"}]
        /\ row \in [Turns -> {"absent", "planning", "awaiting_confirmation", "executing",
                              "completed", "failed", "rejected", "cancelled"}]
    BY DEF TypeOK
  <1>1. CASE PlanningEnds(t)
    <2>1. PICK e \in {"plan_failed", "plan_rejected", "failed"} :
             /\ Publish(t, <<Plain(e)>>)
             /\ row' = [row EXCEPT ![t] = IF e = "plan_rejected" THEN "rejected" ELSE "failed"]
      BY <1>1 DEF PlanningEnds
    <2>2. e \in Terminal /\ e # "completed" /\ row'[t] = OutcomeOf(e) /\ driver'[t] = "done"
          /\ driver[t] = "planning"
      BY <1>0, <1>1, <2>1 DEF PlanningEnds, Terminal, OutcomeOf
    <2>3. UNCHANGED <<turn, stop, call, view, output>>
      BY <1>1 DEF PlanningEnds, turnVars
    <2> QED
      BY <2>1, <2>2, <2>3, DriverEnding
  <1>2. CASE PresentPlan(t)
    <2> DEFINE es == <<Plain("plan_ready"), Plain("awaiting")>>
    <2>1. /\ Plain("plan_ready") \in Events /\ Plain("awaiting") \in Events
          /\ Plain("plan_ready").kind = "plan_ready" /\ Plain("awaiting").kind = "awaiting"
      BY EventFacts
    <2>2. es \in Seq(Events) /\ Len(es) = 2 /\ es[1] = Plain("plan_ready") /\ es[2] = Plain("awaiting")
          /\ Publish(t, es)
      BY <1>2, <2>1, PairOfEvents DEF PresentPlan
    <2> HIDE DEF es
    <2>3. \A j \in 1..Len(es) : es[j].kind \notin Terminal
      BY <2>1, <2>2 DEF Terminal
    <2>4. UNCHANGED <<turn, stop, call, view, output>> /\ driver[t] = "planning" /\ driver'[t] = "done"
          /\ row'[t] = "awaiting_confirmation"
      BY <1>0, <1>2 DEF PresentPlan, turnVars
    <2>5. Finished(t)' = {} /\ Finished(t) = {}
      BY <2>4, IdleShowsNothing DEF Finished
    <2> QED
      BY <2>2, <2>3, <2>4, <2>5, Telling
  <1>3. CASE ExecuteReturns(t)
    <2>1. /\ driver[t] = "executing" /\ Publish(t, <<Plain("completed")>>) /\ driver'[t] = "done"
          /\ row'[t] = OutcomeOf("completed") /\ Finished(t) = Calls /\ "completed" \in Terminal
          /\ UNCHANGED <<turn, stop, call, view>>
      BY <1>0, <1>3 DEF ExecuteReturns, DriverEnds, OutcomeOf, Terminal, turnVars
    <2> QED
      BY <2>1, DriverEnding
  <1>4. CASE ExecuteRaises(t)
    <2>1. /\ driver[t] = "executing" /\ Publish(t, <<Plain("failed")>>) /\ driver'[t] = "done"
          /\ row'[t] = OutcomeOf("failed") /\ "failed" \in Terminal
          /\ UNCHANGED <<turn, stop, call, view, output>>
      BY <1>0, <1>4 DEF ExecuteRaises, DriverEnds, OutcomeOf, Terminal, turnVars
    <2> QED
      BY <2>1, DriverEnding
  <1>5. CASE DriverCancelled(t)
    <2>1. /\ driver[t] = "cancelling" /\ driver'[t] = "done" /\ row'[t] = "cancelled"
          /\ UNCHANGED <<turn, stop, call, view, output, queue, shed>>
      BY <1>0, <1>5 DEF DriverCancelled, DriverEnds, turnVars
    <2>2. Settling(t)'
      BY <2>1 DEF Settling
    <2>3. Finished(t)' = Finished(t) /\ (Subscribed(t)' <=> Subscribed(t)) /\ \A c : Shown(t, c)' <=> Shown(t, c)
      BY <2>1 DEF Finished, Subscribed, Shown, EntryOf
    <2>4. Showing(t)'
      BY <2>1, <2>3 DEF Showing
    <2> QED
      BY <2>2, <2>4
  <1>6. CASE Notice(t)
    <2> DEFINE es == <<Plain("notice")>>
    <2>1. Plain("notice") \in Events /\ Plain("notice").kind = "notice"
      BY EventFacts
    <2>2. es \in Seq(Events) /\ Len(es) = 1 /\ es[1] = Plain("notice") /\ Publish(t, es)
      BY <1>6, <2>1, SingleEvent DEF Notice
    <2> HIDE DEF es
    <2>3. \A j \in 1..Len(es) : es[j].kind \notin Terminal /\ \A c : ~Resets(es[j], c)
      BY <2>1, <2>2 DEF Terminal, Resets
    <2>4. /\ UNCHANGED <<turn, stop, call, view, output, driver, row>>
          /\ driver[t] = "executing" \/ row[t] = "failed"
      BY <1>6 DEF Notice, turnVars, taskVars
    <2>5. Finished(t)' = Finished(t) /\ \A c : EntryOf(t, c)' = EntryOf(t, c)
      BY <2>4 DEF Finished, EntryOf
    <2> QED
      BY <2>2, <2>3, <2>4, <2>5, Telling
  <1> QED
    BY <1>1, <1>2, <1>3, <1>4, <1>5, <1>6 DEF DriverStep

LEMMA TurnCall ==
    ASSUME ConsentInv, TypeOK, NEW t \in Turns, Settling(t), Showing(t), NEW c \in Calls, CallSteps(t, c)
    PROVE  Settling(t)' /\ Showing(t)'
  <1>0. call \in [Turns -> [Calls -> {"idle", "dispatched", "ready", "asking", "running", "finished", "failed", "denied"}]]
    BY DEF TypeOK
  <1>1. UNCHANGED <<turn, stop, view, driver, row, output>>
    BY DEF CallSteps, CallStarts, CallNeedsNoAnswer, CallAsks, CallAllowed, CallDenied, CallReturns,
           CallStep, turnVars, taskVars
  <1>2. c \notin Finished(t) /\ Finished(t) # Calls
    BY DEF CallSteps, CallStarts, CallNeedsNoAnswer, CallAsks, CallAllowed, CallDenied, CallReturns,
           CallStep, Finished
  <1>3. row[t] # "completed"
    BY <1>2 DEF Showing
  <1>4. \A d \in Calls : d # c => call'[t][d] = call[t][d]
    <2>1. \E to : call' = [call EXCEPT ![t][c] = to]
      BY DEF CallSteps, CallStarts, CallNeedsNoAnswer, CallAsks, CallAllowed, CallDenied, CallReturns,
             CallStep
    <2> QED
      BY <1>0, <2>1
  <1>5. \A d \in Finished(t) : d \in Finished(t)' /\ EntryOf(t, d)' = EntryOf(t, d)
    BY <1>2, <1>4 DEF Finished, EntryOf
  <1>6. CASE UNCHANGED <<queue, shed>> /\ Finished(t)' = Finished(t)
    <2>1. Settling(t)'
      BY <1>1, <1>6 DEF Settling, OutcomeOf
    <2>2. (Subscribed(t)' <=> Subscribed(t)) /\ \A d \in Finished(t) : Shown(t, d)' <=> Shown(t, d)
      BY <1>1, <1>6, <1>5 DEF Subscribed, Shown
    <2>3. Showing(t)'
      BY <1>1, <1>6, <1>3, <2>2 DEF Showing
    <2> QED
      BY <2>1, <2>3
  <1>7. ASSUME NEW k \in {"approval", "started", "finished"}, Publish(t, <<Event(k, c)>>),
               Finished(t)' = IF k = "finished" THEN Finished(t) \cup {c} ELSE Finished(t)
        PROVE  Settling(t)' /\ Showing(t)'
    <2> DEFINE es == <<Event(k, c)>>
    <2>1. Event(k, c) \in Events /\ Event(k, c).kind = k /\ Event(k, c).call = c
      BY EventFacts
    <2>2. es \in Seq(Events) /\ Len(es) = 1 /\ es[1] = Event(k, c) /\ Publish(t, es)
      BY <1>7, <2>1, SingleEvent
    <2>3. k = "finished" => es = <<Event("finished", c)>>
      OBVIOUS
    <2> HIDE DEF es
    <2>4. \A j \in 1..Len(es) : es[j].kind \notin Terminal /\ \A d \in Finished(t) : ~Resets(es[j], d)
      BY <1>2, <2>1, <2>2 DEF Terminal, Resets
    <2>5. \A d \in Finished(t)' : d \in Finished(t) \/ (d = c /\ k = "finished")
      BY <1>7
    <2>6. \A d \in Finished(t)' : \/ d \in Finished(t) /\ \A j \in 1..Len(es) : ~Resets(es[j], d)
                                  \/ es = <<Event("finished", d)>>
      BY <2>3, <2>4, <2>5
    <2> QED
      BY <1>1, <1>2, <1>5, <2>2, <2>4, <2>6, Telling
  <1>8. CASE CallStarts(t, c)
    BY <1>0, <1>7, <1>8 DEF CallStarts, CallStep, Finished
  <1>9. CASE CallNeedsNoAnswer(t, c) \/ CallAllowed(t, c)
    BY <1>0, <1>6, <1>9 DEF CallNeedsNoAnswer, CallAllowed, CallStep, Finished
  <1>10. CASE CallAsks(t, c)
    <2>1. Finished(t)' = Finished(t)
      BY <1>0, <1>10 DEF CallAsks, CallStep, Finished
    <2> QED
      BY <1>6, <1>7, <1>10, <2>1 DEF CallAsks
  <1>11. CASE CallDenied(t, c) \/ CallReturns(t, c)
    <2>0. call'[t][c] \in {"finished", "failed", "denied"}
      BY <1>0, <1>11 DEF CallDenied, CallReturns, CallStep
    <2>1. Finished(t)' = Finished(t) \cup {c}
      BY <1>4, <1>5, <2>0 DEF Finished
    <2> QED
      BY <1>7, <1>11, <2>1 DEF CallDenied, CallReturns
  <1> QED
    BY <1>8, <1>9, <1>10, <1>11 DEF CallSteps

LEMMA TurnPrompt ==
    ASSUME ConsentInv, TypeOK, NEW t \in Turns, Settling(t), Showing(t), Prompt(t)
    PROVE  Settling(t)' /\ Showing(t)'
  <1>1. /\ turn'[t] = "loop" /\ turn[t] = "away" /\ driver'[t] = "planning" /\ row'[t] = "planning"
        /\ queue'[t] = <<Plain("notice")>> /\ UNCHANGED <<stop, output, shed, call, view>>
    BY DEF Prompt, TypeOK
  <1>2. Len(queue'[t]) = 1 /\ queue'[t][1].kind = "notice"
    BY <1>1, EventFacts, SingleEvent
  <1>3. \A i \in 1..Len(queue'[t]) : queue'[t][i].kind = "notice"
    BY <1>2
  <1>4. Finished(t)' = {}
    BY <1>1, IdleShowsNothing DEF Finished
  <1>5. Settling(t)'
    BY <1>1, <1>3 DEF Settling, Terminal
  <1>6. Showing(t)'
    BY <1>1, <1>3, <1>4 DEF Settling, Showing
  <1> QED
    BY <1>5, <1>6

\* Reading an event that does not end the turn.
LEMMA TurnReads ==
    ASSUME TypeOK, NEW t \in Turns, Settling(t), Showing(t), Awake(t), queue[t] # <<>>,
           NEW to \in {"loop", "gate", "asking"}, GoOn(t, to), UNCHANGED <<row, output, shed, call>>,
           \A c \in Calls \ Nested :
              /\ Head(queue[t]) = Event("finished", c) => view'[t][c] = EntryOf(t, c)
              /\ view[t][c] = EntryOf(t, c) /\ ~Resets(Head(queue[t]), c) => view'[t][c] = EntryOf(t, c)
    PROVE  Settling(t)' /\ Showing(t)'
  <1> DEFINE q == queue[t]
             r == queue'[t]
  <1>1. /\ turn'[t] = to /\ turn[t] \in {"loop", "waiting"} /\ q \in Seq(Events) /\ q # <<>> /\ r = Tail(q)
        /\ queue' = [queue EXCEPT ![t] = Tail(@)] /\ UNCHANGED <<stop, driver>>
    BY DEF GoOn, Awake, TypeOK
  <1> HIDE DEF q, r
  <1>2. /\ Len(q) \in Nat /\ Len(q) >= 1 /\ Len(r) = Len(q) - 1
        /\ \A i \in 1..Len(r) : r[i] = q[i + 1]
    BY <1>1, HeadTailProperties, EmptySeq, LenProperties
  <1>3. \A i \in 1..Len(r) : i + 1 \in 1..Len(q) /\ r[i] = q[i + 1] /\ (i + 1 = Len(q) => i = Len(r))
    BY <1>2
  <1>4. stop[t] # "end_turn" /\ Subscribed(t) /\ Finished(t)' = Finished(t)
    BY <1>1 DEF Settling, Subscribed, Finished
  <1>5. \A i \in 1..Len(r) : r[i].kind \in Terminal => driver[t] = "done" /\ row[t] = OutcomeOf(r[i].kind)
    BY <1>3 DEF Settling, q
  <1>6. Settling(t)'
    BY <1>1, <1>4, <1>5 DEF Settling, r, OutcomeOf
  <1>7. \A i \in 1..Len(r) : r[i].kind = "completed" => i = Len(r) /\ Finished(t) = Calls
    BY <1>3 DEF Showing, q
  <1>8. ASSUME t \notin shed, NEW c \in Finished(t) \ Nested PROVE Shown(t, c)'
    <2>1. c \in Calls \ Nested /\ Shown(t, c)
      BY <1>4, <1>8 DEF Showing, Finished
    <2> QED
      BY <1>1, <2>1, ReadShows DEF EntryOf
  <1>9. Showing(t)'
    BY <1>1, <1>4, <1>7, <1>8 DEF Showing, r
  <1> QED
    BY <1>6, <1>9

\* What an ended turn leaves behind.
LEMMA TurnEnds ==
    ASSUME TypeOK, NEW t \in Turns, Settling(t), Showing(t), NEW reason \in {"end_turn", "cancelled", "refusal", "error"},
           turn[t] # "away", EndTurn(t, reason), UNCHANGED <<row, output, shed, call, view>>,
           reason = "end_turn" => /\ driver[t] = "done" /\ row[t] \in {"completed", "failed", "rejected"}
                                  /\ row[t] = "completed" /\ t \notin shed =>
                                        \A c \in Calls \ Nested : view[t][c] = EntryOf(t, c)
    PROVE  Settling(t)' /\ Showing(t)'
  <1>1. /\ turn'[t] = "closing" /\ stop'[t] = reason /\ queue'[t] = <<>>
        /\ driver'[t] = (IF driver[t] = "done" THEN "done" ELSE "cancelling")
    BY DEF EndTurn, TypeOK
  <1>2. \A i \in 1..Len(queue'[t]) : FALSE
    <2>1. Len(queue'[t]) = 0
      BY <1>1, EmptySeq
    <2> QED
      BY <2>1
  <1>3. Settling(t)'
    BY <1>1, <1>2 DEF Settling
  <1>4. Finished(t)' = Finished(t) /\ \A c : EntryOf(t, c)' = EntryOf(t, c)
    BY DEF Finished, EntryOf
  <1>5. Showing(t)'
    BY <1>1, <1>2, <1>4 DEF Showing, Subscribed
  <1> QED
    BY <1>3, <1>5

LEMMA TurnLoop ==
    ASSUME ConsentInv, TypeOK, NEW t \in Turns, Settling(t), Showing(t), LoopStep(t)
    PROVE  Settling(t)' /\ Showing(t)'
  <1>1. CASE HandleUpdate(t)
    <2> DEFINE e == Head(queue[t])
    <2>1. /\ Awake(t) /\ queue[t] # <<>> /\ GoOn(t, "loop") /\ UNCHANGED <<row, output, shed, call>>
          /\ Translate(t, e)
      BY <1>1 DEF HandleUpdate, TakesEvent
    <2> HIDE DEF e
    <2>2. e \in Events
      BY <2>1, TypesRead DEF e
    <2>3. ASSUME NEW c \in Calls \ Nested
          PROVE  /\ e = Event("finished", c) => view'[t][c] = EntryOf(t, c)
                 /\ view[t][c] = EntryOf(t, c) /\ ~Resets(e, c) => view'[t][c] = EntryOf(t, c)
      <3>1. view \in [Turns -> [Calls -> EntryState]]
        BY DEF TypeOK, EntryState
      <3>2. Event("finished", c).kind = "finished" /\ Event("finished", c).call = c
        BY EventFacts
      <3>3. CASE e.kind \in {"started", "finished"} /\ e.call \notin Nested /\ TranslateNode(t, e)
        <4>1. e.call \in Calls
          BY <2>2, <3>3, EventFacts
        <4>2. view'[t][c] = IF e.call = c THEN IF e.kind = "started" THEN "in_progress" ELSE EntryOf(t, c)
                            ELSE view[t][c]
          BY <3>1, <3>3, <4>1 DEF TranslateNode
        <4> QED
          BY <3>2, <3>3, <4>2 DEF Resets
      <3>4. CASE e.kind = "plan_ready"
        BY <3>2, <3>4 DEF Resets
      <3>5. CASE (e.kind = "notice" \/ e.call \in Nested) /\ UNCHANGED view
        BY <3>2, <3>5
      <3> QED
        BY <2>1, <3>3, <3>4, <3>5 DEF Translate
    <2> QED
      BY <2>1, <2>3, TurnReads DEF e
  <1>2. CASE HandleGate(t) \/ HandleToolApproval(t)
    <2>1. /\ Awake(t) /\ queue[t] # <<>> /\ UNCHANGED <<row, output, shed, call, view>>
          /\ Head(queue[t]).kind \in {"awaiting", "approval"}
          /\ \E to \in {"loop", "gate", "asking"} : GoOn(t, to)
      BY <1>2 DEF HandleGate, HandleToolApproval, TakesEvent
    <2>2. \A c \in Calls : Head(queue[t]) # Event("finished", c)
      BY <2>1, EventFacts
    <2> QED
      BY <2>1, <2>2, TurnReads
  <1>3. CASE HandleTerminal(t)
    <2> DEFINE q == queue[t]
    <2>1. /\ Awake(t) /\ q # <<>> /\ q[1].kind \in Terminal /\ EndTurn(t, "end_turn") /\ q \in Seq(Events)
          /\ UNCHANGED <<row, output, shed, call, view>> /\ Len(q) \in Nat /\ Len(q) >= 1
      BY <1>3, HeadTailProperties, EmptySeq, LenProperties DEF HandleTerminal, TakesEvent, TypeOK
    <2>2. turn[t] \in {"loop", "waiting"} /\ Subscribed(t)
      BY <2>1 DEF Awake, Subscribed
    <2>3. 1 \in 1..Len(q)
      BY <2>1
    <2>4. driver[t] = "done" /\ row[t] = OutcomeOf(q[1].kind)
      BY <2>1, <2>3 DEF Settling
    <2>5. ASSUME row[t] = "completed", t \notin shed, NEW c \in Calls \ Nested PROVE view[t][c] = EntryOf(t, c)
      <3>1. q[1].kind = "completed"
        BY <2>4, <2>5 DEF OutcomeOf
      <3>2. 1 = Len(q) /\ Finished(t) = Calls
        BY <2>3, <3>1 DEF Showing
      <3>3. Shown(t, c)
        BY <2>2, <2>5, <3>2 DEF Showing
      <3>4. \A i \in 1..Len(q) : q[i] # Event("finished", c)
        <4>1. Event("finished", c).kind = "finished"
          BY EventFacts
        <4>2. \A i \in 1..Len(q) : i = 1
          <5>1. \A i \in 1..1 : i = 1
            OBVIOUS
          <5>2. 1..Len(q) = 1..1
            BY <3>2
          <5> QED
            BY <5>1, <5>2
        <4> QED
          BY <3>1, <4>1, <4>2
      <3> QED
        BY <3>3, <3>4 DEF Shown
    <2>6. row[t] \in {"completed", "failed", "rejected"}
      BY <2>4 DEF OutcomeOf
    <2> QED
      BY <2>1, <2>2, <2>4, <2>5, <2>6, TurnEnds
  <1>4. CASE TakeCancel(t)
    <2>1. turn[t] # "away" /\ EndTurn(t, "cancelled") /\ UNCHANGED <<row, output, shed, call, view>>
      BY <1>4 DEF TakeCancel, Awake
    <2> QED
      BY <2>1, TurnEnds
  <1>5. CASE Suspend(t) \/ FinishTurn(t)
    <2>1. /\ UNCHANGED <<stop, queue, shed, driver, row, output, call, view>>
          /\ \/ turn[t] = "loop" /\ turn'[t] = "waiting"
             \/ turn[t] = "closing" /\ turn'[t] = "done" /\ driver[t] = "done"
      BY <1>5 DEF Suspend, FinishTurn, busVars, taskVars, TypeOK
    <2>2. Settling(t)'
      BY <2>1 DEF Settling, OutcomeOf
    <2>3. Finished(t)' = Finished(t) /\ (Subscribed(t)' => Subscribed(t)) /\ \A c : Shown(t, c)' <=> Shown(t, c)
      BY <2>1 DEF Finished, Subscribed, Shown, EntryOf
    <2>4. Showing(t)'
      BY <2>1, <2>3 DEF Showing, EntryOf
    <2> QED
      BY <2>2, <2>4
  <1> QED
    BY <1>1, <1>2, <1>3, <1>4, <1>5 DEF LoopStep

LEMMA TurnAnswers ==
    ASSUME ConsentInv, TypeOK, NEW t \in Turns, Settling(t), Showing(t), ClientAnswer(t)
    PROVE  Settling(t)' /\ Showing(t)'
  <1>0. UNCHANGED <<shed, output, view>>
    BY DEF ClientAnswer, GateApproved, GateRevised, GateDeclined, ToolAllowed, ToolDenied, ToolAnswerFails,
           ToolAnswers, Answers
  <1>1. CASE GateDeclined(t) \/ ToolAnswerFails(t)
    <2>1. turn[t] # "away" /\ UNCHANGED <<row, call>>
          /\ \E reason \in {"cancelled", "refusal", "error"} : EndTurn(t, reason)
      BY <1>1 DEF GateDeclined, ToolAnswerFails, ToolAnswers, Answers
    <2> QED
      BY <1>0, <2>1, TurnEnds
  <1>2. ASSUME turn[t] \in {"gate", "asking"}, turn'[t] = "loop", UNCHANGED <<stop, queue, driver, row, call>>
        PROVE  Settling(t)' /\ Showing(t)'
    <2>1. Settling(t)'
      BY <1>0, <1>2 DEF Settling, OutcomeOf
    <2>2. Finished(t)' = Finished(t) /\ Subscribed(t) /\ \A c : Shown(t, c)' <=> Shown(t, c)
      BY <1>0, <1>2 DEF Finished, Subscribed, Shown, EntryOf
    <2>3. Showing(t)'
      BY <1>0, <1>2, <2>2 DEF Showing, EntryOf
    <2> QED
      BY <2>1, <2>3
  <1>3. CASE ToolAllowed(t) \/ ToolDenied(t)
    <2>1. turn[t] = "asking" /\ turn'[t] = "loop" /\ UNCHANGED <<stop, queue, driver, row, call>>
      BY <1>3 DEF ToolAllowed, ToolDenied, ToolAnswers, Answers, BackToLoop, TypeOK
    <2> QED
      BY <1>2, <2>1
  <1>4. CASE GateApproved(t) /\ row[t] # "awaiting_confirmation"
    <2>1. turn[t] = "gate" /\ turn'[t] = "loop" /\ UNCHANGED <<stop, queue, driver, row, call>>
      BY <1>4 DEF GateApproved, Answers, TypeOK
    <2> QED
      BY <1>2, <2>1
  <1>5. ASSUME row[t] = "awaiting_confirmation", turn[t] = "gate"
        PROVE  /\ t \notin output /\ stop[t] # "end_turn" /\ Finished(t) = {}
               /\ \A i \in 1..Len(queue[t]) : queue[t][i].kind \notin Terminal
    BY <1>5, IdleShowsNothing DEF Settling, OutcomeOf
  <1>6. CASE GateApproved(t) /\ row[t] = "awaiting_confirmation"
    <2>1. /\ turn[t] = "gate" /\ turn'[t] = "loop" /\ row'[t] = "executing" /\ driver'[t] = "executing"
          /\ call'[t] = AllCalls("dispatched") /\ UNCHANGED <<stop, queue>>
      BY <1>6 DEF GateApproved, Answers, TypeOK
    <2>2. Finished(t)' = {}
      BY <2>1 DEF Finished, AllCalls
    <2>3. Settling(t)'
      BY <1>0, <1>5, <1>6, <2>1 DEF Settling
    <2>4. Showing(t)'
      BY <1>0, <1>5, <1>6, <2>1, <2>2 DEF Showing, Terminal
    <2> QED
      BY <2>3, <2>4
  <1>7. CASE GateRevised(t)
    <2> DEFINE es == <<Plain("notice")>>
               q == queue[t]
    <2>1. /\ turn[t] = "gate" /\ turn'[t] = "loop" /\ row[t] = "awaiting_confirmation" /\ driver'[t] = "planning"
          /\ queue'[t] = Newest(Append(q, Plain("notice"))) /\ UNCHANGED <<stop, row, call>> /\ q \in Seq(Events)
      BY <1>7 DEF GateRevised, Answers, TypeOK
    <2>2. Plain("notice") \in Events /\ Plain("notice").kind = "notice" /\ Append(q, Plain("notice")) = q \o es
          /\ es \in Seq(Events) /\ Len(es) = 1 /\ es[1] = Plain("notice")
      BY <2>1, EventFacts, SingleEvent, AppendIsConcat
    <2>3. \A j \in 1..Len(es) : es[j].kind = "notice"
      BY <2>2
    <2>4. \A j \in 1..Len(q) : q[j].kind \notin Terminal
      BY <1>5, <2>1
    <2>5. queue'[t] = Newest(q \o es)
      BY <2>1, <2>2
    <2> HIDE DEF es, q
    <2>6. \A i \in 1..Len(queue'[t]) : \/ \E j \in 1..Len(q) : queue'[t][i] = q[j]
                                       \/ \E j \in 1..Len(es) : queue'[t][i] = es[j]
      BY <2>1, <2>2, <2>5, AddedFacts
    <2>7. \A i \in 1..Len(queue'[t]) : queue'[t][i].kind \notin Terminal
      BY <2>3, <2>4, <2>6 DEF Terminal
    <2>8. Finished(t)' = {}
      BY <1>5, <2>1 DEF Finished
    <2>9. Settling(t)'
      BY <1>0, <1>5, <2>1, <2>7 DEF Settling
    <2>10. Showing(t)'
      BY <1>0, <1>5, <2>1, <2>7, <2>8 DEF Showing, Terminal
    <2> QED
      BY <2>9, <2>10
  <1> QED
    BY <1>1, <1>3, <1>4, <1>6, <1>7 DEF ClientAnswer

-----------------------------------------------------------------------------
(* The invariant.                                                           *)

LEMMA TurnInit == Init => TurnInv
  <1> SUFFICES ASSUME Init PROVE TurnInv
    OBVIOUS
  <1>1. <<>> \in Seq(Events) /\ Len(<<>>) = 0 /\ 0 <= MaxQueue
    BY EmptySeq, TurnBoundsAssumption
  <1>2. OtherShapes
    BY <1>1, NobodyAssumption, TurnBoundsAssumption DEF Init, OtherShapes, AskedIsCall, AllCalls, NoCall,
       EntryState
  <1>3. TypeOK /\ AskedIsCall
    BY <1>2, ConsentInit, ShapesAreTypes DEF ConsentInv
  <1>4. Carrying
    BY DEF Init, Carrying
  <1>5. ASSUME NEW t \in Turns PROVE Settling(t) /\ Showing(t)
    <2>1. \A i \in 1..Len(queue[t]) : FALSE
      BY <1>1 DEF Init
    <2>2. turn[t] = "away" /\ driver[t] = "none" /\ stop[t] = "none" /\ t \notin output
          /\ row[t] = "absent"
      BY DEF Init
    <2> QED
      BY <2>1, <2>2 DEF Settling, Showing, Subscribed
  <1> QED
    BY <1>3, <1>4, <1>5 DEF TurnInv

\* Outputs are recorded for good, and only they are carried.
LEMMA CarryingKept ==
    ASSUME TypeOK, Carrying, [Next]_vars
    PROVE  Carrying'
  <1>1. output \subseteq output'
    <2>1. ASSUME NEW t \in Turns, DriverStep(t) \/ ExecuteRaises(t) \/ Notice(t) PROVE output \subseteq output'
      BY <2>1 DEF DriverStep, PlanningEnds, PresentPlan, ExecuteReturns, ExecuteRaises, DriverCancelled, Notice,
             taskVars
    <2>2. ASSUME NEW t \in Turns, Prompt(t) \/ LoopStep(t) \/ ClientAnswer(t) PROVE output \subseteq output'
      BY <2>2 DEF Prompt, LoopStep, HandleUpdate, HandleTerminal, HandleGate, HandleToolApproval, TakesEvent,
             Suspend, TakeCancel, FinishTurn, ClientAnswer, GateApproved, GateRevised, GateDeclined, ToolAllowed,
             ToolDenied, ToolAnswerFails, ToolAnswers, Answers, taskVars
    <2>3. ASSUME NEW t \in Turns, NEW c \in Calls, CallSteps(t, c) PROVE output \subseteq output'
      BY <2>3 DEF CallSteps, CallStarts, CallNeedsNoAnswer, CallAsks, CallAllowed, CallDenied, CallReturns,
             CallStep, taskVars
    <2>4. ASSUME Cancel \/ CloseStdin \/ UNCHANGED vars PROVE output \subseteq output'
      BY <2>4 DEF Cancel, CloseStdin, vars, taskVars
    <2> QED
      BY <2>1, <2>2, <2>3, <2>4 DEF Next
  <1>2. carried' = carried \/ carried' \in output
    <2>1. ASSUME NEW t \in Turns, LoopStep(t) PROVE carried' = carried \/ carried' \in output
      BY <2>1 DEF LoopStep, HandleUpdate, HandleTerminal, HandleGate, HandleToolApproval, TakesEvent, Suspend,
             TakeCancel, FinishTurn
    <2>2. ASSUME NEW t \in Turns, DriverStep(t) \/ ExecuteRaises(t) \/ Notice(t) \/ Prompt(t) \/ ClientAnswer(t)
          PROVE  carried' = carried
      BY <2>2 DEF DriverStep, PlanningEnds, PresentPlan, ExecuteReturns, ExecuteRaises, DriverCancelled,
             DriverEnds, Notice, Prompt, ClientAnswer, GateApproved, GateRevised, GateDeclined, ToolAllowed,
             ToolDenied, ToolAnswerFails, ToolAnswers, Answers, turnVars
    <2>3. ASSUME NEW t \in Turns, NEW c \in Calls, CallSteps(t, c) PROVE carried' = carried
      BY <2>3 DEF CallSteps, CallStarts, CallNeedsNoAnswer, CallAsks, CallAllowed, CallDenied, CallReturns,
             CallStep, turnVars
    <2>4. ASSUME Cancel \/ CloseStdin \/ UNCHANGED vars PROVE carried' = carried
      BY <2>4 DEF Cancel, CloseStdin, vars, turnVars
    <2> QED
      BY <2>1, <2>2, <2>3, <2>4 DEF Next
  <1>3. basis' = basis \/ \E t \in Turns : basis' = [basis EXCEPT ![t] = carried]
    <2>1. ASSUME NEW t \in Turns, LoopStep(t) \/ ClientAnswer(t) PROVE basis' = basis
      BY <2>1 DEF LoopStep, HandleUpdate, HandleTerminal, HandleGate, HandleToolApproval, TakesEvent, Suspend,
             TakeCancel, FinishTurn, ClientAnswer, GateApproved, GateRevised, GateDeclined, ToolAllowed,
             ToolDenied, ToolAnswerFails, ToolAnswers, Answers
    <2>2. ASSUME NEW t \in Turns, DriverStep(t) \/ ExecuteRaises(t) \/ Notice(t) PROVE basis' = basis
      BY <2>2 DEF DriverStep, PlanningEnds, PresentPlan, ExecuteReturns, ExecuteRaises, DriverCancelled,
             DriverEnds, Notice, turnVars
    <2>3. ASSUME NEW t \in Turns, NEW c \in Calls, CallSteps(t, c) PROVE basis' = basis
      BY <2>3 DEF CallSteps, CallStarts, CallNeedsNoAnswer, CallAsks, CallAllowed, CallDenied, CallReturns,
             CallStep, turnVars
    <2>4. ASSUME Cancel \/ CloseStdin \/ UNCHANGED vars PROVE basis' = basis
      BY <2>4 DEF Cancel, CloseStdin, vars, turnVars
    <2>5. ASSUME NEW t \in Turns, Prompt(t) PROVE basis' = [basis EXCEPT ![t] = carried]
      BY <2>5 DEF Prompt
    <2> QED
      BY <2>1, <2>2, <2>3, <2>4, <2>5 DEF Next
  <1> QED
    BY <1>1, <1>2, <1>3 DEF Carrying, TypeOK

LEMMA TurnStep ==
    ASSUME ConsentInv, ConsentInv', TurnInv, [Next]_vars
    PROVE  TurnInv'
  <1>1. TypeOK' /\ AskedIsCall'
    BY TypesStep DEF TurnInv, ConsentInv
  <1>2. Carrying'
    BY CarryingKept DEF TurnInv
  <1>3. ASSUME NEW u \in Turns, Cancel \/ CloseStdin \/ UNCHANGED vars PROVE Settling(u)' /\ Showing(u)'
    <2>1. Same(u)
      BY <1>3 DEF Same, Cancel, CloseStdin, vars, turnVars, busVars, taskVars
    <2> QED
      BY <2>1, SameKept DEF TurnInv
  <1>4. ASSUME NEW u \in Turns, NEW t \in Turns,
               \/ Prompt(t) \/ DriverStep(t) \/ ExecuteRaises(t) \/ Notice(t) \/ LoopStep(t)
               \/ ClientAnswer(t) \/ \E c \in Calls : CallSteps(t, c)
        PROVE  Settling(u)' /\ Showing(u)'
    <2>1. TypeOK /\ Settling(u) /\ Showing(u) /\ Settling(t) /\ Showing(t)
      BY DEF TurnInv
    <2>2. CASE u # t
      BY <1>4, <2>1, <2>2, OthersSame, SameKept
    <2>3. CASE u = t
      BY <1>4, <2>1, <2>3, TurnPrompt, TurnDriver, TurnLoop, TurnAnswers, TurnCall
    <2> QED
      BY <2>2, <2>3
  <1>5. \A u \in Turns : Settling(u)' /\ Showing(u)'
    BY <1>3, <1>4 DEF Next
  <1> QED
    BY <1>1, <1>2, <1>5 DEF TurnInv

LEMMA TurnInductive == Spec => []TurnInv
  <1>1. ConsentInv /\ ConsentInv' /\ TurnInv /\ [Next]_vars => TurnInv'
    BY TurnStep
  <1> QED
    BY <1>1, TurnInit, ConsentInductive, PTL DEF Spec

\* Every variable keeps its type: queues are bounded, and a client is only
\* asked about calls of the plan.
THEOREM TurnTypes == Spec => []TypeOK
  BY TurnInductive, PTL DEF TurnInv

\* A turn has answered only once its coroutine has been drained and its row
\* says how the task ended; end_turn only speaks of a recorded outcome.
THEOREM AnsweredIsSettledHolds == Spec => []AnsweredIsSettled
  <1>1. TurnInv => AnsweredIsSettled
    BY DEF TurnInv, Settling, AnsweredIsSettled
  <1> QED
    BY <1>1, TurnInductive, PTL

\* What a prompt is composed with is the recorded output of a completed task.
THEOREM BuildsOnFinishedHolds == Spec => []BuildsOnFinished
  <1>1. TurnInv => BuildsOnFinished
    <2> SUFFICES ASSUME TurnInv, NEW t \in Turns, basis[t] # Nobody
                 PROVE  row[basis[t]] = "completed" /\ basis[t] \in output
      BY DEF BuildsOnFinished
    <2>1. basis[t] \in output /\ basis[t] \in Turns
      BY DEF TurnInv, TypeOK, Carrying
    <2> QED
      BY <2>1 DEF TurnInv, Settling
  <1> QED
    BY <1>1, TurnInductive, PTL

\* When nothing was shed, the plan the client is left with after a completed
\* task tells which of its calls failed or were denied, and leaves none open.
THEOREM EntriesTellOutcomesHolds == Spec => []EntriesTellOutcomes
  <1>1. TurnInv => EntriesTellOutcomes
    <2> SUFFICES ASSUME TurnInv, NEW t \in Turns, ToldAll(t), NEW c \in Calls \ Nested
                 PROVE  /\ view[t][c] \notin {"absent", "pending", "in_progress"}
                        /\ view[t][c] = "completed" <=> call[t][c] = "finished"
      BY DEF EntriesTellOutcomes
    <2>1. view[t][c] = EntryOf(t, c)
      BY DEF TurnInv, Showing, ToldAll
    <2> QED
      BY <2>1 DEF EntryOf
  <1> QED
    BY <1>1, TurnInductive, PTL

=============================================================================
