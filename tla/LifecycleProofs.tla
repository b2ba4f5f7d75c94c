--------------------------- MODULE LifecycleProofs ---------------------------
(***************************************************************************)
(* Theorems about TaskLifecycle, for any number of resume calls and        *)
(* watchers, any replan limit and any queue capacity.                      *)
(*                                                                         *)
(* IInv is inductive for every deployment.  What orders the jobs of one    *)
(* task (the run job is over before a resumed one executes) holds when the *)
(* deployment is calm: in one process whatever the clients do, in a shared *)
(* one when nobody resumes before Orchestrator.run has returned; CalmInv   *)
(* states it.  Without that two executions are possible, see the run       *)
(* life_overlap.                                                           *)
(***************************************************************************)
EXTENDS TaskLifecycle, FiniteSetTheorems, SequenceTheorems, TLAPS

-----------------------------------------------------------------------------
(* The list of operations a job has before it.                             *)

Writes(op)      == op.do = "save" /\ op.arg # "planning"
Announces(op)   == op.do = "emit" /\ op.arg \in TerminalEvents
WillWrite(s)    == \E i \in 1..Len(s) : Writes(s[i])
WillAnnounce(s) == \E i \in 1..Len(s) : Announces(s[i])
WaitsAt(s)      == s[Len(s)].arg

\* What every list and every rest of one has: it ends with where the job
\* waits; planning is saved first and not last; a status other than planning
\* is written only by a list that ends the job, and only one such status; and
\* a list that ends the job publishes nothing after the event that ends the
\* streams.
Shaped(s) ==
    /\ s \in Seq(Operations) /\ s # <<>>
    /\ \A i \in 1..Len(s) :
          /\ s[i].do = "goto" <=> i = Len(s)
          /\ s[i] = Save("planning") => i = 1 /\ (WaitsAt(s) = "done" => WillWrite(s))
          /\ Writes(s[i]) => WaitsAt(s) = "done"
          /\ s[i].do = "emit" /\ WaitsAt(s) = "done" =>
                Announces(s[i]) \/ \E k \in i+1..Len(s) : Announces(s[k])
    /\ \A i, k \in 1..Len(s) : Writes(s[i]) /\ Writes(s[k]) => s[i] = s[k]

\* What job j may have to do: only the run job reaches the gate or, without
\* confirmation, the executor; a resumed job only ends an execution.
Own(j, s) ==
    IF j = RunJob
    THEN /\ WaitsAt(s) = "executing" => ~confirm
         /\ \A i \in 1..Len(s) : s[i].do = "save" =>
               /\ s[i].arg \notin {"resuming", "executing"}
               /\ s[i].arg = "awaiting_confirmation" => confirm
    ELSE /\ WaitsAt(s) = "done"
         /\ \A i \in 1..Len(s) : s[i].do = "save" => s[i].arg \in {"completed", "failed"}

\* A whole list, as a job gets it when the planner or the executor answers.
Opening(j, s) ==
    /\ Shaped(s)
    /\ Own(j, s)
    /\ WillWrite(s) => WillAnnounce(s)
    /\ WaitsAt(s) = "done" => WillWrite(s)

-----------------------------------------------------------------------------
(* The inductive invariant.                                                 *)

Scripts ==
    \A j \in Jobs : IF pc[j] = "busy" THEN Shaped(todo[j]) /\ Own(j, todo[j]) ELSE todo[j] = <<>>

\* Which states belong to which job.
Roles ==
    /\ pc[RunJob] \in {"away", "queued", "planning", "busy", "executing", "done", "dead"}
    /\ pc[RunJob] = "away" <=> row = "absent"
    /\ row = "absent" => \A r \in Resumes : pc[r] = "away"
    /\ pc[RunJob] = "executing" => ~confirm
    /\ \A r \in Resumes : pc[r] # "planning"
    /\ ~confirm => /\ row \notin {"awaiting_confirmation", "resuming", "executing"}
                   /\ \A r \in Resumes : pc[r] \in {"away", "refused", "queued", "done", "dead"}

\* The job that will take the task out of its status.
RunPending == \/ pc[RunJob] \in {"queued", "planning", "executing"}
              \/ /\ pc[RunJob] = "busy"
                 /\ WillWrite(todo[RunJob]) \/ WaitsAt(todo[RunJob]) # "done"
ClaimPending(r) == pc[r] \in {"queued", "promoting"}
ExecPending(r)  == pc[r] = "executing" \/ (pc[r] = "busy" /\ WillWrite(todo[r]))

Responsible ==
    (\A j \in Jobs : pc[j] # "dead") =>
        /\ row = "planning"  => RunPending
        /\ row = "resuming"  => \E r \in Resumes : ClaimPending(r)
        /\ row = "executing" => \E r \in Resumes : ExecPending(r)

\* What one event loop rules out; workers that share a store serve no streams.
Turns ==
    IF deployment.shared
    THEN \A w \in Watchers : stream[w] = "away"
    ELSE /\ \A j \in Jobs : pc[j] # "dead"
         /\ \A j, k \in Jobs : MidStep(j) /\ MidStep(k) => j = k
         /\ \A v, w \in Watchers : Joining(v) /\ Joining(w) => v = w
         /\ \A j \in Jobs, w \in Watchers : ~(MidStep(j) /\ Joining(w))

\* At most n events follow one that ends the stream; with a queue of them it
\* may be gone.
HasEnd(q, n) ==
    n < MaxQueue => \E i \in 1..Len(q) : q[i] \in TerminalEvents /\ Len(q) - i <= n

\* An open stream of a task whose status has a snapshot, or is about to, has
\* the event that ends it, or a job is about to publish one.
Ending ==
    \A w \in Watchers : stream[w] = "streaming" =>
        /\ HasSnapshot(row) => HasEnd(queue[w], late) \/ \E j \in Jobs : WillAnnounce(todo[j])
        /\ \A j \in Jobs : WillWrite(todo[j]) => HasEnd(queue[w], late) \/ WillAnnounce(todo[j])

Inv0 == TypeOK /\ Scripts /\ Roles /\ Turns

RunOver == pc[RunJob] \in {"done", "dead"}
Calm    == deployment.shared => deployment.patient

\* The run job is over before a resumed one gets hold of the task, and once
\* the status has left planning it only ends.
RunFirst ==
    /\ deployment.shared => \A r \in Resumes : pc[r] # "away" => RunOver
    /\ \A r \in Resumes : pc[r] \notin {"away", "refused", "queued", "done", "dead"} => RunOver
    /\ row \notin {"absent", "planning"} =>
          RunOver \/ (pc[RunJob] = "busy" /\ WaitsAt(todo[RunJob]) = "done")

\* One job enters the executor, and from then on the task is its own.
OneStart ==
    /\ confirm => RunJob \notin started
    /\ ~confirm => started \subseteq {RunJob}
    /\ \A a, b \in started : a = b
    /\ \A r \in started \ {RunJob} : row \in {"executing", "completed", "failed"} /\ RunOver
    /\ \A r \in Resumes : pc[r] \in {"executing", "busy"} => r \in started
    /\ \A r \in Resumes : pc[r] = "executing" => row = "executing"

\* Once an outcome is recorded no job is left with another one to write.
OutcomeKept ==
    row \in Terminal =>
        \A j \in Jobs : \A i \in 1..Len(todo[j]) : todo[j][i].do = "save" => todo[j][i].arg = row

CalmInv == Calm => RunFirst /\ OneStart /\ OutcomeKept

IInv == Inv0 /\ Responsible /\ CalmInv /\ Ending

-----------------------------------------------------------------------------
(* Facts about the lists.                                                   *)

LEMMA OperationFacts ==
    ASSUME NEW op \in Operations
    PROVE  /\ op.do \in {"save", "emit", "goto"}
           /\ op.do = "save" => op.arg \in TaskStatus /\ op = Save(op.arg)
           /\ op.do = "emit" => op.arg \in Events
           /\ op.do = "goto" => op.arg \in {"planning", "executing", "done"} /\ op = Goto(op.arg)
  BY DEF Operations, Save, Emit, Goto

\* The rest of a list, element by element.
LEMMA TailElements ==
    ASSUME NEW S, NEW s \in Seq(S), s # <<>>
    PROVE  /\ Len(s) \in Nat \ {0} /\ Head(s) = s[1] /\ Head(s) \in S
           /\ Tail(s) \in Seq(S) /\ Len(Tail(s)) = Len(s) - 1
           /\ \A i \in 1..Len(Tail(s)) : i + 1 \in 1..Len(s) /\ Tail(s)[i] = s[i + 1]
           /\ \A i \in 2..Len(s) : i - 1 \in 1..Len(Tail(s)) /\ Tail(s)[i - 1] = s[i]
           /\ Len(s) = 1 => Tail(s) = <<>>
           /\ Len(s) > 1 => Tail(s) # <<>> /\ Tail(s)[Len(Tail(s))] = s[Len(s)]
  <1>1. /\ Len(s) \in Nat \ {0} /\ Head(s) = s[1] /\ Head(s) \in S
        /\ Tail(s) \in Seq(S) /\ Len(Tail(s)) = Len(s) - 1
    OBVIOUS
  <1>2. \A i \in 1..Len(Tail(s)) : i + 1 \in 1..Len(s) /\ Tail(s)[i] = s[i + 1]
    BY <1>1
  <1>3. \A i \in 2..Len(s) : i - 1 \in 1..Len(Tail(s)) /\ Tail(s)[i - 1] = s[i]
    <2> TAKE i \in 2..Len(s)
    <2>1. i - 1 \in 1..Len(Tail(s)) /\ (i - 1) + 1 = i
      BY <1>1
    <2> QED
      BY <2>1, <1>2
  <1>4. Tail(s) = <<>> <=> Len(Tail(s)) = 0
    BY <1>1, EmptySeq
  <1>5. ASSUME Len(s) > 1
        PROVE  Tail(s) # <<>> /\ Tail(s)[Len(Tail(s))] = s[Len(s)]
    <2>1. Len(s) \in 2..Len(s)
      BY <1>1, <1>5
    <2>2. Len(Tail(s)) # 0 /\ Len(Tail(s)) = Len(s) - 1
      BY <1>1, <1>5
    <2> QED
      BY <2>1, <2>2, <1>3, <1>4
  <1> QED
    BY <1>1, <1>2, <1>3, <1>4, <1>5

\* What is left of a well-shaped list is well-shaped.
LEMMA ShapeOfTail ==
    ASSUME NEW s, Shaped(s), Len(s) > 1
    PROVE  Shaped(Tail(s))
  <1> DEFINE t == Tail(s)
  <1>1. s \in Seq(Operations) /\ s # <<>>
    BY DEF Shaped
  <1>2. /\ Len(s) \in Nat /\ t \in Seq(Operations) /\ t # <<>> /\ Len(t) = Len(s) - 1
        /\ \A i \in 1..Len(t) : i + 1 \in 1..Len(s) /\ t[i] = s[i + 1]
        /\ \A i \in 2..Len(s) : i - 1 \in 1..Len(t) /\ t[i - 1] = s[i]
        /\ t[Len(t)] = s[Len(s)]
    BY <1>1, TailElements
  <1> HIDE DEF t
  <1>3. ASSUME NEW i \in 1..Len(t)
        PROVE  /\ t[i].do = "goto" <=> i = Len(t)
               /\ t[i] # Save("planning")
               /\ Writes(t[i]) => WaitsAt(t) = "done"
    <2>1. i + 1 \in 1..Len(s) /\ t[i] = s[i + 1]
      BY <1>2
    <2> QED
      BY <2>1, <1>2 DEF Shaped, Writes, WaitsAt
  <1>4. ASSUME NEW i \in 1..Len(t), t[i].do = "emit", WaitsAt(t) = "done", ~Announces(t[i])
        PROVE  \E k \in i+1..Len(t) : Announces(t[k])
    <2>1. i + 1 \in 1..Len(s) /\ t[i] = s[i + 1]
      BY <1>2
    <2>2. PICK k \in (i + 1)+1..Len(s) : Announces(s[k])
      BY <2>1, <1>2, <1>4 DEF Shaped, Announces, WaitsAt
    <2>3. k \in 2..Len(s) /\ k - 1 \in i+1..Len(t)
      BY <1>2
    <2> QED
      BY <2>2, <2>3, <1>2
  <1>5. ASSUME NEW i \in 1..Len(t), NEW k \in 1..Len(t), Writes(t[i]), Writes(t[k])
        PROVE  t[i] = t[k]
    <2>1. i + 1 \in 1..Len(s) /\ t[i] = s[i + 1] /\ k + 1 \in 1..Len(s) /\ t[k] = s[k + 1]
      BY <1>2
    <2> QED
      BY <2>1, <1>5 DEF Shaped, Writes
  <1>6. Shaped(t)
    BY <1>2, <1>3, <1>4, <1>5 DEF Shaped
  <1> QED
    BY <1>6 DEF t

\* What the operation at the head of a list says about the rest.
LEMMA RestOfList ==
    ASSUME NEW s, Shaped(s)
    PROVE  /\ Head(s) \in Operations /\ Tail(s) \in Seq(Operations)
           /\ Head(s).do = "goto" => Tail(s) = <<>> /\ WaitsAt(s) = Head(s).arg
           /\ Head(s).do # "goto" => Shaped(Tail(s)) /\ WaitsAt(Tail(s)) = WaitsAt(s)
           /\ WillWrite(s) <=> Writes(Head(s)) \/ WillWrite(Tail(s))
           /\ WillAnnounce(s) <=> Announces(Head(s)) \/ WillAnnounce(Tail(s))
           /\ Writes(Head(s)) => WaitsAt(s) = "done"
           /\ Head(s) = Save("planning") /\ WaitsAt(s) = "done" => WillWrite(s)
           /\ Writes(Head(s)) => \A i \in 1..Len(Tail(s)) : Tail(s)[i].do = "save" => Tail(s)[i] = Head(s)
           /\ Head(s).do = "emit" /\ WaitsAt(s) = "done" => Announces(Head(s)) \/ WillAnnounce(Tail(s))
           /\ \A i \in 1..Len(Tail(s)) : i + 1 \in 1..Len(s) /\ Tail(s)[i] = s[i + 1]
           /\ 1 \in 1..Len(s) /\ Head(s) = s[1]
  <1> DEFINE t == Tail(s)
  <1>1. s \in Seq(Operations) /\ s # <<>>
    BY DEF Shaped
  <1>2. /\ Len(s) \in Nat \ {0} /\ Head(s) = s[1] /\ Head(s) \in Operations
        /\ t \in Seq(Operations) /\ Len(t) = Len(s) - 1
        /\ \A i \in 1..Len(t) : i + 1 \in 1..Len(s) /\ t[i] = s[i + 1]
        /\ \A i \in 2..Len(s) : i - 1 \in 1..Len(t) /\ t[i - 1] = s[i]
        /\ Len(s) = 1 => t = <<>>
        /\ Len(s) > 1 => t # <<>> /\ t[Len(t)] = s[Len(s)]
    BY <1>1, TailElements
  <1>3. 1 \in 1..Len(s) /\ (Head(s).do = "goto" <=> Len(s) = 1)
    <2>1. 1 \in 1..Len(s)
      BY <1>2
    <2> QED
      BY <2>1, <1>2 DEF Shaped
  <1>4. Head(s).do # "goto" => Shaped(t)
    BY <1>2, <1>3, ShapeOfTail
  <1> HIDE DEF t
  <1>5. /\ Head(s).do = "goto" => t = <<>> /\ WaitsAt(s) = Head(s).arg
        /\ Head(s).do # "goto" => Shaped(t) /\ WaitsAt(t) = WaitsAt(s)
    BY <1>2, <1>3, <1>4 DEF WaitsAt
  <1>6. WillWrite(s) <=> Writes(Head(s)) \/ WillWrite(t)
    <2>1. ASSUME NEW i \in 1..Len(s), Writes(s[i]), i # 1 PROVE WillWrite(t)
      <3>1. i \in 2..Len(s)
        BY <1>2, <2>1
      <3> QED
        BY <3>1, <2>1, <1>2 DEF WillWrite
    <2>2. WillWrite(t) => WillWrite(s)
      BY <1>2 DEF WillWrite
    <2> QED
      BY <2>1, <2>2, <1>2, <1>3 DEF WillWrite
  <1>7. WillAnnounce(s) <=> Announces(Head(s)) \/ WillAnnounce(t)
    <2>1. ASSUME NEW i \in 1..Len(s), Announces(s[i]), i # 1 PROVE WillAnnounce(t)
      <3>1. i \in 2..Len(s)
        BY <1>2, <2>1
      <3> QED
        BY <3>1, <2>1, <1>2 DEF WillAnnounce
    <2>2. WillAnnounce(t) => WillAnnounce(s)
      BY <1>2 DEF WillAnnounce
    <2> QED
      BY <2>1, <2>2, <1>2, <1>3 DEF WillAnnounce
  <1>8. /\ Writes(Head(s)) => WaitsAt(s) = "done"
        /\ Head(s) = Save("planning") /\ WaitsAt(s) = "done" => WillWrite(s)
    BY <1>2, <1>3 DEF Shaped
  <1>9. ASSUME Writes(Head(s)), NEW i \in 1..Len(t), t[i].do = "save" PROVE t[i] = Head(s)
    <2>1. i + 1 \in 1..Len(s) /\ t[i] = s[i + 1] /\ i + 1 # 1 /\ s[i + 1] \in Operations
      BY <1>1, <1>2
    <2>2. s[i + 1] # Save("planning")
      BY <2>1 DEF Shaped
    <2>3. Writes(s[i + 1])
      BY <2>1, <2>2, <1>9, OperationFacts DEF Writes
    <2> QED
      BY <2>1, <2>3, <1>2, <1>3, <1>9 DEF Shaped
  <1>10. ASSUME Head(s).do = "emit", WaitsAt(s) = "done", ~Announces(Head(s)) PROVE WillAnnounce(t)
    <2>1. PICK k \in 1+1..Len(s) : Announces(s[k])
      BY <1>2, <1>3, <1>10 DEF Shaped
    <2>2. k \in 2..Len(s)
      BY <1>2
    <2> QED
      BY <2>1, <2>2, <1>2 DEF WillAnnounce
  <1> QED
    BY <1>2, <1>3, <1>5, <1>6, <1>7, <1>8, <1>9, <1>10 DEF t

-----------------------------------------------------------------------------
(* The lists the planner's and the executor's answers give a job.          *)

LEMMA OpeningRun == Opening(RunJob, <<Emit("planning_started"), Goto("planning")>>)
  BY DEF Opening, Shaped, Own, WillWrite, WillAnnounce, WaitsAt, Writes, Announces,
         Operations, Emit, Goto, Save, Events, TerminalEvents, TaskStatus, Terminal

LEMMA OpeningAttempt ==
    ASSUME NEW saved \in AttemptSaved
    PROVE  Opening(RunJob, saved \o <<Goto("planning")>>)
  <1>1. Opening(RunJob, <<Save("planning")>> \o <<Goto("planning")>>)
    BY DEF Opening, Shaped, Own, WillWrite, WillAnnounce, WaitsAt, Writes, Announces,
           Operations, Emit, Goto, Save, Events, TerminalEvents, TaskStatus, Terminal
  <1>2. Opening(RunJob, <<>> \o <<Goto("planning")>>)
    BY DEF Opening, Shaped, Own, WillWrite, WillAnnounce, WaitsAt, Writes, Announces,
           Operations, Emit, Goto, Save, Events, TerminalEvents, TaskStatus, Terminal
  <1> QED
    BY <1>1, <1>2 DEF AttemptSaved

LEMMA OpeningFailure ==
    ASSUME NEW saved \in AttemptSaved
    PROVE  Opening(RunJob, saved \o <<Emit("plan_failed"), Save("failed"), Save("failed"),
                                      Goto("done")>>)
  <1>1. Opening(RunJob, <<Save("planning")>> \o <<Emit("plan_failed"), Save("failed"),
                                                  Save("failed"), Goto("done")>>)
    BY DEF Opening, Shaped, Own, WillWrite, WillAnnounce, WaitsAt, Writes, Announces,
           Operations, Emit, Goto, Save, Events, TerminalEvents, TaskStatus, Terminal
  <1>2. Opening(RunJob, <<>> \o <<Emit("plan_failed"), Save("failed"), Save("failed"),
                                  Goto("done")>>)
    BY DEF Opening, Shaped, Own, WillWrite, WillAnnounce, WaitsAt, Writes, Announces,
           Operations, Emit, Goto, Save, Events, TerminalEvents, TaskStatus, Terminal
  <1> QED
    BY <1>1, <1>2 DEF AttemptSaved

LEMMA OpeningRejection ==
    Opening(RunJob, <<Save("planning"), Emit("plan_rejected"), Save("rejected"),
                      Save("rejected"), Goto("done")>>)
  BY DEF Opening, Shaped, Own, WillWrite, WillAnnounce, WaitsAt, Writes, Announces,
         Operations, Emit, Goto, Save, Events, TerminalEvents, TaskStatus, Terminal

LEMMA OpeningGate ==
    ASSUME confirm
    PROVE  Opening(RunJob, <<Save("planning"), Emit("plan_ready")>> \o
                           <<Save("awaiting_confirmation"), Emit("awaiting_confirmation"),
                             Save("awaiting_confirmation"), Goto("done")>>)
  BY DEF Opening, Shaped, Own, WillWrite, WillAnnounce, WaitsAt, Writes, Announces,
         Operations, Emit, Goto, Save, Events, TerminalEvents, TaskStatus, Terminal

LEMMA OpeningExecution ==
    ASSUME ~confirm
    PROVE  Opening(RunJob, <<Save("planning"), Emit("plan_ready")>> \o <<Goto("executing")>>)
  BY DEF Opening, Shaped, Own, WillWrite, WillAnnounce, WaitsAt, Writes, Announces,
         Operations, Emit, Goto, Save, Events, TerminalEvents, TaskStatus, Terminal

LEMMA OpeningEnd ==
    ASSUME NEW j
    PROVE  /\ Opening(j, <<Emit("task_completed"), Save("completed"), Goto("done")>>)
           /\ Opening(j, <<Emit("task_failed"), Save("failed"), Goto("done")>>)
  BY DEF Opening, Shaped, Own, WillWrite, WillAnnounce, WaitsAt, Writes, Announces,
         Operations, Emit, Goto, Save, Events, TerminalEvents, TaskStatus, Terminal

-----------------------------------------------------------------------------
(* A job goes on: the planner or the executor answered.                    *)

LEMMA OpeningStep ==
    ASSUME IInv, NEW j \in Jobs, NEW ops, Opening(j, ops),
           (j = RunJob /\ pc[j] \in {"queued", "planning"}) \/ pc[j] = "executing",
           Undisturbed(j), Perform(j, ops), attempt' \in 0..MaxReplanAttempts,
           orphans' \subseteq Jobs,
           UNCHANGED <<deployment, confirm, row, started, late, stream, queue>>
    PROVE  IInv'
  <1> USE DEF IInv, Inv0
  <1>1. /\ pc' = [pc EXCEPT ![j] = "busy"] /\ todo' = [todo EXCEPT ![j] = ops]
        /\ pc'[j] = "busy" /\ todo'[j] = ops /\ todo[j] = <<>> /\ pc[j] # "busy"
        /\ \A k \in Jobs \ {j} : pc'[k] = pc[k] /\ todo'[k] = todo[k]
        /\ RunJob \in Jobs /\ Resumes \subseteq Jobs
        /\ ops \in Seq(Operations)
    BY DEF Perform, TypeOK, Scripts, Jobs, Opening, Shaped
  <1>2. TypeOK'
    BY <1>1 DEF TypeOK
  <1>3. Scripts'
    BY <1>1 DEF Scripts, Opening, Own
  <1>4. Roles'
    BY <1>1, ResumesAssumption DEF Roles, Jobs
  <1>5. Turns'
    BY <1>1 DEF Turns, Undisturbed, MidStep, Joining
  <1>6. Responsible'
    <2> SUFFICES ASSUME \A k \in Jobs : pc'[k] # "dead"
                 PROVE  /\ row = "planning"  => RunPending'
                        /\ row = "resuming"  => \E r \in Resumes : ClaimPending(r)'
                        /\ row = "executing" => \E r \in Resumes : ExecPending(r)'
      BY DEF Responsible
    <2>1. \A k \in Jobs : pc[k] # "dead"
      BY <1>1
    <2>2. row = "planning" => RunPending'
      BY <1>1, <2>1 DEF Responsible, RunPending, Opening
    <2>3. row = "resuming" => \E r \in Resumes : ClaimPending(r)'
      BY <1>1, <2>1, ResumesAssumption DEF Responsible, ClaimPending
    <2>4. \A r \in Resumes : ExecPending(r) => ExecPending(r)'
      BY <1>1, ResumesAssumption DEF ExecPending, Opening, Own
    <2> QED
      BY <2>1, <2>2, <2>3, <2>4 DEF Responsible
  <1>7. CalmInv'
    <2> SUFFICES ASSUME Calm PROVE RunFirst' /\ OneStart' /\ OutcomeKept'
      BY DEF CalmInv, Calm
    <2>1. RunFirst'
      BY <1>1, ResumesAssumption DEF CalmInv, RunFirst, RunOver
    <2>2. OneStart'
      BY <1>1, ResumesAssumption DEF CalmInv, OneStart, RunOver
    <2>3. row \notin Terminal
      BY <1>1 DEF CalmInv, RunFirst, OneStart, RunOver, Terminal, Jobs, Roles
    <2> QED
      BY <2>1, <2>2, <2>3 DEF OutcomeKept
  <1>8. Ending'
    <2> SUFFICES ASSUME NEW w \in Watchers, stream[w] = "streaming"
                 PROVE  /\ HasSnapshot(row) => HasEnd(queue[w], late) \/ \E k \in Jobs : WillAnnounce(todo'[k])
                        /\ \A k \in Jobs : WillWrite(todo'[k]) => HasEnd(queue[w], late) \/ WillAnnounce(todo'[k])
      BY DEF Ending, HasSnapshot
    <2>1. ~WillAnnounce(todo[j])
      BY <1>1 DEF WillAnnounce
    <2>2. \A k \in Jobs : WillWrite(todo'[k]) => HasEnd(queue[w], late) \/ WillAnnounce(todo'[k])
      BY <1>1 DEF Ending, Opening
    <2>3. HasSnapshot(row) => HasEnd(queue[w], late) \/ \E k \in Jobs : WillAnnounce(todo'[k])
      BY <1>1, <2>1 DEF Ending
    <2> QED
      BY <2>2, <2>3
  <1> QED
    BY <1>2, <1>3, <1>4, <1>5, <1>6, <1>7, <1>8

LEMMA RunStepInv == ASSUME IInv, RunStep PROVE IInv'
  <1>1. RunJob \in Jobs /\ attempt \in 0..MaxReplanAttempts /\ MaxReplanAttempts \in Nat
        /\ confirm \in BOOLEAN
    BY BoundsAssumption DEF IInv, Inv0, TypeOK, Jobs
  <1>0. orphans \subseteq Jobs
    BY DEF IInv, Inv0, TypeOK
  <1>2. CASE RunStarts
    BY <1>0, <1>1, <1>2, OpeningRun, OpeningStep DEF RunStarts
  <1> DEFINE Answer(ops) == PlannerReturns /\ Perform(RunJob, ops) /\ attempt' \in 0..MaxReplanAttempts
  <1>3. ASSUME NEW ops, Opening(RunJob, ops), Answer(ops) PROVE IInv'
    BY <1>0, <1>1, <1>3, OpeningStep DEF PlannerReturns
  <1>4. CASE AttemptFails
    <2>1. attempt' \in 0..MaxReplanAttempts
      BY <1>1, <1>4 DEF AttemptFails
    <2>2. PICK saved \in AttemptSaved : Perform(RunJob, saved \o <<Goto("planning")>>)
      BY <1>4 DEF AttemptFails
    <2> QED
      BY <2>1, <2>2, <1>3, <1>4, OpeningAttempt DEF AttemptFails
  <1>5. CASE PlanningFails
    <2>1. PICK saved \in AttemptSaved :
             Perform(RunJob, saved \o <<Emit("plan_failed"), Save("failed"), Save("failed"),
                                        Goto("done")>>)
      BY <1>5 DEF PlanningFails
    <2> QED
      BY <2>1, <1>1, <1>3, <1>5, OpeningFailure DEF PlanningFails
  <1>6. CASE PlanRejected
    BY <1>1, <1>3, <1>6, OpeningRejection DEF PlanRejected
  <1>7. CASE PlannerRaises
    BY <1>1, <1>3, <1>7, OpeningEnd DEF PlannerRaises
  <1>8. CASE PresentOrExecute
    <2>1. CASE confirm
      BY <2>1, <1>1, <1>3, <1>8, OpeningGate DEF PresentOrExecute
    <2>2. CASE ~confirm
      BY <2>2, <1>1, <1>3, <1>8, OpeningExecution DEF PresentOrExecute
    <2> QED
      BY <2>1, <2>2
  <1> QED
    BY <1>2, <1>4, <1>5, <1>6, <1>7, <1>8 DEF RunStep

LEMMA ExecStepInv == ASSUME IInv, NEW j \in Jobs, ExecStep(j) PROVE IInv'
  <1>1. attempt \in 0..MaxReplanAttempts /\ orphans \subseteq Jobs
    BY DEF IInv, Inv0, TypeOK
  <1>2. CASE ExecuteReturns(j)
    BY <1>1, <1>2, OpeningEnd, OpeningStep DEF ExecuteReturns, Executing
  <1>3. CASE ExecuteRaises(j)
    BY <1>1, <1>3, OpeningEnd, OpeningStep DEF ExecuteRaises, Executing
  <1> QED
    BY <1>2, <1>3 DEF ExecStep

-----------------------------------------------------------------------------
(* Queues.                                                                  *)

LEMMA DeliverKeeps ==
    ASSUME NEW q \in Seq(Events), Len(q) <= MaxQueue, NEW e \in Events, NEW n \in Nat
    PROVE  /\ Deliver(q, e) \in Seq(Events) /\ Len(Deliver(q, e)) <= MaxQueue
           /\ e \in TerminalEvents => HasEnd(Deliver(q, e), n)
           /\ HasEnd(q, n) => HasEnd(Deliver(q, e), n + 1)
  <1>1. MaxQueue \in Nat \ {0} /\ Len(q) \in Nat
    BY BoundsAssumption
  <1>2. CASE Len(q) < MaxQueue
    <2>1. Deliver(q, e) = Append(q, e)
      BY <1>2 DEF Deliver
    <2>2. /\ Append(q, e) \in Seq(Events) /\ Len(Append(q, e)) = Len(q) + 1
          /\ Append(q, e)[Len(q) + 1] = e /\ Len(q) + 1 \in 1..Len(Append(q, e))
          /\ \A i \in 1..Len(q) : Append(q, e)[i] = q[i]
      BY AppendProperties, <1>1
    <2>3. e \in TerminalEvents => HasEnd(Append(q, e), n)
      BY <2>2, <1>1 DEF HasEnd
    <2>4. ASSUME HasEnd(q, n), n + 1 < MaxQueue
          PROVE  \E i \in 1..Len(Append(q, e)) :
                    Append(q, e)[i] \in TerminalEvents /\ Len(Append(q, e)) - i <= n + 1
      <3>1. PICK i \in 1..Len(q) : q[i] \in TerminalEvents /\ Len(q) - i <= n
        BY <2>4, <1>1 DEF HasEnd
      <3>2. i \in 1..Len(Append(q, e)) /\ Len(Append(q, e)) - i <= n + 1
        BY <3>1, <2>2, <1>1
      <3> QED
        BY <3>1, <3>2, <2>2
    <2> QED
      BY <2>1, <2>2, <2>3, <2>4, <1>1, <1>2 DEF HasEnd
  <1>3. CASE ~(Len(q) < MaxQueue)
    <2>1. Deliver(q, e) = Append(Tail(q), e) /\ Len(q) = MaxQueue /\ q # <<>>
      BY <1>1, <1>3 DEF Deliver
    <2>2. /\ Tail(q) \in Seq(Events) /\ Len(Tail(q)) = Len(q) - 1
          /\ \A i \in 2..Len(q) : i - 1 \in 1..Len(Tail(q)) /\ Tail(q)[i - 1] = q[i]
      BY <2>1, TailElements
    <2> DEFINE d == Append(Tail(q), e)
    <2>3. /\ d \in Seq(Events) /\ Len(d) = Len(Tail(q)) + 1
          /\ d[Len(Tail(q)) + 1] = e /\ Len(Tail(q)) + 1 \in 1..Len(d)
          /\ \A i \in 1..Len(Tail(q)) : d[i] = Tail(q)[i]
      BY <2>2, <1>1, AppendProperties
    <2>4. e \in TerminalEvents => HasEnd(d, n)
      <3>1. Len(d) \in Nat /\ Len(d) - (Len(Tail(q)) + 1) <= n
        BY <2>2, <2>3, <1>1
      <3> HIDE DEF d
      <3> QED
        BY <3>1, <2>3 DEF HasEnd
    <2>5. ASSUME HasEnd(q, n), n + 1 < MaxQueue
          PROVE  \E i \in 1..Len(d) : d[i] \in TerminalEvents /\ Len(d) - i <= n + 1
      <3>1. PICK i \in 1..Len(q) : q[i] \in TerminalEvents /\ Len(q) - i <= n
        BY <2>5, <1>1 DEF HasEnd
      <3>2. i \in 2..Len(q)
        BY <3>1, <2>1, <2>5, <1>1
      <3>3. i - 1 \in 1..Len(Tail(q)) /\ d[i - 1] = q[i]
        BY <3>2, <2>2, <2>3
      <3>4. i - 1 \in 1..Len(d) /\ Len(d) - (i - 1) <= n + 1
        BY <3>1, <3>2, <2>2, <2>3, <1>1
      <3> QED
        BY <3>1, <3>3, <3>4
    <2> QED
      BY <2>1, <2>2, <2>3, <2>4, <2>5, <1>1 DEF HasEnd
  <1> QED
    BY <1>2, <1>3

\* Receiving an event that does not end the stream leaves the one that does.
LEMMA TailKeepsEnd ==
    ASSUME NEW q \in Seq(Events), q # <<>>, NEW n \in Nat, HasEnd(q, n), Head(q) \notin TerminalEvents
    PROVE  HasEnd(Tail(q), n)
  <1> SUFFICES ASSUME n < MaxQueue
               PROVE  \E i \in 1..Len(Tail(q)) : Tail(q)[i] \in TerminalEvents /\ Len(Tail(q)) - i <= n
    BY DEF HasEnd
  <1>1. PICK i \in 1..Len(q) : q[i] \in TerminalEvents /\ Len(q) - i <= n
    BY DEF HasEnd
  <1>2. i \in 2..Len(q) /\ Len(Tail(q)) = Len(q) - 1
    BY <1>1, TailElements
  <1>3. i - 1 \in 1..Len(Tail(q)) /\ Tail(q)[i - 1] = q[i]
    BY <1>2, TailElements
  <1>4. Len(Tail(q)) - (i - 1) <= n
    BY <1>1, <1>2
  <1> QED
    BY <1>1, <1>3, <1>4

\* Publishing keeps the queues within their bound; the end of a stream reaches
\* every open one, and one event more pushes it on by one place.
LEMMA PublishKeeps ==
    ASSUME TypeOK, NEW e \in Events, Publish(e)
    PROVE  /\ queue' \in [Watchers -> Seq(Events)]
           /\ \A w \in Watchers : Len(queue'[w]) <= MaxQueue
           /\ \A w \in Watchers : stream[w] = "streaming" =>
                 /\ e \in TerminalEvents => HasEnd(queue'[w], late)
                 /\ HasEnd(queue[w], late) => HasEnd(queue'[w], late + 1)
  <1>1. ASSUME NEW w \in Watchers
        PROVE  /\ queue[w] \in Seq(Events) /\ Len(queue[w]) <= MaxQueue
               /\ queue'[w] = IF stream[w] \in {"joining", "streaming"}
                              THEN Deliver(queue[w], e) ELSE queue[w]
    BY DEF Publish, TypeOK
  <1>2. DOMAIN queue' = Watchers /\ queue' = [w \in Watchers |-> queue'[w]]
    BY DEF Publish
  <1>3. ASSUME NEW w \in Watchers
        PROVE  /\ queue'[w] \in Seq(Events) /\ Len(queue'[w]) <= MaxQueue
               /\ stream[w] = "streaming" => /\ e \in TerminalEvents => HasEnd(queue'[w], late)
                                             /\ HasEnd(queue[w], late) => HasEnd(queue'[w], late + 1)
    <2>1. late \in Nat
      BY BoundsAssumption DEF TypeOK
    <2> QED
      BY <2>1, <1>1, DeliverKeeps
  <1> QED
    BY <1>2, <1>3

-----------------------------------------------------------------------------
(* A job performs the next operation of its list.                           *)

LEMMA OperateInv == ASSUME IInv, NEW j \in Jobs, Operate(j) PROVE IInv'
  <1> USE DEF IInv, Inv0
  <1> DEFINE s  == todo[j]
             op == Head(todo[j])
             t  == Tail(todo[j])
  <1>1. /\ pc[j] = "busy" /\ Shaped(s) /\ Own(j, s) /\ Undisturbed(j)
        /\ row' = IF op.do = "save" THEN op.arg ELSE row
        /\ pc' = IF op.do = "goto" THEN [pc EXCEPT ![j] = op.arg] ELSE pc
        /\ started' = IF op = Goto("executing") THEN started \cup {j} ELSE started
        /\ todo' = [todo EXCEPT ![j] = t]
        /\ UNCHANGED <<deployment, confirm, attempt, orphans, late, stream>>
        /\ IF op.do = "emit" THEN Publish(op.arg) ELSE UNCHANGED queue
    BY DEF Operate, Scripts
  <1>2. /\ op \in Operations /\ t \in Seq(Operations)
        /\ op.do = "goto" => t = <<>> /\ WaitsAt(s) = op.arg
        /\ op.do # "goto" => Shaped(t) /\ WaitsAt(t) = WaitsAt(s)
        /\ WillWrite(s) <=> Writes(op) \/ WillWrite(t)
        /\ WillAnnounce(s) <=> Announces(op) \/ WillAnnounce(t)
        /\ Writes(op) => WaitsAt(s) = "done"
        /\ op = Save("planning") /\ WaitsAt(s) = "done" => WillWrite(s)
        /\ Writes(op) => \A i \in 1..Len(t) : t[i].do = "save" => t[i] = op
        /\ op.do = "emit" /\ WaitsAt(s) = "done" => Announces(op) \/ WillAnnounce(t)
        /\ \A i \in 1..Len(t) : i + 1 \in 1..Len(s) /\ t[i] = s[i + 1]
        /\ 1 \in 1..Len(s) /\ op = s[1]
    BY <1>1, RestOfList
  <1>3. /\ op.do \in {"save", "emit", "goto"}
        /\ op.do = "save" => op.arg \in TaskStatus /\ op = Save(op.arg)
        /\ op.do = "emit" => op.arg \in Events
        /\ op.do = "goto" => op.arg \in {"planning", "executing", "done"} /\ op = Goto(op.arg)
    BY <1>2, OperationFacts
  <1>4. /\ todo'[j] = t /\ \A k \in Jobs \ {j} : todo'[k] = todo[k] /\ pc'[k] = pc[k]
        /\ pc'[j] = IF op.do = "goto" THEN op.arg ELSE "busy"
        /\ RunJob \in Jobs /\ Resumes \subseteq Jobs
    BY <1>1 DEF TypeOK, Jobs
  <1>5. op.do # "goto" => Own(j, t)
    <2>1. \A i \in 1..Len(t) : i + 1 \in 1..Len(s) /\ t[i] = s[i + 1]
      BY <1>2
    <2> QED
      BY <2>1, <1>1, <1>2 DEF Own
  <1>6. /\ j = RunJob /\ op.do = "save" => /\ op.arg \notin {"resuming", "executing"}
                                           /\ op.arg = "awaiting_confirmation" => confirm
        /\ j = RunJob /\ WaitsAt(s) = "executing" => ~confirm
        /\ j # RunJob /\ op.do = "save" => op.arg \in {"completed", "failed"}
        /\ j # RunJob => WaitsAt(s) = "done"
    BY <1>1, <1>2 DEF Own
  <1> HIDE DEF op, t
  <1>7. TypeOK'
    <2>1. /\ queue' \in [Watchers -> Seq(Events)]
          /\ \A w \in Watchers : Len(queue'[w]) <= MaxQueue
      BY <1>1, <1>3, PublishKeeps DEF TypeOK
    <2>2. row' \in TaskStatus \cup {"absent"} /\ started' \subseteq Jobs
      BY <1>1, <1>3 DEF TypeOK
    <2>3. todo' \in [Jobs -> Seq(Operations)]
      BY <1>1, <1>2 DEF TypeOK
    <2>4. pc' \in [Jobs -> {"away", "checked", "selected", "refused", "queued", "promoting",
                            "planning", "busy", "executing", "done", "dead"}]
      BY <1>1, <1>3 DEF TypeOK
    <2> QED
      BY <2>1, <2>2, <2>3, <2>4, <1>1 DEF TypeOK
  <1>8. Scripts'
    <2>1. \A k \in Jobs : Own(k, todo[k])' <=> Own(k, todo'[k])
      BY <1>1 DEF Own
    <2>2. ASSUME NEW k \in Jobs, pc'[k] = "busy" PROVE Shaped(todo'[k]) /\ Own(k, todo'[k])
      BY <2>2, <1>2, <1>3, <1>4, <1>5 DEF Scripts
    <2>3. ASSUME NEW k \in Jobs, pc'[k] # "busy" PROVE todo'[k] = <<>>
      BY <2>3, <1>2, <1>3, <1>4 DEF Scripts
    <2> QED
      BY <2>1, <2>2, <2>3 DEF Scripts
  <1>9. Roles'
    BY <1>1, <1>2, <1>3, <1>4, <1>6, ResumesAssumption DEF Roles, Jobs, TaskStatus, Terminal
  <1>10. Turns'
    BY <1>1, <1>3, <1>4 DEF Turns, MidStep, Joining
  <1>11. Responsible'
    <2> SUFFICES ASSUME \A k \in Jobs : pc'[k] # "dead"
                 PROVE  /\ row' = "planning"  => RunPending'
                        /\ row' = "resuming"  => \E r \in Resumes : ClaimPending(r)'
                        /\ row' = "executing" => \E r \in Resumes : ExecPending(r)'
      BY DEF Responsible
    <2>1. \A k \in Jobs : pc[k] # "dead"
      BY <1>1, <1>4
    <2>2. row' = "planning" => RunPending'
      <3>1. ASSUME row' = "planning" PROVE ~Writes(op) /\ (op.do = "save" => j = RunJob)
        BY <3>1, <1>1, <1>6 DEF Writes
      <3>2. CASE j # RunJob
        <4>1. row' = "planning" => RunPending
          BY <3>1, <3>2, <2>1, <1>1 DEF Responsible
        <4> QED
          BY <4>1, <3>2, <1>4 DEF RunPending
      <3>3. CASE j = RunJob /\ op.do = "save"
        <4>1. pc'[RunJob] = "busy" /\ (WillWrite(s) => WillWrite(t) \/ Writes(op)) /\ todo'[RunJob] = t
          BY <3>3, <1>2, <1>4
        <4>2. row' = "planning" => op = Save("planning")
          BY <3>3, <1>1, <1>3
        <4> QED
          BY <4>1, <4>2, <3>1, <3>3, <1>2, <1>4 DEF RunPending
      <3>4. CASE j = RunJob /\ op.do # "save"
        <4>1. row' = "planning" => WillWrite(s) \/ WaitsAt(s) # "done"
          BY <3>4, <2>1, <1>1 DEF Responsible, RunPending
        <4>2. ~Writes(op) /\ (op.do = "goto" => ~WillWrite(t))
          BY <3>4, <1>2 DEF Writes, WillWrite
        <4> QED
          BY <4>1, <4>2, <3>4, <1>2, <1>3, <1>4 DEF RunPending
      <3> QED
        BY <3>2, <3>3, <3>4
    <2>3. row' = "resuming" => row = "resuming"
      BY <1>1, <1>6
    <2>4. row' = "executing" => row = "executing" /\ op.do # "save"
      BY <1>1, <1>6
    <2>5. row' = "resuming" => \E r \in Resumes : ClaimPending(r)'
      BY <2>1, <2>3, <1>1, <1>4 DEF Responsible, ClaimPending
    <2>6. ASSUME NEW r \in Resumes, ExecPending(r), op.do # "save" PROVE ExecPending(r)'
      <3>1. ~Writes(op) /\ (op.do = "goto" => ~WillWrite(t))
        BY <2>6, <1>2 DEF Writes, WillWrite
      <3> QED
        BY <3>1, <2>6, <1>1, <1>2, <1>4 DEF ExecPending
    <2> QED
      BY <2>1, <2>2, <2>4, <2>5, <2>6 DEF Responsible
  <1>12. CalmInv'
    <2> SUFFICES ASSUME Calm PROVE RunFirst' /\ OneStart' /\ OutcomeKept'
      BY <1>1 DEF CalmInv, Calm
    <2> USE DEF CalmInv
    <2>1. RunFirst'
      BY <1>1, <1>2, <1>3, <1>4, <1>6, ResumesAssumption DEF RunFirst, RunOver, Writes, Jobs
    <2>2. OneStart'
      BY <1>1, <1>2, <1>3, <1>4, <1>6, ResumesAssumption DEF OneStart, RunFirst, RunOver, Goto, Jobs, Roles
    <2>3. ASSUME NEW k \in Jobs, pc[k] = "busy" PROVE k = j
      BY <2>3, <1>1, <1>4 DEF OneStart, RunFirst, RunOver, Jobs
    <2>4. OutcomeKept'
      <3> SUFFICES ASSUME row' \in Terminal, NEW k \in Jobs, NEW i \in 1..Len(todo'[k]),
                          todo'[k][i].do = "save"
                   PROVE  todo'[k][i].arg = row'
        BY DEF OutcomeKept
      <3>1. k = j
        BY <2>3, <1>4 DEF Scripts
      <3>2. CASE op.do = "save"
        <4>1. Writes(op) /\ row' = op.arg /\ todo'[k] = t
          BY <3>1, <3>2, <1>1, <1>4 DEF Writes, Terminal
        <4> QED
          BY <4>1, <1>2
      <3>3. CASE op.do # "save"
        <4>1. row' = row /\ todo'[k] = t
          BY <3>1, <3>3, <1>1, <1>4
        <4>2. i + 1 \in 1..Len(todo[j]) /\ t[i] = todo[j][i + 1]
          BY <4>1, <1>2
        <4> QED
          BY <4>1, <4>2 DEF OutcomeKept
      <3> QED
        BY <3>2, <3>3
    <2> QED
      BY <2>1, <2>2, <2>4
  <1>13. Ending'
    <2> SUFFICES ASSUME NEW w \in Watchers, stream[w] = "streaming"
                 PROVE  /\ HasSnapshot(row') => HasEnd(queue'[w], late) \/ \E k \in Jobs : WillAnnounce(todo'[k])
                        /\ \A k \in Jobs : WillWrite(todo'[k]) => HasEnd(queue'[w], late) \/ WillAnnounce(todo'[k])
      BY <1>1 DEF Ending, HasSnapshot
    <2>1. ~deployment.shared /\ Calm
      BY DEF Turns, Calm
    <2>2. \A k \in Jobs \ {j} : todo[k] = <<>>
      BY <1>1, <2>1 DEF Scripts, Undisturbed, MidStep
    <2>3. \A k \in Jobs \ {j} : ~WillWrite(todo'[k]) /\ ~WillAnnounce(todo'[k]) /\ ~WillAnnounce(todo[k])
      BY <2>2, <1>4 DEF WillWrite, WillAnnounce
    <2>4. /\ HasSnapshot(row) => HasEnd(queue[w], late) \/ WillAnnounce(s)
          /\ WillWrite(s) => HasEnd(queue[w], late) \/ WillAnnounce(s)
      BY <2>3 DEF Ending
    <2>5. CASE op.do = "emit"
      <3>1. Announces(op) => HasEnd(queue'[w], late)
        BY <2>5, <1>1, <1>3, PublishKeeps DEF Announces
      <3>2. HasSnapshot(row) \/ WillWrite(t) => WaitsAt(s) = "done"
        BY <2>1, <1>1, <1>2, <1>4, <1>6 DEF HasSnapshot, CalmInv, RunFirst, RunOver, Jobs, WillWrite, Shaped
      <3> QED
        BY <3>1, <3>2, <2>3, <2>5, <1>1, <1>2, <1>4
    <2>6. CASE op.do = "save"
      <3>1. ~Announces(op) /\ queue' = queue
        BY <2>6, <1>1 DEF Announces
      <3>2. HasSnapshot(row') => HasSnapshot(row) \/ WillWrite(s)
        BY <2>6, <1>1, <1>2 DEF HasSnapshot, Writes
      <3> QED
        BY <3>1, <3>2, <2>3, <2>4, <1>2, <1>4
    <2>7. CASE op.do = "goto"
      <3>1. ~Announces(op) /\ queue' = queue /\ row' = row /\ ~WillAnnounce(t) /\ ~WillWrite(t)
        BY <2>7, <1>1, <1>2 DEF Announces, WillAnnounce, WillWrite
      <3> QED
        BY <3>1, <2>3, <2>4, <1>2, <1>4
    <2> QED
      BY <2>5, <2>6, <2>7, <1>3
  <1> QED
    BY <1>7, <1>8, <1>9, <1>10, <1>11, <1>12, <1>13

-----------------------------------------------------------------------------
(* The other steps.                                                         *)

LEMMA SubmitInv == ASSUME IInv, Submit PROVE IInv'
  <1> USE DEF IInv, Inv0, Submit
  <1>1. /\ pc'[RunJob] = "queued" /\ pc[RunJob] = "away"
        /\ \A k \in Jobs \ {RunJob} : pc'[k] = pc[k] /\ pc[k] = "away"
        /\ RunJob \in Jobs /\ Resumes \subseteq Jobs
    BY DEF TypeOK, Jobs, Roles
  <1>2. TypeOK'
    BY DEF TypeOK, TaskStatus
  <1>3. Scripts'
    BY <1>1 DEF Scripts, Own
  <1>4. Roles'
    BY <1>1, ResumesAssumption DEF Roles, Jobs
  <1>5. Turns'
    BY <1>1 DEF Turns, MidStep, Joining
  <1>6. Responsible'
    BY <1>1 DEF Responsible, RunPending
  <1>7. CalmInv'
    BY <1>1, ResumesAssumption DEF CalmInv, Calm, RunFirst, RunOver, OneStart, OutcomeKept, Terminal, Jobs
  <1>8. Ending'
    BY DEF Ending, HasSnapshot
  <1> QED
    BY <1>2, <1>3, <1>4, <1>5, <1>6, <1>7, <1>8

LEMMA NodeEventInv == ASSUME IInv, NEW j \in Jobs, NodeEvent(j) PROVE IInv'
  <1> USE DEF IInv, Inv0
  <1>1. /\ pc[j] = "executing" \/ (j \in orphans /\ ~MidStep(j))
        /\ Undisturbed(j) /\ Publish("node")
        /\ late' = IF j \in orphans /\ late < MaxQueue THEN late + 1 ELSE late
        /\ UNCHANGED <<deployment, confirm, row, attempt, pc, todo, started, orphans, stream>>
    BY DEF NodeEvent
  <1>2. MaxQueue \in Nat /\ late \in 0..MaxQueue /\ "node" \in Events
    BY BoundsAssumption DEF TypeOK, Events
  <1>3. TypeOK'
    <2>1. late' \in 0..MaxQueue
      BY <1>1, <1>2
    <2> QED
      BY <2>1, <1>1, <1>2, PublishKeeps DEF TypeOK
  <1>4. Scripts' /\ Roles' /\ Turns' /\ Responsible' /\ CalmInv'
    BY <1>1 DEF Scripts, Own, Roles, Turns, MidStep, Joining, Responsible, RunPending, ClaimPending,
                ExecPending, CalmInv, Calm, RunFirst, RunOver, OneStart, OutcomeKept
  <1>5. Ending'
    <2> SUFFICES ASSUME NEW w \in Watchers, stream[w] = "streaming"
                 PROVE  /\ HasSnapshot(row) => HasEnd(queue'[w], late')
                        /\ \A k \in Jobs : ~WillWrite(todo[k])
      BY <1>1 DEF Ending, HasSnapshot
    <2>1. ~deployment.shared /\ Calm
      BY DEF Turns, Calm
    <2>2. \A k \in Jobs : todo[k] = <<>>
      BY <2>1, <1>1 DEF Scripts, Undisturbed, MidStep
    <2>3. \A k \in Jobs : ~WillWrite(todo[k]) /\ ~WillAnnounce(todo[k])
      BY <2>2 DEF WillWrite, WillAnnounce
    <2>4. HasSnapshot(row) => j \in orphans /\ HasEnd(queue[w], late)
      BY <2>1, <2>3, <1>1 DEF HasSnapshot, CalmInv, RunFirst, OneStart, RunOver, Jobs, Ending
    <2>5. HasEnd(queue[w], late) => HasEnd(queue'[w], late + 1)
      BY <1>1, <1>2, PublishKeeps
    <2>6. j \in orphans => late' = late + 1 \/ late' = MaxQueue
      BY <1>1, <1>2
    <2>7. HasEnd(queue'[w], MaxQueue)
      BY <1>2 DEF HasEnd
    <2> QED
      BY <2>3, <2>4, <2>5, <2>6, <2>7
  <1> QED
    BY <1>3, <1>4, <1>5

LEMMA CrashInv == ASSUME IInv, NEW j \in Jobs, Crash(j) PROVE IInv'
  <1> USE DEF IInv, Inv0
  <1>1. /\ deployment.shared /\ pc[j] \notin {"away", "refused", "done", "dead"}
        /\ pc' = [pc EXCEPT ![j] = "dead"] /\ todo' = [todo EXCEPT ![j] = <<>>]
        /\ pc'[j] = "dead" /\ todo'[j] = <<>>
        /\ \A k \in Jobs \ {j} : pc'[k] = pc[k] /\ todo'[k] = todo[k]
        /\ orphans' = orphans \ {j}
        /\ UNCHANGED <<deployment, confirm, row, attempt, started, late, stream, queue>>
        /\ RunJob \in Jobs /\ Resumes \subseteq Jobs
    BY DeploymentsAssumption DEF Crash, TypeOK, Deployment, Jobs
  <1>2. TypeOK'
    BY <1>1 DEF TypeOK
  <1>3. Scripts'
    BY <1>1 DEF Scripts, Own
  <1>4. Roles'
    BY <1>1, ResumesAssumption DEF Roles, Jobs
  <1>5. Turns' /\ Responsible' /\ Ending'
    BY <1>1 DEF Turns, Responsible, Ending
  <1>6. CalmInv'
    <2> SUFFICES ASSUME Calm PROVE RunFirst' /\ OneStart' /\ OutcomeKept'
      BY <1>1 DEF CalmInv, Calm
    <2>1. RunFirst' /\ OneStart'
      BY <1>1, ResumesAssumption DEF CalmInv, RunFirst, OneStart, RunOver
    <2>2. OutcomeKept'
      BY <1>1 DEF CalmInv, OutcomeKept
    <2> QED
      BY <2>1, <2>2
  <1> QED
    BY <1>2, <1>3, <1>4, <1>5, <1>6

\* A step of a resume call other than its list.
LEMMA HandlerInv ==
    ASSUME IInv, NEW r \in Resumes,
           ResumeRequested(r) \/ ResumeCalled(r) \/ HandlerStep(r)
    PROVE  IInv'
  <1> USE DEF IInv, Inv0
  <1>1. PICK from \in {"away", "checked", "selected", "queued", "promoting"},
             to \in {"checked", "selected", "refused", "queued", "promoting", "executing", "done"} :
           /\ Step(r, from, to)
           /\ from = "away" => MayAsk /\ row' = row /\ started' = started
           /\ to \in {"checked", "selected", "promoting"} => row \in Promotable
           /\ IF to = "executing"
              THEN /\ from = "promoting" /\ row \in Promotable
                   /\ row' = "executing" /\ started' = started \cup {r}
              ELSE /\ started' = started
                   /\ \/ row' = row
                      \/ row \in Resumable /\ row' = "resuming" /\ from = "selected" /\ to = "queued"
           /\ from = "promoting" => to = "executing" \/ row \notin Promotable
           /\ from = "queued" => to = "promoting" \/ row \notin Promotable
    BY DEF ResumeRequested, ResumeCalled, HandlerStep, ClaimSelects, ClaimUpdates, PromoteSelects,
           PromoteUpdates, Promotable, Resumable, Step
  <1>2. /\ pc[r] = from /\ Undisturbed(r) /\ pc' = [pc EXCEPT ![r] = to]
        /\ pc'[r] = to /\ \A k \in Jobs \ {r} : pc'[k] = pc[k]
        /\ UNCHANGED <<deployment, confirm, attempt, todo, orphans, late, stream, queue>>
        /\ r \in Jobs /\ r # RunJob /\ RunJob \in Jobs /\ Resumes \subseteq Jobs
    BY <1>1, ResumesAssumption DEF Step, TypeOK, Jobs
  <1>3. TypeOK'
    BY <1>1, <1>2 DEF TypeOK, TaskStatus
  <1>4. Scripts'
    BY <1>1, <1>2 DEF Scripts, Own
  <1>5. Roles'
    BY <1>1, <1>2 DEF Roles, Promotable, Resumable, MayAsk, TypeOK
  <1>6. Turns'
    BY <1>1, <1>2 DEF Turns, Undisturbed, MidStep, Joining
  <1>7. Responsible'
    <2> SUFFICES ASSUME \A k \in Jobs : pc'[k] # "dead"
                 PROVE  /\ row' = "planning"  => RunPending'
                        /\ row' = "resuming"  => \E q \in Resumes : ClaimPending(q)'
                        /\ row' = "executing" => \E q \in Resumes : ExecPending(q)'
      BY DEF Responsible
    <2>1. \A k \in Jobs : pc[k] # "dead"
      BY <1>1, <1>2
    <2>2. row' = "planning" => RunPending'
      BY <2>1, <1>1, <1>2 DEF Responsible, RunPending
    <2>3. row' = "resuming" => \E q \in Resumes : ClaimPending(q)'
      BY <2>1, <1>1, <1>2 DEF Responsible, ClaimPending, Promotable
    <2>4. row' = "executing" => \E q \in Resumes : ExecPending(q)'
      BY <2>1, <1>1, <1>2 DEF Responsible, ExecPending
    <2> QED
      BY <2>2, <2>3, <2>4
  <1>8. CalmInv'
    <2> SUFFICES ASSUME Calm PROVE RunFirst' /\ OneStart' /\ OutcomeKept'
      BY <1>2 DEF CalmInv, Calm
    <2> USE DEF CalmInv
    <2>1. row \in Promotable /\ to # "refused" => RunOver \/ from = "away"
      BY <1>1, <1>2 DEF RunFirst, RunOver, Undisturbed, MidStep, Calm, Promotable, Resumable
    <2>2. from = "away" /\ deployment.shared => RunOver
      BY <1>1 DEF MayAsk, Calm, RunOver
    <2>3. from = "away" /\ ~deployment.shared /\ row \in Promotable => RunOver
      BY <1>2 DEF RunFirst, RunOver, Undisturbed, MidStep, Promotable, Resumable
    <2>4. RunFirst'
      BY <2>1, <2>2, <2>3, <1>1, <1>2 DEF RunFirst, RunOver, Promotable, Resumable
    <2>5. row \in Promotable => started = {}
      BY <1>1, <1>2 DEF OneStart, Roles, Promotable, Resumable
    <2>6. OneStart'
      BY <2>1, <2>2, <2>3, <2>5, <1>1, <1>2 DEF OneStart, RunOver, Roles, Promotable, Resumable
    <2>7. OutcomeKept'
      BY <1>1, <1>2 DEF OutcomeKept, Terminal
    <2> QED
      BY <2>4, <2>6, <2>7
  <1>9. Ending'
    <2>1. HasSnapshot(row') => HasSnapshot(row)
      BY <1>1 DEF HasSnapshot
    <2> QED
      BY <2>1, <1>2 DEF Ending
  <1> QED
    BY <1>3, <1>4, <1>5, <1>6, <1>7, <1>8, <1>9

LEMMA WatcherInv ==
    ASSUME IInv, NEW w \in Watchers, Subscribe(w) \/ WatcherStep(w)
    PROVE  IInv'
  <1> USE DEF IInv, Inv0
  <1>1. /\ UNCHANGED <<deployment, confirm, row, attempt, pc, todo, started, orphans, late>>
        /\ ~deployment.shared =>
              (\A j \in Jobs : ~MidStep(j)) /\ (\A v \in Watchers \ {w} : ~Joining(v))
    BY DEF Subscribe, WatcherStep, Join, Receive, WatchStep
  <1>2. /\ ~deployment.shared
        /\ stream' \in [Watchers -> {"away", "joining", "streaming", "closed"}]
        /\ \A v \in Watchers \ {w} : stream'[v] = stream[v] /\ queue'[v] = queue[v]
        /\ \/ queue' = queue
           \/ queue' = [queue EXCEPT ![w] = Tail(queue[w])] /\ queue[w] # <<>> /\ stream[w] = "streaming"
    BY DEF Subscribe, WatcherStep, Join, Receive, WatchStep, TypeOK, Turns
  <1>3. TypeOK'
    <2>1. /\ queue' \in [Watchers -> Seq(Events)]
          /\ \A v \in Watchers : Len(queue'[v]) <= MaxQueue
      <3>1. queue[w] \in Seq(Events) /\ Len(queue[w]) <= MaxQueue /\ MaxQueue \in Nat
        BY BoundsAssumption DEF TypeOK
      <3>2. queue[w] # <<>> => Tail(queue[w]) \in Seq(Events) /\ Len(Tail(queue[w])) <= MaxQueue
        BY <3>1, TailElements
      <3> QED
        BY <3>2, <1>2 DEF TypeOK
    <2> QED
      BY <2>1, <1>1, <1>2 DEF TypeOK
  <1>4. Scripts' /\ Roles' /\ Responsible' /\ CalmInv'
    BY <1>1 DEF Scripts, Own, Roles, Responsible, RunPending, ClaimPending, ExecPending, CalmInv, Calm,
                RunFirst, RunOver, OneStart, OutcomeKept
  <1>5. Turns'
    BY <1>1, <1>2 DEF Turns, MidStep, Joining
  <1>6. \A j \in Jobs : ~WillWrite(todo[j]) /\ ~WillAnnounce(todo[j])
    BY <1>1, <1>2 DEF Scripts, MidStep, WillWrite, WillAnnounce
  <1>7. ASSUME stream'[w] = "streaming", HasSnapshot(row) PROVE HasEnd(queue'[w], late)
    <2>1. CASE Subscribe(w)
      BY <2>1, <1>7 DEF Subscribe, TypeOK
    <2>2. CASE Join(w)
      BY <2>2, <1>7 DEF Join, TypeOK
    <2>3. CASE Receive(w)
      <3>1. /\ queue[w] \in Seq(Events) /\ queue[w] # <<>> /\ stream[w] = "streaming"
            /\ queue'[w] = Tail(queue[w]) /\ Head(queue[w]) \notin TerminalEvents
        BY <2>3, <1>7 DEF Receive, WatchStep, TypeOK
      <3>2. HasEnd(queue[w], late)
        BY <3>1, <1>6, <1>7 DEF Ending
      <3>3. late \in Nat
        BY BoundsAssumption DEF TypeOK
      <3> QED
        BY <3>1, <3>2, <3>3, TailKeepsEnd
    <2> QED
      BY <2>1, <2>2, <2>3 DEF WatcherStep
  <1>8. Ending'
    <2> SUFFICES ASSUME NEW v \in Watchers, stream'[v] = "streaming", HasSnapshot(row)
                 PROVE  HasEnd(queue'[v], late)
      BY <1>1, <1>6 DEF Ending, HasSnapshot
    <2>1. CASE v = w
      BY <2>1, <1>7
    <2>2. CASE v # w
      BY <2>2, <1>2, <1>6 DEF Ending
    <2> QED
      BY <2>1, <2>2
  <1> QED
    BY <1>3, <1>4, <1>5, <1>8

-----------------------------------------------------------------------------
(* The invariant, and what it gives.                                        *)

LEMMA InitInv == ASSUME Init PROVE IInv
  <1> USE DEF Init
  <1>1. RunJob \in Jobs /\ Resumes \subseteq Jobs
    BY DEF Jobs
  <1>2. TypeOK
    BY BoundsAssumption DEF TypeOK
  <1>3. Scripts /\ Roles
    BY <1>1 DEF Scripts, Roles
  <1>4. Turns
    BY DEF Turns, MidStep, Joining
  <1>5. Responsible /\ Ending
    BY DEF Responsible, Ending
  <1>6. CalmInv
    BY <1>1 DEF CalmInv, RunFirst, OneStart, OutcomeKept, Terminal
  <1> QED
    BY <1>2, <1>3, <1>4, <1>5, <1>6 DEF IInv, Inv0

LEMMA StepInv == ASSUME IInv, [Next]_vars PROVE IInv'
  <1>1. CASE Submit
    BY <1>1, SubmitInv
  <1>2. CASE RunStep
    BY <1>2, RunStepInv
  <1>3. ASSUME NEW j \in Jobs, Operate(j) \/ NodeEvent(j) \/ ExecStep(j) \/ Crash(j) PROVE IInv'
    BY <1>3, OperateInv, NodeEventInv, ExecStepInv, CrashInv
  <1>4. ASSUME NEW r \in Resumes, ResumeRequested(r) \/ ResumeCalled(r) \/ HandlerStep(r) PROVE IInv'
    BY <1>4, HandlerInv
  <1>5. ASSUME NEW w \in Watchers, Subscribe(w) \/ WatcherStep(w) PROVE IInv'
    BY <1>5, WatcherInv
  <1>6. CASE UNCHANGED vars
    BY <1>6 DEF vars, IInv, Inv0, TypeOK, Scripts, Own, Roles, Turns, MidStep, Joining, Responsible,
                RunPending, ClaimPending, ExecPending, CalmInv, Calm, RunFirst, RunOver, OneStart,
                OutcomeKept, Ending, HasSnapshot
  <1> QED
    BY <1>1, <1>2, <1>3, <1>4, <1>5, <1>6 DEF Next

\* The invariant holds in every state of every deployment: which job has which
\* writes and publications before it (Orchestrator.run and resume), who will
\* take the row out of its status, and what open streams still get.
THEOREM LifecycleInvariant == Spec => []IInv
  <1>1. Init => IInv
    BY InitInv
  <1>2. IInv /\ [Next]_vars => IInv'
    BY StepInv
  <1> QED
    BY <1>1, <1>2, PTL DEF Spec

\* Every variable of the lifecycle keeps its type; in particular no queue of a
\* subscription outgrows its bound (Subscription.deliver), for any bound.
THEOREM LifecycleTypes == Spec => []TypeOK
  <1>1. IInv => TypeOK
    BY DEF IInv, Inv0
  <1> QED
    BY <1>1, LifecycleInvariant, PTL

\* When clients of a shared store wait for Orchestrator.run to return before
\* they resume, a task enters the executor at most once: however many calls
\* resume it, through the claim or without it, and wherever workers die.
THEOREM ExecutedOnce ==
    ASSUME \A d \in Deployments : d.shared => d.patient
    PROVE  Spec => []OneExecution
  <1>1. IInv => OneExecution
    <2> SUFFICES ASSUME IInv PROVE OneExecution
      OBVIOUS
    <2>1. \A a, b \in started : a = b
      BY DEF IInv, Inv0, TypeOK, CalmInv, Calm, OneStart
    <2>2. CASE started = {}
      BY <2>2, FS_EmptySet DEF OneExecution
    <2>3. CASE started # {}
      <3>1. PICK a \in started : started = {a}
        BY <2>1, <2>3
      <3>2. Cardinality({a}) = 1
        BY FS_Singleton
      <3> QED
        BY <3>1, <3>2 DEF OneExecution
    <2> QED
      BY <2>2, <2>3
  <1> QED
    BY <1>1, LifecycleInvariant, PTL

\* A step of a calm deployment leaves a recorded outcome alone.
LEMMA OutcomeStep ==
    ASSUME IInv, Calm, [Next]_vars, row \in Terminal
    PROVE  row' = row
  <1> USE DEF IInv, Inv0
  <1>1. row \notin Promotable /\ row # "absent"
    BY DEF Terminal, Promotable, Resumable
  <1>2. ASSUME NEW j \in Jobs, Operate(j) PROVE row' = row
    <2>1. Shaped(todo[j]) /\ row' = IF Head(todo[j]).do = "save" THEN Head(todo[j]).arg ELSE row
      BY <1>2 DEF Operate, Scripts
    <2>2. 1 \in 1..Len(todo[j]) /\ Head(todo[j]) = todo[j][1]
      BY <2>1, RestOfList
    <2> QED
      BY <2>1, <2>2 DEF CalmInv, OutcomeKept
  <1>3. ASSUME NEW r \in Resumes, ResumeRequested(r) \/ ResumeCalled(r) \/ HandlerStep(r)
        PROVE  row' = row
    BY <1>1, <1>3 DEF ResumeRequested, ResumeCalled, HandlerStep, ClaimSelects, ClaimUpdates,
                      PromoteSelects, PromoteUpdates, Promotable
  <1>4. CASE Submit \/ RunStep \/ UNCHANGED vars
    BY <1>1, <1>4 DEF Submit, RunStep, RunStarts, AttemptFails, PlanningFails, PlanRejected,
                      PlannerRaises, PresentOrExecute, PlannerReturns, vars
  <1>5. ASSUME NEW j \in Jobs, NodeEvent(j) \/ ExecStep(j) \/ Crash(j) PROVE row' = row
    BY <1>5 DEF NodeEvent, ExecStep, ExecuteReturns, ExecuteRaises, Crash
  <1>6. ASSUME NEW w \in Watchers, Subscribe(w) \/ WatcherStep(w) PROVE row' = row
    BY <1>6 DEF Subscribe, WatcherStep, Join, Receive, WatchStep
  <1> QED
    BY <1>2, <1>3, <1>4, <1>5, <1>6 DEF Next

\* Under the same condition the outcome a job recorded is never overwritten by
\* a slower job, the second of two resumed ones or the run job itself.
THEOREM OutcomeNeverOverwritten ==
    ASSUME \A d \in Deployments : d.shared => d.patient
    PROVE  Spec => OutcomeIsFinal
  <1>1. IInv => Calm
    BY DEF IInv, Inv0, TypeOK, Calm
  <1>2. IInv /\ [Next]_vars => [(row \in Terminal) => UNCHANGED row]_vars
    BY <1>1, OutcomeStep
  <1> QED
    BY <1>2, LifecycleInvariant, PTL DEF Spec, OutcomeIsFinal

\* A task at rest leaves no stream without the event that ends it, however
\* small the queues are and however many events they have shed: nothing of the
\* job follows that event, node tasks it left behind push it on by one place
\* each, and a watcher that joins later looks at the row after it has
\* subscribed (Subscription.deliver, Executor.execute, _event_source).  Once
\* they have published a queue of events it may be gone: see EndIsQueued.
THEOREM EndReachesStreams == Spec => []EndNeverShed
  <1>1. IInv => EndNeverShed
    <2> SUFFICES ASSUME IInv, late < MaxQueue, ~Alive,
                        row \in {"completed", "failed", "awaiting_confirmation"},
                        NEW w \in Watchers, stream[w] = "streaming"
                 PROVE  \E i \in 1..Len(queue[w]) : queue[w][i] \in TerminalEvents
      BY DEF EndNeverShed, EndIsQueued
    <2>1. \A j \in Jobs : todo[j] = <<>>
      BY DEF Alive, IInv, Inv0, Scripts
    <2>2. \A j \in Jobs : ~WillAnnounce(todo[j])
      BY <2>1 DEF WillAnnounce
    <2> QED
      BY <2>2 DEF IInv, Ending, HasSnapshot, HasEnd
  <1> QED
    BY <1>1, LifecycleInvariant, PTL

\* A task is left without a job in planning, resuming or executing only if a
\* worker died, in every deployment, whoever resumes it and when.
THEOREM OnlyCrashesStrand == Spec => []StuckOnlyByCrash
  <1>1. IInv => StuckOnlyByCrash
    <2> SUFFICES ASSUME IInv, ~Alive, \A j \in Jobs : pc[j] # "dead"
                 PROVE  row \notin {"planning", "resuming", "executing"}
      BY DEF StuckOnlyByCrash, IInv, Inv0, TypeOK, TaskStatus, Resumable
    <2>1. RunJob \in Jobs /\ Resumes \subseteq Jobs
      BY DEF Jobs
    <2>2. ~RunPending /\ \A r \in Resumes : ~ClaimPending(r) /\ ~ExecPending(r)
      BY <2>1 DEF Alive, RunPending, ClaimPending, ExecPending
    <2> QED
      BY <2>2 DEF IInv, Responsible
  <1> QED
    BY <1>1, LifecycleInvariant, PTL

=============================================================================
