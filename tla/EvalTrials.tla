------------------------------ MODULE EvalTrials ------------------------------
(***************************************************************************)
(* A suite run of the evaluation framework: the worker pool of run.py and  *)
(* its fixture locks, the trial of evalkit/runner.py that sets a task's    *)
(* paths aside, installs its fixtures, runs the subject and puts the paths *)
(* back, the subjects (evalkit/subjects) that report what became of the    *)
(* agent, and the score a trial gets (evalkit/graders).                    *)
(*                                                                         *)
(* A file is what it was made by: the user, a fixture of a task, or a      *)
(* write of a task's subject.  The process may die between two file        *)
(* operations and be started again.  A subject touches only the paths its  *)
(* task manages; a managed path is one resolved path.                      *)
(***************************************************************************)
EXTENDS Integers, Sequences, FiniteSets

CONSTANTS
    NumTasks,      \* tasks of the suite, run in the order 1..NumTasks
    NumWorkers,    \* --workers
    Paths,         \* managed paths: numbers, in the order of their names
    Install,       \* Install[t]: paths that get a fixture of task t
    Empty,         \* Empty[t]: paths that fixtures.install empties
    Listed,        \* Listed[t]: the paths task t manages, in its config's order
    Suites,        \* the suites: which backend each task has
    Trials,        \* --trials
    MaxTurns,      \* task.max_turns; polls before a gateway's deadline
    Origins,       \* what a managed path may hold when the first run starts
    MaxCrashes     \* bound on the deaths of the process

Tasks   == 1..NumTasks
Workers == 1..NumWorkers

ASSUME SuiteAssumption ==
    /\ NumTasks \in Nat /\ NumWorkers \in Nat /\ Trials \in Nat \ {0} /\ MaxTurns \in Nat \ {0}
    /\ Paths \subseteq Nat /\ MaxCrashes \in Nat
    /\ Suites \subseteq [Tasks -> {"cli", "execplan", "claude", "chat", "gateway", "react"}]
    /\ Origins \subseteq {"absent", "crashed", "user"}
    /\ \A t \in Tasks :
          /\ Listed[t] \in Seq(Paths)
          /\ Install[t] \cup Empty[t] \subseteq {Listed[t][i] : i \in DOMAIN Listed[t]}

VARIABLES
    backend,    \* the suite that is run: the backend of every task
    origin,     \* what the user had at each path before the first run
    file,       \* the managed paths
    backup,     \* <path>.evalbackup
    holder,     \* the worker that holds the lock of a path, 0 for none
    next_task,  \* the next task the pool hands out
    worker,     \* each worker: its task, where it is in it, and its locals
    scored,     \* trials of each task with a score
    crashes

vars == <<backend, origin, file, backup, holder, next_task, worker, scored, crashes>>

Absent     == <<"absent", 0>>
User       == <<"user", 0>>
Fixture(t) == <<"fixture", t>>
Written(t) == <<"written", t>>

\* The locals of a worker between two tasks.
Idle == [task |-> 0, at |-> "idle", todo |-> <<>>, turn |-> 0, seen |-> {},
         came_of |-> "none", score |-> "none"]

-----------------------------------------------------------------------------
(***************************************************************************)
(* The subjects.  What may come of an invocation, by backend; the report   *)
(* is infra_error or not, and success or not.                              *)
(***************************************************************************)
\* Ends of the agent's own making.
AgentEnds == {"completed", "failed", "rejected", "exit_code", "turns_exhausted", "awaiting_confirmation"}

\* An outage of the model providers behind glassrail.  The task fails and its error
\* names the outage (provider_down) or is worded otherwise (outage_unnamed: "All
\* providers exhausted; last error: ... health check failed"); or it is met by nodes
\* and the task completes with them failed (outage_in_nodes).
Outages == {"provider_down", "outage_unnamed", "outage_in_nodes"}

\* GlassrailCliSubject.run, _result_from_proc.
CliOutcomes == {"completed", "failed", "rejected", "exit_code",
                "timed_out", "not_found", "no_key", "unparsable"} \cup Outages
CliInfra    == {"timed_out", "not_found", "no_key", "unparsable"}

\* GlassrailExecPlanSubject.run.
ExecPlanOutcomes == {"completed", "failed", "exit_code",
                     "timed_out", "not_found", "no_plan", "unparsable"} \cup Outages
ExecPlanInfra    == {"timed_out", "not_found", "no_plan", "unparsable"}

\* ClaudeCliSubject.run, invoke_claude: exit without output is not flagged.
ClaudeOutcomes == {"completed", "failed", "timed_out", "not_found", "unparsable", "silent_exit"}
ClaudeInfra    == {"timed_out", "not_found", "unparsable"}

\* OpenAICompatSubject.run, chat_once.
ChatOutcomes == {"completed", "empty_reply", "unreachable", "timed_out", "unparsable"}
ChatInfra    == {"empty_reply", "unreachable", "timed_out", "unparsable"}

\* GlassrailGatewaySubject.run: how the polling of a submitted task may end.
GatewayOutcomes == {"completed", "failed", "awaiting_confirmation", "unreachable",
                    "no_task_id", "timed_out"} \cup Outages
GatewayInfra    == {"unreachable", "no_task_id", "timed_out"}

\* ReactLoopSubject.run.
ReactOutcomes == {"completed", "empty_reply", "unreachable", "timed_out", "unparsable", "turns_exhausted"}
ReactInfra    == {"empty_reply", "unreachable", "timed_out", "unparsable"}

Reports ==
    [cli      |-> [outcomes |-> CliOutcomes,      infra |-> CliInfra],
     execplan |-> [outcomes |-> ExecPlanOutcomes, infra |-> ExecPlanInfra],
     claude   |-> [outcomes |-> ClaudeOutcomes,   infra |-> ClaudeInfra],
     chat     |-> [outcomes |-> ChatOutcomes,     infra |-> ChatInfra],
     gateway  |-> [outcomes |-> GatewayOutcomes,  infra |-> GatewayInfra],
     react    |-> [outcomes |-> ReactOutcomes,    infra |-> ReactInfra]]

\* The backends that take several exchanges, and what is left when these run out:
\* a poll that never sees a terminal status, a model that only calls tools.
Exhausted == [gateway |-> "timed_out", react |-> "turns_exhausted"]

\* trial_infra_error: the subject's flag or an exception of the runner, or a failure
\* that leaves no evidence or whose error or envelope has one of the keywords of an
\* outage.  A trial that succeeded, or whose outage is worded otherwise, is not one.
TrialInfra(kind, outcome) ==
    outcome \in Reports[kind].infra \cup {"raised", "silent_exit", "provider_down"}

-----------------------------------------------------------------------------
Member(t)   == {Listed[t][i] : i \in DOMAIN Listed[t]}
InTask(w)   == worker[w].task
At(w, st)   == worker[w].at = st
Put(w, l)   == worker' = [worker EXCEPT ![w] = l]
Goto(w, st) == Put(w, [worker[w] EXCEPT !.at = st, !.todo = Listed[InTask(w)]])
Pop(w)      == Put(w, [worker[w] EXCEPT !.todo = Tail(@)])

\* The first run's surroundings: nothing at the path, what a run that died left there
\* with the user's file set aside, or the user's file.
Init ==
    /\ backend \in Suites
    /\ origin \in [Paths -> Origins]
    /\ file = [p \in Paths |-> CASE origin[p] = "absent"  -> Absent
                                [] origin[p] = "crashed" -> Fixture(1)
                                [] origin[p] = "user"    -> User]
    /\ backup = [p \in Paths |-> IF origin[p] = "crashed" THEN User ELSE Absent]
    /\ holder = [p \in Paths |-> 0]
    /\ next_task = 1
    /\ worker = [w \in Workers |-> Idle]
    /\ scored = [t \in Tasks |-> 0]
    /\ crashes = 0

\* A worker of the pool takes the next task submitted.
TakeTask(w) ==
    /\ At(w, "idle") /\ next_task <= NumTasks
    /\ Put(w, [Idle EXCEPT !.task = next_task, !.at = "locking"])
    /\ next_task' = next_task + 1
    /\ UNCHANGED <<backend, origin, file, backup, holder, scored, crashes>>

\* A bug to catch: locks are taken in the order the config lists the paths.
NextLockAsListed(w) ==
    LET free == {i \in DOMAIN Listed[InTask(w)] : holder[Listed[InTask(w)][i]] # w}
    IN  IF free = {} THEN {} ELSE {Listed[InTask(w)][CHOOSE i \in free : \A j \in free : i <= j]}

\* A bug to catch: only the paths that get a fixture are locked.
NextLockOfInstalled(w) ==
    LET free == {p \in Install[InTask(w)] : holder[p] # w}
    IN  {p \in free : \A q \in free : p <= q}

\* The path whose lock _run_task_locked acquires next, in sorted order.
NextLock(w) ==
    LET free == {p \in Member(InTask(w)) : holder[p] # w}
    IN  {p \in free : \A q \in free : p <= q}

Acquire(w) ==
    /\ At(w, "locking")
    /\ \E p \in NextLock(w) : holder[p] = 0 /\ holder' = [holder EXCEPT ![p] = w]
    /\ UNCHANGED <<backend, origin, file, backup, next_task, worker, scored, crashes>>

Locked(w) == NextLock(w) = {}

\* All locks held: run_task, and its first trial.
StartTask(w) ==
    /\ At(w, "locking") /\ Locked(w)
    /\ Goto(w, "restore")
    /\ UNCHANGED <<backend, origin, file, backup, holder, next_task, scored, crashes>>

\* _restore: the backup comes back, or what is there is removed.
Restored(p) ==
    /\ file' = [file EXCEPT ![p] = backup[p]]
    /\ backup' = [backup EXCEPT ![p] = Absent]

\* run_trial recovers from a crash, one path at a time.
RestoreFirst(w) ==
    /\ At(w, "restore")
    /\ IF worker[w].todo = <<>>
       THEN Goto(w, "backup") /\ UNCHANGED <<file, backup>>
       ELSE Restored(Head(worker[w].todo)) /\ Pop(w)
    /\ UNCHANGED <<backend, origin, holder, next_task, scored, crashes>>

\* _backup: a copy of what is there, in place of any older one.
BackUp(p) == backup' = [backup EXCEPT ![p] = file[p]]

TakeBackups(w) ==
    /\ At(w, "backup")
    /\ IF worker[w].todo = <<>>
       THEN Goto(w, "install") /\ UNCHANGED backup
       ELSE BackUp(Head(worker[w].todo)) /\ Pop(w)
    /\ UNCHANGED <<backend, origin, file, holder, next_task, scored, crashes>>

\* _install_fixtures, one path at a time; a captured path is left as it is.
InstallFixtures(w) ==
    /\ At(w, "install")
    /\ IF worker[w].todo = <<>>
       THEN Goto(w, "running") /\ UNCHANGED file
       ELSE LET p == Head(worker[w].todo)
                t == InTask(w)
            IN  /\ file' = [file EXCEPT ![p] = IF p \in Install[t] THEN Fixture(t)
                                               ELSE IF p \in Empty[t] THEN Absent ELSE @]
                /\ Pop(w)
    /\ UNCHANGED <<backend, origin, backup, holder, next_task, scored, crashes>>

\* The trial's finally, and what the trial came to.
Finish(w, outcome) ==
    Put(w, [worker[w] EXCEPT !.at = "capture", !.todo = Listed[InTask(w)], !.came_of = outcome])

\* A fixture source is missing: the exception is recorded in the trial.
InstallRaises(w) ==
    /\ At(w, "install") /\ worker[w].todo # <<>>
    /\ Put(w, [worker[w] EXCEPT !.at = "finally", !.todo = Listed[InTask(w)], !.came_of = "raised"])
    /\ UNCHANGED <<backend, origin, file, backup, holder, next_task, scored, crashes>>

\* The agent writes one of its task's paths.
SubjectWrites(w) ==
    /\ At(w, "running")
    /\ \E p \in Member(InTask(w)) : file' = [file EXCEPT ![p] = Written(InTask(w))]
    /\ UNCHANGED <<backend, origin, backup, holder, next_task, worker, scored, crashes>>

\* One more turn of the ReAct loop (a tool call), or poll of the gateway (no terminal status).
SubjectGoesOn(w) ==
    /\ At(w, "running") /\ backend[InTask(w)] \in DOMAIN Exhausted
    /\ worker[w].turn < MaxTurns
    /\ Put(w, [worker[w] EXCEPT !.turn = @ + 1])
    /\ UNCHANGED <<backend, origin, file, backup, holder, next_task, scored, crashes>>

\* subject.run returns.
SubjectReturns(w) ==
    /\ At(w, "running")
    /\ IF backend[InTask(w)] \in DOMAIN Exhausted /\ worker[w].turn = MaxTurns
       THEN Finish(w, Exhausted[backend[InTask(w)]])
       ELSE \E outcome \in Reports[backend[InTask(w)]].outcomes \ {"turns_exhausted"} : Finish(w, outcome)
    /\ UNCHANGED <<backend, origin, file, backup, holder, next_task, scored, crashes>>

\* The contents of the captured paths are read into the trial.
Capture(w) ==
    /\ At(w, "capture")
    /\ Put(w, [worker[w] EXCEPT !.at = "finally",
                                !.seen = {file[p] : p \in Member(InTask(w)) \ (Install[InTask(w)] \cup Empty[InTask(w)])}])
    /\ UNCHANGED <<backend, origin, file, backup, holder, next_task, scored, crashes>>

\* A bug to catch: a trial that failed leaves its paths as they are.
RestoreLastOnSuccess(w) ==
    /\ At(w, "finally")
    /\ IF worker[w].todo = <<>> \/ worker[w].came_of = "raised"
       THEN Goto(w, "grading") /\ UNCHANGED <<file, backup>>
       ELSE Restored(Head(worker[w].todo)) /\ Pop(w)
    /\ UNCHANGED <<backend, origin, holder, next_task, scored, crashes>>

\* The finally of run_trial, one path at a time.
RestoreLast(w) ==
    /\ At(w, "finally")
    /\ IF worker[w].todo = <<>>
       THEN Goto(w, "grading") /\ UNCHANGED <<file, backup>>
       ELSE Restored(Head(worker[w].todo)) /\ Pop(w)
    /\ UNCHANGED <<backend, origin, holder, next_task, scored, crashes>>

(***************************************************************************)
(* graders.grade.  The deterministic criteria: there are none, none of     *)
(* them passed, some did, all did; the judge: it passes or fails the       *)
(* criteria put to it, is not needed, or cannot be reached.  With no       *)
(* deterministic criterion passed the judge is not asked (cost gate), and  *)
(* a judge that cannot be reached makes it an infrastructure failure.      *)
(***************************************************************************)
JudgeAnswers == {"passes", "fails", "not needed", "unreachable"}

Verdict(checks, judge) ==
    IF checks = "none passed" THEN "fail"
    ELSE IF judge = "unreachable" THEN "infra"
    ELSE IF checks = "some passed" \/ judge = "fails" THEN "fail"
    ELSE "pass"

Scores(kind, outcome) ==
    IF TrialInfra(kind, outcome) THEN {"infra"}
    ELSE {Verdict(c, j) : c \in {"no checks", "none passed", "some passed", "all passed"},
                          j \in JudgeAnswers}

Grade(w) ==
    /\ At(w, "grading")
    /\ \E s \in Scores(backend[InTask(w)], worker[w].came_of) :
          Put(w, [worker[w] EXCEPT !.at = "graded", !.todo = <<>>, !.score = s])
    /\ scored' = [scored EXCEPT ![InTask(w)] = @ + 1]
    /\ UNCHANGED <<backend, origin, file, backup, holder, next_task, crashes>>

NextTrial(w) ==
    /\ At(w, "graded") /\ scored[InTask(w)] < Trials
    /\ Put(w, [Idle EXCEPT !.task = InTask(w), !.at = "restore", !.todo = Listed[InTask(w)]])
    /\ UNCHANGED <<backend, origin, file, backup, holder, next_task, scored, crashes>>

\* The last trial is scored: the finally of _run_task_locked.
EndTask(w) ==
    /\ At(w, "graded") /\ scored[InTask(w)] = Trials
    /\ holder' = [p \in Paths |-> IF holder[p] = w THEN 0 ELSE holder[p]]
    /\ Put(w, Idle)
    /\ UNCHANGED <<backend, origin, file, backup, next_task, scored, crashes>>

SuiteOver == next_task > NumTasks /\ \A w \in Workers : At(w, "idle")

\* The process dies, with its threads and their locks, and the suite is started again.
Crash ==
    /\ crashes < MaxCrashes /\ ~SuiteOver
    /\ crashes' = crashes + 1
    /\ holder' = [p \in Paths |-> 0]
    /\ next_task' = 1
    /\ worker' = [w \in Workers |-> Idle]
    /\ scored' = [t \in Tasks |-> 0]
    /\ UNCHANGED <<backend, origin, file, backup>>

Step(w) ==
    \/ TakeTask(w) \/ Acquire(w) \/ StartTask(w) \/ RestoreFirst(w) \/ TakeBackups(w)
    \/ InstallFixtures(w) \/ InstallRaises(w) \/ SubjectGoesOn(w) \/ SubjectReturns(w)
    \/ Capture(w) \/ RestoreLast(w) \/ Grade(w) \/ NextTrial(w) \/ EndTask(w)

Next == Crash \/ \E w \in Workers : Step(w) \/ SubjectWrites(w)

(***************************************************************************)
(* Fairness: a thread of the pool goes on with what it can do, and a       *)
(* subject's invocation is bounded by timeout_s and max_turns.             *)
(***************************************************************************)
Spec == Init /\ [][Next]_vars /\ \A w \in Workers : WF_vars(Step(w))

-----------------------------------------------------------------------------
(***************************************************************************)
(* Trials are isolated: while the subject of a task runs, and when its     *)
(* side effects are captured, every managed path holds the task's own      *)
(* fixture, its own writes, or (a path that is only captured) what was     *)
(* there before, and never another task's files.                           *)
(***************************************************************************)
Isolation ==
    \A w \in Workers :
        /\ worker[w].at \in {"running", "capture"} =>
              LET t == InTask(w) IN
              \A p \in Member(t) :
                  file[p] \in {Written(t)} \cup
                      (IF p \in Install[t] THEN {Fixture(t)}
                       ELSE IF p \in Empty[t] THEN {Absent} ELSE {Absent, User})
        /\ \A f \in worker[w].seen : f[2] \in {0, InTask(w)}

(***************************************************************************)
(* A task leaves nothing behind: once its trials are scored and its locks  *)
(* released, and whatever the runs before left that died at any point, its *)
(* paths hold no fixture and no subject's write, and no backup is left     *)
(* (run_trial's finally), however the tasks that share them take turns.    *)
(***************************************************************************)
NothingLeft ==
    \A t \in Tasks : \A p \in Member(t) :
        scored[t] = Trials /\ holder[p] = 0 => file[p] \in {Absent, User} /\ backup[p] = Absent

(***************************************************************************)
(* The paths are restored: "backed up to <path>.evalbackup before the run  *)
(* and restored in a finally" (runner.py).  After the suite every managed  *)
(* path holds what the user had there.                                     *)
(***************************************************************************)
PathsRestored ==
    SuiteOver => \A p \in Paths : file[p] = IF origin[p] = "absent" THEN Absent ELSE User

(***************************************************************************)
(* Only an end of the agent's own making counts for or against it:         *)
(* "Infrastructure failures (subject crash, provider/credit error, ...)    *)
(* are flagged and excluded from pass@k, pass^k, mean, and regression      *)
(* gates" (eval-framework/README.md, principle 11).                        *)
(***************************************************************************)
CountedIsAgents ==
    \A w \in Workers : worker[w].score \in {"pass", "fail"} => worker[w].came_of \in AgentEnds

(***************************************************************************)
(* The suite ends: workers that share paths never wait for each other in a *)
(* circle, and every trial is scored.                                      *)
(***************************************************************************)
SuiteEnds == <>(SuiteOver /\ \A t \in Tasks : scored[t] = Trials)
==============================================================================
