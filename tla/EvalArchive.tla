----------------------------- MODULE EvalArchive -----------------------------
(***************************************************************************)
(* The results archive of the evaluation framework and what is decided     *)
(* from it (eval-framework/run.py, evalkit/reporter.py, ratchet.py and     *)
(* stats.py).                                                              *)
(*                                                                         *)
(* `suite` grades the trials of a run, writes the task directories and     *)
(* then run_metadata.json; `task` runs one task and writes its directory   *)
(* alone; `score-suite` grades an archived run again in memory and         *)
(* rewrites its metadata only when the new grading can be trusted;         *)
(* `promote` makes a task a regression gate when its newest runs were all  *)
(* clean.  Commands are processes: the disk is read and written between    *)
(* the writes of another one, and any of them may be killed.  A command    *)
(* names the directory of its run, which may be there already.             *)
(*                                                                         *)
(* Of a task's metadata the model keeps what is read again: whether pass^k *)
(* was 1.0 over valid metrics, the task's type, and how many of its        *)
(* archived trials there are and failed in the infrastructure.             *)
(***************************************************************************)
EXTENDS Integers, Sequences, FiniteSets, Functions, FiniteSetsExt

CONSTANTS Tasks,        \* the tasks of the suite
          TrialCounts,  \* what --trials may be
          Threshold,    \* promotion_threshold of the suite
          RateNum,      \* INVALID_RUN_INFRA_RATE = RateNum / RateDen
          RateDen,
          Reuse,        \* may suite and task be given the name of a run that is there?
          Procs,        \* the processes that run suite, task and score-suite
          MaxRuns,      \* bound: suite and task commands ever started
          MaxRegrades,  \* bound: gradings of score-suite that are written
          MaxEdits,     \* bound: promotions and demotions
          MaxCrashes    \* bound: processes killed

ASSUME ArchiveAssumption ==
    /\ IsFiniteSet(Tasks) /\ Tasks # {}
    /\ TrialCounts \subseteq Nat /\ Reuse \in BOOLEAN
    /\ Threshold \in Nat /\ RateNum \in Nat /\ RateDen \in Nat \ {0}
    /\ {MaxRuns, MaxRegrades, MaxEdits, MaxCrashes} \subseteq Nat

VARIABLES types,    \* [Tasks -> the type in the task's config.toml]
          runs,     \* the run directories, in the order they were made
          job,      \* [Procs -> the command under way]
          trusted,  \* history: for each run, the tasks some valid grading found clean
          counts    \* how often each bounded command or fault happened so far

vars == <<types, runs, job, trusted, counts>>

Types == {"capability", "regression"}

\* The exit codes of run.py.
EXIT_OK == 0
EXIT_REGRESSION == 1
EXIT_ERROR == 2

-----------------------------------------------------------------------------
(* Gradings and their statistics.                                          *)

\* A grading of a task's trials: `passed` and `failed` of them are graded and
\* measure the agent, `infra` failed in the infrastructure, `broken` of those
\* in the subject (the archived trial says so for ever), the others because
\* the judge could not be reached; with --skip-grading nothing is graded.
Gradings(n, broken) ==
    { g \in [trials: {n}, passed: 0..n, failed: 0..n, infra: 0..n, broken: {broken}] :
          g.broken <= g.infra /\ g.passed + g.failed + g.infra = n }

Skipped(n, broken) ==
    [trials |-> n, passed |-> 0, failed |-> 0, infra |-> broken, broken |-> broken]

\* pass^k of a task result: the share of clean trials among those that count,
\* None when no trial counts.
pass_pow_k(g) ==
    IF g.passed + g.failed = 0 THEN "None"
    ELSE IF g.passed = 0 THEN "zero"
    ELSE IF g.failed = 0 THEN "one" ELSE "between"

\* reporter.infra_error_stats and the tripwire.
Invalid(results) ==
    LET infra == MapThenSumSet(LAMBDA t : results[t].infra, DOMAIN results)
        total == MapThenSumSet(LAMBDA t : results[t].trials, DOMAIN results)
    IN  total > 0 /\ infra * RateDen >= RateNum * total

\* _results_exit_code: invalidity goes before the regression gate.
ExitCode(results, type) ==
    IF Invalid(results) THEN EXIT_ERROR
    ELSE IF \E t \in DOMAIN results :
                type[t] = "regression" /\ pass_pow_k(results[t]) = "zero"
    THEN EXIT_REGRESSION ELSE EXIT_OK

\* _task_metadata: what a later command reads of it.  metrics_valid is false
\* exactly when no trial counts, and then pass_pow_k is None.
TaskMetadata(g, type) ==
    [clean |-> pass_pow_k(g) = "one", type |-> type, trials |-> g.trials, broken |-> g.broken]

Clean(results) == { t \in DOMAIN results : results[t].passed > 0 /\ results[t].failed = 0 }

-----------------------------------------------------------------------------
NoTasks == [t \in {} |-> 0]
Idle == [cmd |-> "idle"]

Init ==
    /\ types = [t \in Tasks |-> "capability"]
    /\ runs = <<>>
    /\ job = [p \in Procs |-> Idle]
    /\ trusted = <<>>
    /\ counts = [started |-> 0, regrades |-> 0, edits |-> 0, crashes |-> 0]

\* What a command has in hand once its trials are graded: `files` are the task
\* metadata it still has to write for run r, `flag` the validity it ends with in
\* run_metadata.json, `started` its place in the order of started_at.
Writing(cmd, r, results, code) ==
    [cmd |-> cmd, run |-> r, exit |-> code, started |-> counts.started + 1,
     files |-> [t \in DOMAIN results |-> TaskMetadata(results[t], types[t])],
     flag |-> IF Invalid(results) THEN "invalid" ELSE "valid",
     imperfect |-> \E t \in DOMAIN results : types[t] = "regression" /\ results[t].failed > 0]

\* The run directory that a --run-name, or the second a command starts in, names.
RunDirs == {Len(runs) + 1} \cup (IF Reuse THEN DOMAIN runs ELSE {})

\* What so many trials of the tasks of S come to, graded or with --skip-grading.
Results(S, n) ==
    { results \in [S -> UNION { Gradings(n, b) \cup {Skipped(n, b)} : b \in 0..n }] :
          \/ \A t \in S : results[t] \in Gradings(n, results[t].broken)
          \/ \A t \in S : results[t] = Skipped(n, results[t].broken) }

\* The trials of a command are run and graded.  The task files are loaded, and so
\* their types read, before the trials run.
Run(p, cmd, results) ==
    /\ job[p] = Idle
    /\ counts.started < MaxRuns
    /\ \E r \in RunDirs :
          /\ runs' = IF r \in DOMAIN runs THEN runs
                     ELSE Append(runs, [flag |-> "none", started |-> 0, tasks |-> NoTasks])
          /\ LET clean == IF Invalid(results) THEN {} ELSE Clean(results)
             IN  trusted' = IF r \in DOMAIN runs THEN [trusted EXCEPT ![r] = @ \cup clean]
                            ELSE Append(trusted, clean)
          /\ job' = [job EXCEPT ![p] = Writing(cmd, r, results, ExitCode(results, types))]
    /\ counts' = [counts EXCEPT !.started = @ + 1]
    /\ UNCHANGED types

\* cmd_suite: the tasks the filters leave, so many trials each.
Suite(p) ==
    \E S \in (SUBSET Tasks) \ {{}}, n \in TrialCounts :
        \E results \in Results(S, n) : Run(p, "suite", results)

\* cmd_task: one task.
Task(p) ==
    \E t \in Tasks, n \in TrialCounts :
        \E results \in Results({t}, n) : Run(p, "task", results)

\* The gradings an archived run may get today: load_archived_trials brings
\* back every trial, and what failed in the subject failed for good.
Regradings(tasks) ==
    { results \in [DOMAIN tasks -> UNION { Gradings(tasks[t].trials, tasks[t].broken) :
                                              t \in DOMAIN tasks }] :
          \A t \in DOMAIN tasks : results[t] \in Gradings(tasks[t].trials, tasks[t].broken) }

\* Run r can be graded again: its metadata is there, and trials of every task.
Regradable(r) ==
    /\ runs[r].flag # "none"
    /\ DOMAIN runs[r].tasks # {}
    /\ \A t \in DOMAIN runs[r].tasks : runs[r].tasks[t].trials > 0

\* A bug to catch: the metadata is rewritten as each task is graded, and the
\* validity of the grading is looked at when all of it is on disk.
RegradeInPlace(p) ==
    /\ job[p] = Idle
    /\ counts.regrades < MaxRegrades
    /\ \E r \in DOMAIN runs :
          /\ Regradable(r)
          /\ \E results \in Regradings(runs[r].tasks) :
                /\ job' = [job EXCEPT ![p] = Writing("score", r, results, EXIT_OK)]
                /\ trusted' = IF Invalid(results) THEN trusted
                              ELSE [trusted EXCEPT ![r] = @ \cup Clean(results)]
    /\ counts' = [counts EXCEPT !.regrades = @ + 1]
    /\ UNCHANGED <<types, runs>>

\* cmd_score_suite: every task is graded in memory with the criteria of today;
\* a grading the infrastructure spoiled ends the command with nothing written.
Regrade(p) ==
    /\ job[p] = Idle
    /\ counts.regrades < MaxRegrades
    /\ \E r \in DOMAIN runs :
          /\ Regradable(r)
          /\ \E results \in Regradings(runs[r].tasks) :
                /\ ~Invalid(results)
                /\ job' = [job EXCEPT ![p] = Writing("score", r, results, EXIT_OK)]
                /\ trusted' = [trusted EXCEPT ![r] = @ \cup Clean(results)]
    /\ counts' = [counts EXCEPT !.regrades = @ + 1]
    /\ UNCHANGED <<types, runs>>

\* The file m of one task of run r is written, at its place among those of p.
WriteTask(p, t, m) ==
    /\ runs' = [runs EXCEPT ![job[p].run].tasks =
                   [u \in DOMAIN @ \cup {t} |-> IF u = t THEN m ELSE @[u]]]
    /\ job' = [job EXCEPT ![p].files = Restrict(@, DOMAIN @ \ {t})]
    /\ UNCHANGED <<types, trusted, counts>>

\* What is archived of a task once `new` is written over `old`: the trials past the
\* new ones stay, and how many of these are broken is not recorded.
WrittenOver(old, new) ==
    IF old.trials <= new.trials THEN {new}
    ELSE { [new EXCEPT !.trials = old.trials, !.broken = @ + stay] :
               stay \in { b \in 0..(old.trials - new.trials) : old.broken - b \in 0..new.trials } }

\* save_task_artifacts: metadata, trials and scores.  The tasks go in a fixed order
\* that no reader relies on; here it is any order.
SaveTaskArtifacts(p) ==
    /\ job[p].cmd \in {"suite", "task"}
    /\ \E t \in DOMAIN job[p].files :
          LET tasks == runs[job[p].run].tasks
              new   == job[p].files[t]
          IN  \E m \in IF t \in DOMAIN tasks THEN WrittenOver(tasks[t], new) ELSE {new} :
                 WriteTask(p, t, m)

\* save_task_scores leaves the trials alone.
SaveTaskScores(p) ==
    /\ job[p].cmd = "score"
    /\ \E t \in DOMAIN job[p].files : WriteTask(p, t, job[p].files[t])

\* run_metadata.json is written, once every task is on disk: only now do the
\* other commands see a new run.  The process exits.
WriteRun(p, started) ==
    /\ DOMAIN job[p].files = {}
    /\ runs' = [runs EXCEPT ![job[p].run] = [@ EXCEPT !.flag = job[p].flag, !.started = started]]
    /\ job' = [job EXCEPT ![p] = Idle]
    /\ UNCHANGED <<types, trusted, counts>>

SaveRunMetadata(p) == job[p].cmd = "suite" /\ WriteRun(p, job[p].started)

\* update_run_metadata_scores refreshes the file that is there.
UpdateRunMetadata(p) == job[p].cmd = "score" /\ WriteRun(p, runs[job[p].run].started)

\* cmd_task ends; it writes no run_metadata.json.
EndTask(p) ==
    /\ job[p].cmd = "task" /\ DOMAIN job[p].files = {}
    /\ job' = [job EXCEPT ![p] = Idle]
    /\ UNCHANGED <<types, runs, trusted, counts>>

-----------------------------------------------------------------------------
(* The ratchet.                                                            *)

\* _load_runs_for_suite: the run directories with run_metadata.json.
Complete == { r \in DOMAIN runs : runs[r].flag # "none" }

Newer(r) == { s \in Complete : runs[s].started > runs[r].started }

\* The n newest of them, in the order of started_at.
Newest(n) == { r \in Complete : Cardinality(Newer(r)) < n }

\* A bug to catch: the validity of the run is not looked at.
CountsUnflagged(t, r) ==
    /\ t \in DOMAIN runs[r].tasks
    /\ runs[r].tasks[t].clean

\* One turn of the loop over the runs: this one adds to the streak of t.
CountsFor(t, r) ==
    /\ runs[r].flag = "valid"
    /\ t \in DOMAIN runs[r].tasks
    /\ runs[r].tasks[t].clean

\* find_promotion_candidates: a streak at least so long, newest run first, of
\* a task the newest run that holds it calls a capability.
Candidate(t) ==
    /\ Cardinality(Complete) >= Threshold
    /\ \A r \in Newest(Threshold) : CountsFor(t, r)
    /\ \E r \in Complete :
          /\ t \in DOMAIN runs[r].tasks
          /\ \A s \in Newer(r) : t \notin DOMAIN runs[s].tasks
          /\ runs[r].tasks[t].type = "capability"

\* update_task_type edits the task's config.toml.
UpdateTaskType(t, type) ==
    /\ counts.edits < MaxEdits
    /\ types' = [types EXCEPT ![t] = type]
    /\ counts' = [counts EXCEPT !.edits = @ + 1]
    /\ UNCHANGED <<runs, job, trusted>>

\* cmd_promote.
Promote(t, force) == (force \/ Candidate(t)) /\ UpdateTaskType(t, "regression")

\* cmd_demote.
Demote(t) == UpdateTaskType(t, "capability")

\* The process is killed between two writes.
Crash(p) ==
    /\ job[p] # Idle
    /\ counts.crashes < MaxCrashes
    /\ counts' = [counts EXCEPT !.crashes = @ + 1]
    /\ job' = [job EXCEPT ![p] = Idle]
    /\ UNCHANGED <<types, runs, trusted>>

Next ==
    \/ \E p \in Procs : Suite(p) \/ Task(p) \/ Regrade(p) \/ Crash(p)
          \/ SaveTaskArtifacts(p) \/ SaveTaskScores(p) \/ SaveRunMetadata(p) \/ UpdateRunMetadata(p)
          \/ EndTask(p)
    \/ \E t \in Tasks : Demote(t) \/ \E force \in BOOLEAN : Promote(t, force)

Spec == Init /\ [][Next]_vars

-----------------------------------------------------------------------------
(* Properties.                                                             *)

\* The shapes of what is on disk and of the commands under way.
Meta     == [clean: BOOLEAN, type: Types, trials: Nat, broken: Nat]
Files    == UNION { [S -> Meta] : S \in SUBSET Tasks }
RunShape == [flag: {"none", "valid", "invalid"}, started: Nat, tasks: Files]
JobShape == [cmd: {"suite", "task", "score"}, run: Nat, started: Nat,
             exit: {EXIT_OK, EXIT_REGRESSION, EXIT_ERROR},
             files: Files, flag: {"valid", "invalid"}, imperfect: BOOLEAN]
Bounds   == [started: 0..MaxRuns, regrades: 0..MaxRegrades, edits: 0..MaxEdits, crashes: 0..MaxCrashes]

\* The values of the variables; a command works on a run that exists.
TypeOK ==
    /\ types \in [Tasks -> Types]
    /\ counts \in Bounds
    /\ runs \in Seq(RunShape)
    /\ trusted \in Seq(SUBSET Tasks)
    /\ Len(trusted) = Len(runs)
    /\ job \in [Procs -> {Idle} \cup JobShape]
    /\ \A p \in Procs : job[p] # Idle => job[p].run \in DOMAIN runs

\* What the archive says of a run it does not flag is what some grading that
\* was itself valid found: an outage of the judge during score-suite, a crash
\* between two of its writes, or a suite still being written never make a task
\* look clean (cmd_score_suite's staging, run.py:451-487).  It holds while every
\* suite and task command has a run directory of its own.
ArchiveTrusted ==
    \A r \in Complete :
        runs[r].flag = "valid" =>
            { t \in DOMAIN runs[r].tasks : runs[r].tasks[t].clean } \subseteq trusted[r]

\* promote without --force offers a task as a regression gate only when each
\* of the newest promotion_threshold complete runs was graded validly with all
\* of the task's counted trials clean, and at least one counted: neither
\* skipped grading, nor trials lost to the infrastructure, nor an archive that
\* is being written stands for evidence: "its last ``threshold`` consecutive
\* suite runs all had pass^k = 1.0" (ratchet.py:3-4, find_promotion_candidates).
PromotionEarned ==
    \A t \in Tasks : Candidate(t) =>
        /\ Cardinality(Complete) >= Threshold
        /\ \A r \in Newest(Threshold) : t \in trusted[r]

\* "any pass^k < 1.0 on a regression task blocks release (exit code 1 already
\* encodes this)" (docs/specs/eval-integrity.md): a command that exits 0 found
\* every counted trial of every regression task clean (_results_exit_code).
RegressionsBlock ==
    \A p \in Procs :
        job[p] # Idle /\ job[p].cmd # "score" /\ job[p].exit = EXIT_OK => ~job[p].imperfect
=============================================================================
