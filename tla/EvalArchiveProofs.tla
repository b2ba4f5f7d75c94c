--------------------------- MODULE EvalArchiveProofs ---------------------------
(***************************************************************************)
(* The archive for every set of tasks and processes, every number of       *)
(* trials, threshold and infrastructure rate, and every bound: as long as  *)
(* every command is given a run directory of its own (~Reuse), what it     *)
(* calls clean was found clean, and promotions are earned.                 *)
(***************************************************************************)
EXTENDS EvalArchive, SequenceTheorems, TLAPS

\* Each task that f calls clean was found so for run r by a valid grading.
Vouched(r, f) == \A t \in DOMAIN f : f[t].clean => t \in trusted[r]

\* A suite, or a single task, works alone on a run nobody sees yet; what a valid
\* one has written and will write is vouched for.
SuiteJob(p) ==
    /\ runs[job[p].run].flag = "none"
    /\ job[p].flag = "valid" =>
          Vouched(job[p].run, job[p].files) /\ Vouched(job[p].run, runs[job[p].run].tasks)
    /\ \A q \in Procs : q # p /\ job[q] # Idle => job[q].run # job[p].run

\* A grading that is being written covers every task of its run: what it still
\* has to write, and what it will not write any more, is vouched for.
ScoreJob(p) ==
    /\ job[p].flag = "valid"
    /\ runs[job[p].run].flag # "none"
    /\ DOMAIN job[p].files \subseteq DOMAIN runs[job[p].run].tasks
    /\ Vouched(job[p].run, job[p].files)
    /\ \A t \in DOMAIN runs[job[p].run].tasks \ DOMAIN job[p].files :
          runs[job[p].run].tasks[t].clean => t \in trusted[job[p].run]

SuiteJobs == \A p \in Procs : job[p] # Idle /\ job[p].cmd # "score" => SuiteJob(p)
ScoreJobs == \A p \in Procs : job[p] # Idle /\ job[p].cmd = "score" => ScoreJob(p)

\* No command is given the directory of another, and the archive is in order.
ArchiveInv == ~Reuse /\ TypeOK /\ SuiteJobs /\ ScoreJobs /\ ArchiveTrusted

-----------------------------------------------------------------------------
(* Gradings and their metadata.                                            *)

\* A set of results a command works with.
Graded(results) ==
    /\ DOMAIN results \subseteq Tasks
    /\ \A t \in DOMAIN results :
          /\ results[t].passed \in Nat /\ results[t].failed \in Nat
          /\ results[t].trials \in Nat /\ results[t].broken \in Nat

LEMMA FilesFacts ==
    /\ \A f \in Files : DOMAIN f \subseteq Tasks /\ f \in [DOMAIN f -> Meta]
    /\ \A f : DOMAIN f \subseteq Tasks /\ f \in [DOMAIN f -> Meta] => f \in Files
  BY DEF Files

LEMMA GradingFacts ==
    ASSUME NEW n \in Nat, NEW b \in Nat, NEW g \in Gradings(n, b)
    PROVE  g.passed \in Nat /\ g.failed \in Nat /\ g.trials \in Nat /\ g.broken \in Nat
  BY DEF Gradings

LEMMA SkippedFacts ==
    ASSUME NEW n \in Nat, NEW b \in Nat, NEW g, g = Skipped(n, b)
    PROVE  g.passed \in Nat /\ g.failed \in Nat /\ g.trials \in Nat /\ g.broken \in Nat
  BY DEF Skipped

\* What a command sets out to write.
LEMMA WritingFacts ==
    ASSUME types \in [Tasks -> Types], counts \in Bounds,
           NEW cmd \in {"suite", "task", "score"}, NEW r \in Nat, NEW results, Graded(results),
           NEW code \in {EXIT_OK, EXIT_REGRESSION, EXIT_ERROR}
    PROVE  LET j == Writing(cmd, r, results, code)
           IN  /\ j \in JobShape /\ j.cmd = cmd /\ j.run = r /\ j.exit = code
               /\ DOMAIN j.files = DOMAIN results
               /\ j.flag = IF Invalid(results) THEN "invalid" ELSE "valid"
               /\ \A t \in DOMAIN j.files : j.files[t].clean => t \in Clean(results)
  <1> DEFINE m == [t \in DOMAIN results |-> TaskMetadata(results[t], types[t])]
  <1>1. ASSUME NEW t \in DOMAIN results
        PROVE  /\ m[t] \in Meta
               /\ m[t].clean => t \in Clean(results)
    <2>1. m[t] = TaskMetadata(results[t], types[t])
      OBVIOUS
    <2>2. m[t].clean = (pass_pow_k(results[t]) = "one")
      BY <2>1, Zenon DEF TaskMetadata
    <2>3. pass_pow_k(results[t]) = "one" => t \in Clean(results)
      BY DEF Graded, pass_pow_k, Clean
    <2>4. (pass_pow_k(results[t]) = "one") \in BOOLEAN
      OBVIOUS
    <2>5. types[t] \in Types /\ results[t].trials \in Nat /\ results[t].broken \in Nat
      BY DEF Graded
    <2>6. m[t] \in Meta
      BY <2>1, <2>4, <2>5, Zenon DEF TaskMetadata, Meta
    <2> QED
      BY <2>2, <2>3, <2>6
  <1>2. m \in Files /\ DOMAIN m = DOMAIN results
    BY <1>1, FilesFacts DEF Graded
  <1>3. \A t \in DOMAIN results : m[t].clean => t \in Clean(results)
    BY <1>1
  <1> HIDE DEF m
  <1>4. Writing(cmd, r, results, code) =
          [cmd |-> cmd, run |-> r, exit |-> code, started |-> counts.started + 1, files |-> m,
           flag |-> IF Invalid(results) THEN "invalid" ELSE "valid",
           imperfect |-> \E t \in DOMAIN results : types[t] = "regression" /\ results[t].failed > 0]
    BY DEF Writing, m
  <1>5. counts.started + 1 \in Nat
    BY ArchiveAssumption DEF Bounds
  <1> QED
    BY <1>2, <1>3, <1>4, <1>5 DEF JobShape

-----------------------------------------------------------------------------
(* The invariant.                                                          *)

LEMMA IdleIsNoJob == Idle \notin JobShape
  BY DEF Idle, JobShape

LEMMA ArchiveInit == ~Reuse /\ Init => ArchiveInv
  <1> SUFFICES ASSUME ~Reuse, Init PROVE ArchiveInv
    OBVIOUS
  <1>1. runs \in Seq(RunShape) /\ trusted \in Seq(SUBSET Tasks) /\ Len(trusted) = Len(runs)
    BY EmptySeq DEF Init
  <1>2. counts \in Bounds
    BY ArchiveAssumption DEF Init, Bounds
  <1>3. types \in [Tasks -> Types] /\ job \in [Procs -> {Idle}] /\ \A p \in Procs : job[p] = Idle
    BY DEF Init, Types
  <1>4. TypeOK
    BY <1>1, <1>2, <1>3 DEF TypeOK
  <1>5. SuiteJobs /\ ScoreJobs
    BY <1>3 DEF SuiteJobs, ScoreJobs
  <1>6. ArchiveTrusted
    BY DEF Init, ArchiveTrusted, Complete
  <1> QED
    BY <1>4, <1>5, <1>6 DEF ArchiveInv

\* What TypeOK says of the runs, of what is known of them, and of the commands.
LEMMA TypeFacts ==
    ASSUME TypeOK
    PROVE  /\ Len(runs) \in Nat /\ DOMAIN runs = 1..Len(runs) /\ DOMAIN trusted = DOMAIN runs
           /\ \A r \in DOMAIN runs :
                 /\ runs[r] \in RunShape /\ runs[r].tasks \in Files
                 /\ runs[r].flag \in {"none", "valid", "invalid"}
                 /\ trusted[r] \subseteq Tasks
           /\ \A p \in Procs : job[p] # Idle => job[p] \in JobShape /\ job[p].run \in DOMAIN runs
  <1>1. /\ Len(runs) \in Nat /\ DOMAIN runs = 1..Len(runs)
        /\ DOMAIN trusted = 1..Len(runs)
    BY LenProperties DEF TypeOK
  <1>2. \A r \in 1..Len(runs) : runs[r] \in RunShape /\ trusted[r] \in SUBSET Tasks
    BY ElementOfSeq DEF TypeOK
  <1>3. \A f \in RunShape : f.tasks \in Files /\ f.flag \in {"none", "valid", "invalid"}
    BY DEF RunShape
  <1> QED
    BY <1>1, <1>2, <1>3 DEF TypeOK

LEMMA CountsFacts ==
    ASSUME TypeOK
    PROVE  /\ counts.started < MaxRuns => [counts EXCEPT !.started = @ + 1] \in Bounds
           /\ counts.regrades < MaxRegrades => [counts EXCEPT !.regrades = @ + 1] \in Bounds
           /\ counts.edits < MaxEdits => [counts EXCEPT !.edits = @ + 1] \in Bounds
           /\ counts.crashes < MaxCrashes => [counts EXCEPT !.crashes = @ + 1] \in Bounds
  <1>1. MaxRuns \in Nat /\ MaxRegrades \in Nat /\ MaxEdits \in Nat /\ MaxCrashes \in Nat
    BY ArchiveAssumption
  <1>2. /\ counts \in Bounds
        /\ counts.started \in 0..MaxRuns /\ counts.regrades \in 0..MaxRegrades
        /\ counts.edits \in 0..MaxEdits /\ counts.crashes \in 0..MaxCrashes
    BY DEF TypeOK, Bounds
  <1>3. \A n, m \in Nat : n < m => n + 1 \in 0..m
    OBVIOUS
  <1>4. counts.started < MaxRuns => counts.started + 1 \in 0..MaxRuns
    BY <1>1, <1>2, <1>3
  <1>5. counts.regrades < MaxRegrades => counts.regrades + 1 \in 0..MaxRegrades
    BY <1>1, <1>2, <1>3
  <1>6. counts.edits < MaxEdits => counts.edits + 1 \in 0..MaxEdits
    BY <1>1, <1>2, <1>3
  <1>7. counts.crashes < MaxCrashes => counts.crashes + 1 \in 0..MaxCrashes
    BY <1>1, <1>2, <1>3
  <1>8. counts.started < MaxRuns => [counts EXCEPT !.started = @ + 1] \in Bounds
    BY <1>2, <1>4 DEF Bounds
  <1>9. counts.regrades < MaxRegrades => [counts EXCEPT !.regrades = @ + 1] \in Bounds
    BY <1>2, <1>5 DEF Bounds
  <1>10. counts.edits < MaxEdits => [counts EXCEPT !.edits = @ + 1] \in Bounds
    BY <1>2, <1>6 DEF Bounds
  <1>11. counts.crashes < MaxCrashes => [counts EXCEPT !.crashes = @ + 1] \in Bounds
    BY <1>2, <1>7 DEF Bounds
  <1> QED
    BY <1>8, <1>9, <1>10, <1>11

\* A command ends, or is killed, without a further write.
LEMMA QuitKeeps ==
    ASSUME ArchiveInv, NEW p \in Procs, job' = [job EXCEPT ![p] = Idle],
           counts' \in Bounds,
           UNCHANGED <<types, runs, trusted>>
    PROVE  ArchiveInv'
  <1>1. /\ job' \in [Procs -> {Idle} \cup JobShape]
        /\ \A q \in Procs : job'[q] # Idle => job'[q] = job[q] /\ job[q] # Idle
    BY DEF ArchiveInv, TypeOK
  <1>2. TypeOK'
    BY <1>1 DEF ArchiveInv, TypeOK
  <1>3. SuiteJobs'
    BY <1>1 DEF ArchiveInv, SuiteJobs, SuiteJob, Vouched
  <1>4. ScoreJobs'
    BY <1>1 DEF ArchiveInv, ScoreJobs, ScoreJob, Vouched
  <1>5. ArchiveTrusted'
    BY <1>1 DEF ArchiveInv, ArchiveTrusted, Complete
  <1> QED
    BY <1>2, <1>3, <1>4, <1>5 DEF ArchiveInv

LEMMA EditKeeps ==
    ASSUME ArchiveInv, NEW t \in Tasks, NEW type \in Types, UpdateTaskType(t, type)
    PROVE  ArchiveInv'
  <1>1. UNCHANGED <<runs, job, trusted>> /\ types' \in [Tasks -> Types]
    BY DEF ArchiveInv, TypeOK, UpdateTaskType
  <1>2. counts' \in Bounds
    BY CountsFacts DEF ArchiveInv, UpdateTaskType
  <1>3. TypeOK'
    BY <1>1, <1>2 DEF ArchiveInv, TypeOK
  <1> QED
    BY <1>1, <1>3 DEF ArchiveInv, SuiteJobs, ScoreJobs, SuiteJob, ScoreJob, Vouched, ArchiveTrusted, Complete

\* What so many trials come to is a set of results.
LEMMA ResultsFacts ==
    ASSUME NEW S \in SUBSET Tasks, NEW n \in Nat, NEW results \in Results(S, n)
    PROVE  Graded(results)
  <1>1. results \in [S -> UNION { Gradings(n, b) \cup {Skipped(n, b)} : b \in 0..n }]
    BY DEF Results
  <1>2. ASSUME NEW t \in S
        PROVE  /\ results[t].passed \in Nat /\ results[t].failed \in Nat
               /\ results[t].trials \in Nat /\ results[t].broken \in Nat
    <2>1. PICK b \in 0..n : results[t] \in Gradings(n, b) \cup {Skipped(n, b)}
      BY <1>1
    <2> QED
      BY <2>1, GradingFacts, SkippedFacts
  <1> QED
    BY <1>1, <1>2 DEF Graded

\* A command starts a run of its own.
LEMMA RunKeeps ==
    ASSUME ArchiveInv, NEW p \in Procs, NEW cmd \in {"suite", "task"}, NEW results, Graded(results),
           Run(p, cmd, results)
    PROVE  ArchiveInv'
  <1>1. /\ TypeOK /\ ~Reuse /\ DOMAIN runs = 1..Len(runs) /\ Len(runs) \in Nat
        /\ Len(runs) + 1 \notin DOMAIN runs
    BY TypeFacts DEF ArchiveInv
  <1>2. /\ runs' = Append(runs, [flag |-> "none", started |-> 0, tasks |-> NoTasks])
        /\ trusted' = Append(trusted, IF Invalid(results) THEN {} ELSE Clean(results))
        /\ job' = [job EXCEPT ![p] = Writing(cmd, Len(runs) + 1, results, ExitCode(results, types))]
        /\ counts' \in Bounds /\ types' = types
    BY <1>1, CountsFacts DEF Run, RunDirs
  <1>3. Graded(results)
    OBVIOUS
  <1> DEFINE new == Writing(cmd, Len(runs) + 1, results, ExitCode(results, types))
             N == Len(runs) + 1
  <1>4. /\ types \in [Tasks -> Types] /\ job \in [Procs -> {Idle} \cup JobShape]
        /\ TypeOK /\ Len(runs) \in Nat /\ N \in Nat /\ job[p] = Idle /\ counts \in Bounds
    BY <1>1 DEF TypeOK, Run
  <1>5. ExitCode(results, types) \in {EXIT_OK, EXIT_REGRESSION, EXIT_ERROR}
    BY DEF ExitCode
  <1>6. /\ new \in JobShape /\ new.cmd = cmd /\ new.run = N /\ new.exit = ExitCode(results, types)
        /\ new.flag = IF Invalid(results) THEN "invalid" ELSE "valid"
        /\ \A t \in DOMAIN new.files : new.files[t].clean => t \in Clean(results)
    BY <1>3, <1>4, <1>5, WritingFacts
  <1> HIDE DEF new
  <1>7. /\ job' \in [Procs -> {Idle} \cup JobShape]
        /\ job'[p] = new /\ \A q \in Procs : q # p => job'[q] = job[q]
    BY <1>2, <1>4, <1>6 DEF new
  <1>8. /\ NoTasks \in Files /\ DOMAIN NoTasks = {}
        /\ [flag |-> "none", started |-> 0, tasks |-> NoTasks] \in RunShape
    BY FilesFacts DEF NoTasks, RunShape
  <1>9. (IF Invalid(results) THEN {} ELSE Clean(results)) \in SUBSET Tasks
    BY <1>3 DEF Graded, Clean
  <1>10. /\ runs' \in Seq(RunShape) /\ Len(runs') = N
         /\ \A r \in 1..Len(runs) : runs'[r] = runs[r]
         /\ runs'[N].flag = "none" /\ runs'[N].tasks = NoTasks
    BY <1>2, <1>4, <1>8, AppendProperties DEF TypeOK
  <1>11. /\ trusted' \in Seq(SUBSET Tasks) /\ Len(trusted') = N
         /\ \A r \in 1..Len(runs) : trusted'[r] = trusted[r]
         /\ trusted'[N] = IF Invalid(results) THEN {} ELSE Clean(results)
    BY <1>2, <1>4, <1>9, AppendProperties DEF TypeOK
  <1>12. DOMAIN runs' = 1..N /\ DOMAIN runs = 1..Len(runs)
    BY <1>10, <1>4, LenProperties DEF TypeOK
  <1>13. \A q \in Procs : job[q] # Idle => job[q].run \in 1..Len(runs) /\ q # p
    BY <1>4, <1>12 DEF TypeOK
  <1> HIDE DEF N
  <1>14. 1..Len(runs) \subseteq 1..N /\ N \in 1..N /\ N \notin 1..Len(runs)
         /\ \A r \in 1..N : r = N \/ r \in 1..Len(runs)
    BY <1>4 DEF N
  <1>15. TypeOK'
    <2>1. counts' \in Bounds /\ types' = types
      BY <1>2
    <2>2. \A q \in Procs : job'[q] # Idle => job'[q].run \in 1..N
      BY <1>6, <1>7, <1>13, <1>14
    <2> QED
      BY <2>1, <2>2, <1>4, <1>7, <1>10, <1>11, <1>12 DEF TypeOK
  <1>16. SuiteJobs'
    <2> SUFFICES ASSUME NEW q \in Procs, job'[q] # Idle, job'[q].cmd # "score"
                 PROVE  SuiteJob(q)'
      BY DEF SuiteJobs
    <2>1. CASE q = p
      <3>1. \A x \in Procs : x # p /\ job'[x] # Idle => job'[x].run # N
        BY <1>7, <1>13, <1>14
      <3>2. new.flag = "valid" => \A t \in DOMAIN new.files : new.files[t].clean => t \in trusted'[N]
        BY <1>6, <1>11
      <3> QED
        BY <2>1, <3>1, <3>2, <1>6, <1>7, <1>8, <1>10 DEF SuiteJob, Vouched
    <2>2. CASE q # p
      <3>1. job'[q] = job[q] /\ job[q].run \in 1..Len(runs)
        BY <2>2, <1>7, <1>13
      <3>2. runs'[job[q].run] = runs[job[q].run] /\ trusted'[job[q].run] = trusted[job[q].run]
        BY <3>1, <1>10, <1>11
      <3>3. \A x \in Procs : x # q /\ job'[x] # Idle => job'[x].run # job[q].run
        BY <3>1, <1>6, <1>7, <1>14 DEF ArchiveInv, SuiteJobs, SuiteJob
      <3> QED
        BY <3>1, <3>2, <3>3 DEF ArchiveInv, SuiteJobs, SuiteJob, Vouched
    <2> QED
      BY <2>1, <2>2
  <1>17. ScoreJobs'
    <2> SUFFICES ASSUME NEW q \in Procs, job'[q] # Idle, job'[q].cmd = "score"
                 PROVE  ScoreJob(q)'
      BY DEF ScoreJobs
    <2>1. q # p /\ job'[q] = job[q]
      BY <1>6, <1>7
    <2>2. job[q].run \in 1..Len(runs)
      BY <2>1, <1>13
    <2>3. runs'[job[q].run] = runs[job[q].run] /\ trusted'[job[q].run] = trusted[job[q].run]
      BY <2>2, <1>10, <1>11
    <2> QED
      BY <2>1, <2>3 DEF ArchiveInv, ScoreJobs, ScoreJob, Vouched
  <1>18. ArchiveTrusted'
    BY <1>10, <1>11, <1>12, <1>14 DEF ArchiveInv, ArchiveTrusted, Complete
  <1> QED
    BY <1>1, <1>15, <1>16, <1>17, <1>18 DEF ArchiveInv

\* A grading that is valid is what its command sets out to write.
LEMMA RegradeKeeps ==
    ASSUME ArchiveInv, NEW p \in Procs, Regrade(p)
    PROVE  ArchiveInv'
  <1>1. PICK r \in DOMAIN runs : Regradable(r) /\ \E results \in Regradings(runs[r].tasks) :
            /\ ~Invalid(results)
            /\ job' = [job EXCEPT ![p] = Writing("score", r, results, EXIT_OK)]
            /\ trusted' = [trusted EXCEPT ![r] = @ \cup Clean(results)]
    BY DEF Regrade
  <1>2. PICK results \in Regradings(runs[r].tasks) :
            /\ ~Invalid(results)
            /\ job' = [job EXCEPT ![p] = Writing("score", r, results, EXIT_OK)]
            /\ trusted' = [trusted EXCEPT ![r] = @ \cup Clean(results)]
    BY <1>1
  <1>3. /\ TypeOK /\ types \in [Tasks -> Types] /\ job \in [Procs -> {Idle} \cup JobShape]
        /\ DOMAIN runs = 1..Len(runs) /\ r \in Nat /\ job[p] = Idle /\ runs[r].tasks \in Files
        /\ counts \in Bounds
    BY TypeFacts DEF ArchiveInv, TypeOK, Regrade
  <1>4. Graded(results) /\ DOMAIN results = DOMAIN runs[r].tasks
    <2>1. /\ DOMAIN results = DOMAIN runs[r].tasks
          /\ \A t \in DOMAIN results :
                results[t] \in Gradings(runs[r].tasks[t].trials, runs[r].tasks[t].broken)
      BY DEF Regradings
    <2>2. /\ DOMAIN runs[r].tasks \subseteq Tasks
          /\ \A t \in DOMAIN runs[r].tasks : runs[r].tasks[t] \in Meta
      BY <1>3, FilesFacts
    <2>3. \A t \in DOMAIN results : runs[r].tasks[t].trials \in Nat /\ runs[r].tasks[t].broken \in Nat
      BY <2>1, <2>2 DEF Meta
    <2> QED
      BY <2>1, <2>2, <2>3, GradingFacts DEF Graded
  <1> DEFINE new == Writing("score", r, results, EXIT_OK)
  <1>5. /\ new \in JobShape /\ new.cmd = "score" /\ new.run = r /\ new.flag = "valid"
        /\ DOMAIN new.files = DOMAIN runs[r].tasks
        /\ \A t \in DOMAIN new.files : new.files[t].clean => t \in Clean(results)
    BY <1>2, <1>3, <1>4, WritingFacts
  <1> HIDE DEF new
  <1>6. /\ job' \in [Procs -> {Idle} \cup JobShape]
        /\ job'[p] = new /\ \A q \in Procs : q # p => job'[q] = job[q]
    BY <1>2, <1>3, <1>5 DEF new
  <1>7. /\ runs' = runs /\ types' = types
        /\ counts' \in Bounds
    BY <1>3, CountsFacts DEF Regrade
  <1>8. /\ trusted' \in Seq(SUBSET Tasks) /\ Len(trusted') = Len(runs)
        /\ \A s \in DOMAIN runs : trusted[s] \subseteq trusted'[s]
        /\ Clean(results) \subseteq trusted'[r]
    <2>1. (trusted[r] \cup Clean(results)) \in SUBSET Tasks
      BY <1>3, <1>4, TypeFacts DEF Graded, Clean
    <2>2. trusted \in Seq(SUBSET Tasks) /\ Len(trusted) = Len(runs) /\ r \in 1..Len(trusted)
      BY <1>3 DEF TypeOK
    <2>3. /\ trusted' \in Seq(SUBSET Tasks) /\ Len(trusted') = Len(trusted)
          /\ \A s \in 1..Len(trusted) :
                trusted'[s] = IF s = r THEN trusted[r] \cup Clean(results) ELSE trusted[s]
      BY <1>2, <2>1, <2>2, ExceptSeq
    <2> QED
      BY <2>2, <2>3, <1>3
  <1>9. \A q \in Procs : job[q] # Idle => job[q].run \in DOMAIN runs
    BY <1>3 DEF TypeOK
  <1>10. TypeOK'
    BY <1>3, <1>5, <1>6, <1>7, <1>8, <1>9 DEF TypeOK
  <1>11. SuiteJobs'
    <2> SUFFICES ASSUME NEW q \in Procs, job'[q] # Idle, job'[q].cmd # "score"
                 PROVE  SuiteJob(q)'
      BY DEF SuiteJobs
    <2>1. q # p /\ job'[q] = job[q]
      BY <1>5, <1>6
    <2>2. job[q].run # r
      BY <2>1, <1>1 DEF ArchiveInv, SuiteJobs, SuiteJob, Regradable
    <2>3. \A x \in Procs : x # q /\ job'[x] # Idle => job'[x].run # job[q].run
      BY <2>1, <2>2, <1>5, <1>6 DEF ArchiveInv, SuiteJobs, SuiteJob
    <2> QED
      BY <2>1, <2>3, <1>7, <1>8, <1>9 DEF ArchiveInv, SuiteJobs, SuiteJob, Vouched
  <1>12. ScoreJobs'
    <2> SUFFICES ASSUME NEW q \in Procs, job'[q] # Idle, job'[q].cmd = "score"
                 PROVE  ScoreJob(q)'
      BY DEF ScoreJobs
    <2>1. CASE q = p
      <3>1. runs[r].flag # "none"
        BY <1>1 DEF Regradable
      <3> QED
        BY <2>1, <3>1, <1>5, <1>6, <1>7, <1>8 DEF ScoreJob, Vouched
    <2>2. CASE q # p
      BY <2>2, <1>6, <1>7, <1>8, <1>9 DEF ArchiveInv, ScoreJobs, ScoreJob, Vouched
    <2> QED
      BY <2>1, <2>2
  <1>13. ArchiveTrusted'
    BY <1>7, <1>8 DEF ArchiveInv, ArchiveTrusted, Complete
  <1> QED
    BY <1>10, <1>11, <1>12, <1>13 DEF ArchiveInv

\* One task directory is written: a suite writes to a run only it knows, and a
\* grading replaces what was there by something vouched for.
LEMMA WriteTaskKeeps ==
    ASSUME ArchiveInv, NEW p \in Procs, job[p].cmd \in {"suite", "task", "score"},
           NEW t \in DOMAIN job[p].files, NEW m \in Meta, m.clean = job[p].files[t].clean,
           WriteTask(p, t, m)
    PROVE  ArchiveInv'
  <1>0. /\ TypeOK /\ job[p] # Idle /\ job[p] \in JobShape /\ job[p].run \in DOMAIN runs
        /\ DOMAIN runs = 1..Len(runs) /\ job \in [Procs -> {Idle} \cup JobShape]
    <2>1. job[p] # Idle
      BY DEF Idle
    <2> QED
      BY <2>1, TypeFacts DEF ArchiveInv, TypeOK
  <1> DEFINE r == job[p].run
             f == job[p].files
             old == runs[r].tasks
  <1>1. /\ runs' = [runs EXCEPT ![r].tasks =
                         [u \in DOMAIN @ \cup {t} |-> IF u = t THEN m ELSE @[u]]]
        /\ job' = [job EXCEPT ![p].files = Restrict(@, DOMAIN @ \ {t})]
    BY DEF WriteTask
  <1>2. UNCHANGED <<types, trusted, counts>>
    BY DEF WriteTask
  <1> DEFINE merged == [u \in DOMAIN old \cup {t} |-> IF u = t THEN m ELSE old[u]]
             rest == [u \in DOMAIN f \ {t} |-> f[u]]
  <1>3. /\ old \in Files /\ DOMAIN old \subseteq Tasks /\ old \in [DOMAIN old -> Meta]
        /\ f \in Files /\ DOMAIN f \subseteq Tasks /\ f \in [DOMAIN f -> Meta]
    BY <1>0, TypeFacts, FilesFacts DEF JobShape
  <1>4. merged \in Files /\ rest \in Files
    <2>1. DOMAIN merged \subseteq Tasks /\ merged \in [DOMAIN merged -> Meta]
      BY <1>3
    <2>2. DOMAIN rest \subseteq Tasks /\ rest \in [DOMAIN rest -> Meta]
      BY <1>3
    <2> QED
      BY <2>1, <2>2, FilesFacts
  <1>5. /\ DOMAIN merged = DOMAIN old \cup {t} /\ merged[t] = m
        /\ merged[t].clean = f[t].clean /\ t \in DOMAIN f
        /\ \A u \in DOMAIN old : u # t => merged[u] = old[u]
        /\ DOMAIN rest = DOMAIN f \ {t} /\ \A u \in DOMAIN rest : rest[u] = f[u]
    OBVIOUS
  <1>6. /\ runs' = [runs EXCEPT ![r] = [runs[r] EXCEPT !.tasks = merged]]
        /\ job' = [job EXCEPT ![p] = [job[p] EXCEPT !.files = rest]]
    BY <1>0, <1>1 DEF Restrict
  <1> HIDE DEF merged, rest, old, f
  <1>7. /\ [runs[r] EXCEPT !.tasks = merged] \in RunShape
        /\ [runs[r] EXCEPT !.tasks = merged].tasks = merged
        /\ [runs[r] EXCEPT !.tasks = merged].flag = runs[r].flag
    BY <1>0, <1>4, TypeFacts DEF RunShape
  <1>8. LET j == [job[p] EXCEPT !.files = rest]
        IN  /\ j \in JobShape /\ j.files = rest /\ j.cmd = job[p].cmd /\ j.run = r
            /\ j.flag = job[p].flag
    BY <1>0, <1>4 DEF JobShape
  <1>9. /\ runs' \in Seq(RunShape) /\ Len(runs') = Len(runs) /\ DOMAIN runs' = DOMAIN runs
        /\ runs'[r].tasks = merged /\ runs'[r].flag = runs[r].flag
        /\ \A s \in DOMAIN runs : s # r => runs'[s] = runs[s]
    <2>1. runs \in Seq(RunShape) /\ r \in 1..Len(runs)
      BY <1>0 DEF TypeOK
    <2>2. /\ runs' \in Seq(RunShape) /\ Len(runs') = Len(runs)
          /\ \A s \in 1..Len(runs) :
                runs'[s] = IF s = r THEN [runs[r] EXCEPT !.tasks = merged] ELSE runs[s]
      BY <1>6, <1>7, <2>1, ExceptSeq
    <2> QED
      BY <2>1, <2>2, <1>0, <1>7, LenProperties
  <1>10. /\ job' \in [Procs -> {Idle} \cup JobShape] /\ job'[p] # Idle
         /\ job'[p].files = rest /\ job'[p].cmd = job[p].cmd /\ job'[p].run = r
         /\ job'[p].flag = job[p].flag
         /\ \A q \in Procs : q # p => job'[q] = job[q]
    BY <1>0, <1>6, <1>8, IdleIsNoJob
  <1>11. \A q \in Procs : job[q] # Idle => job[q].run \in DOMAIN runs
    BY <1>0 DEF TypeOK
  <1>12. \A q \in Procs : (job'[q] # Idle <=> job[q] # Idle)
                          /\ (job'[q] # Idle => job'[q].run = job[q].run /\ job'[q].cmd = job[q].cmd)
    BY <1>0, <1>10
  <1>13. TypeOK'
    BY <1>0, <1>2, <1>9, <1>10, <1>11, <1>12 DEF TypeOK
  <1>15. CASE job[p].cmd \in {"suite", "task"}
    <2>1. SuiteJob(p)
      BY <1>15, <1>0 DEF ArchiveInv, SuiteJobs
    <2>2. runs[r].flag = "none" /\ \A q \in Procs : q # p /\ job[q] # Idle => job[q].run # r
      BY <2>1 DEF SuiteJob
    <2>3. SuiteJobs'
      <3> SUFFICES ASSUME NEW q \in Procs, job'[q] # Idle, job'[q].cmd # "score"
                   PROVE  SuiteJob(q)'
        BY DEF SuiteJobs
      <3>1. \A x \in Procs : x # q /\ job'[x] # Idle => job'[x].run # job'[q].run
        BY <1>12 DEF ArchiveInv, SuiteJobs, SuiteJob
      <3>2. CASE q = p
        <4>1. job[p].flag = "valid" =>
                 \A u \in DOMAIN rest : rest[u].clean => u \in trusted[r]
          BY <2>1, <1>5 DEF SuiteJob, Vouched, f
        <4>2. job[p].flag = "valid" =>
                 \A u \in DOMAIN merged : merged[u].clean => u \in trusted[r]
          BY <2>1, <1>5 DEF SuiteJob, Vouched, f, old
        <4> QED
          BY <3>1, <3>2, <4>1, <4>2, <2>2, <1>2, <1>9, <1>10 DEF SuiteJob, Vouched
      <3>3. CASE q # p
        <4>1. job'[q] = job[q] /\ job[q].run # r /\ job[q].run \in DOMAIN runs
          BY <3>3, <2>2, <1>10, <1>11
        <4>2. runs'[job[q].run] = runs[job[q].run]
          BY <4>1, <1>9
        <4> QED
          BY <3>1, <4>1, <4>2, <1>2 DEF ArchiveInv, SuiteJobs, SuiteJob, Vouched
      <3> QED
        BY <3>2, <3>3
    <2>4. ScoreJobs'
      <3> SUFFICES ASSUME NEW q \in Procs, job'[q] # Idle, job'[q].cmd = "score"
                   PROVE  ScoreJob(q)'
        BY DEF ScoreJobs
      <3>1. q # p /\ job'[q] = job[q]
        BY <1>10, <1>15
      <3>2. runs'[job[q].run] = runs[job[q].run]
        BY <3>1, <2>2, <1>9, <1>11
      <3> QED
        BY <3>1, <3>2, <1>2 DEF ArchiveInv, ScoreJobs, ScoreJob, Vouched
    <2>5. ArchiveTrusted'
      BY <2>2, <1>2, <1>9 DEF ArchiveInv, ArchiveTrusted, Complete
    <2> QED
      BY <2>3, <2>4, <2>5, <1>13 DEF ArchiveInv
  <1>16. CASE job[p].cmd = "score"
    <2>1. ScoreJob(p)
      BY <1>16, <1>0 DEF ArchiveInv, ScoreJobs
    <2>2. /\ runs[r].flag # "none" /\ DOMAIN f \subseteq DOMAIN old
          /\ \A u \in DOMAIN f : f[u].clean => u \in trusted[r]
          /\ \A u \in DOMAIN old \ DOMAIN f : old[u].clean => u \in trusted[r]
      BY <2>1 DEF ScoreJob, Vouched, f, old
    <2>3. DOMAIN merged = DOMAIN old /\ (merged[t].clean => t \in trusted[r])
      BY <2>2, <1>5
    <2>4. SuiteJobs'
      <3> SUFFICES ASSUME NEW q \in Procs, job'[q] # Idle, job'[q].cmd # "score"
                   PROVE  SuiteJob(q)'
        BY DEF SuiteJobs
      <3>1. q # p /\ job'[q] = job[q] /\ SuiteJob(q)
        BY <1>10, <1>16 DEF ArchiveInv, SuiteJobs
      <3>2. job[q].run # r /\ runs'[job[q].run] = runs[job[q].run]
        BY <3>1, <2>2, <1>9, <1>11 DEF SuiteJob
      <3>3. \A x \in Procs : x # q /\ job'[x] # Idle => job'[x].run # job'[q].run
        BY <3>1, <1>12 DEF SuiteJob
      <3> QED
        BY <3>1, <3>2, <3>3, <1>2 DEF SuiteJob, Vouched
    <2>5. ScoreJobs'
      <3> SUFFICES ASSUME NEW q \in Procs, job'[q] # Idle, job'[q].cmd = "score"
                   PROVE  ScoreJob(q)'
        BY DEF ScoreJobs
      <3>1. CASE q = p
        <4>1. /\ DOMAIN rest \subseteq DOMAIN merged
              /\ \A u \in DOMAIN rest : rest[u].clean => u \in trusted[r]
              /\ \A u \in DOMAIN merged \ DOMAIN rest : merged[u].clean => u \in trusted[r]
          BY <2>2, <2>3, <1>5
        <4>2. job[p].flag = "valid"
          BY <2>1 DEF ScoreJob
        <4> QED
          BY <3>1, <4>1, <4>2, <2>2, <1>2, <1>9, <1>10 DEF ScoreJob, Vouched
      <3>2. CASE q # p
        <4>1. job'[q] = job[q] /\ ScoreJob(q) /\ job[q].run \in DOMAIN runs
          BY <3>2, <1>10, <1>11 DEF ArchiveInv, ScoreJobs
        <4>2. CASE job[q].run = r
          <5>1. \A u \in DOMAIN merged \ DOMAIN job[q].files : merged[u].clean => u \in trusted[r]
            BY <4>1, <4>2, <2>3, <1>5 DEF ScoreJob, old
          <5>2. DOMAIN job[q].files \subseteq DOMAIN merged
            BY <4>1, <4>2, <2>3 DEF ScoreJob, old
          <5> QED
            BY <4>1, <4>2, <5>1, <5>2, <2>2, <1>2, <1>9 DEF ScoreJob, Vouched
        <4>3. CASE job[q].run # r
          BY <4>1, <4>3, <1>2, <1>9 DEF ScoreJob, Vouched
        <4> QED
          BY <4>2, <4>3
      <3> QED
        BY <3>1, <3>2
    <2>6. ArchiveTrusted'
      <3> SUFFICES ASSUME NEW s \in DOMAIN runs, runs'[s].flag = "valid",
                          NEW u \in DOMAIN runs'[s].tasks, runs'[s].tasks[u].clean
                   PROVE  u \in trusted[s]
        BY <1>2, <1>9 DEF ArchiveTrusted, Complete
      <3>1. \A v \in DOMAIN runs[s].tasks :
               runs[s].flag = "valid" /\ runs[s].tasks[v].clean => v \in trusted[s]
        BY DEF ArchiveInv, ArchiveTrusted, Complete
      <3>2. CASE s = r
        BY <3>1, <3>2, <2>3, <1>5, <1>9 DEF old
      <3>3. CASE s # r
        BY <3>1, <3>3, <1>9
      <3> QED
        BY <3>2, <3>3
    <2> QED
      BY <2>4, <2>5, <2>6, <1>13 DEF ArchiveInv
  <1> QED
    BY <1>15, <1>16

LEMMA OverFacts ==
    ASSUME NEW old \in Meta, NEW new \in Meta, NEW m \in WrittenOver(old, new)
    PROVE  m \in Meta /\ m.clean = new.clean
  <1>1. old.trials \in Nat /\ new.trials \in Nat /\ new.broken \in Nat
    BY DEF Meta
  <1>2. CASE old.trials <= new.trials
    BY <1>2 DEF WrittenOver
  <1>3. CASE ~(old.trials <= new.trials)
    <2>1. PICK stay \in 0..(old.trials - new.trials) :
             m = [new EXCEPT !.trials = old.trials, !.broken = @ + stay]
      BY <1>3 DEF WrittenOver
    <2>2. stay \in Nat
      OBVIOUS
    <2>3. new.broken + stay \in Nat
      BY <1>1, <2>2
    <2> QED
      BY <2>1, <2>3, <1>1 DEF Meta
  <1> QED
    BY <1>2, <1>3

\* What a command writes of a task calls it clean when its grading did.
LEMMA SaveKeeps ==
    ASSUME ArchiveInv, NEW p \in Procs, SaveTaskArtifacts(p) \/ SaveTaskScores(p)
    PROVE  ArchiveInv'
  <1>1. job[p].cmd \in {"suite", "task", "score"}
    BY DEF SaveTaskArtifacts, SaveTaskScores
  <1>2. job[p] # Idle
    BY <1>1 DEF Idle
  <1>3. \A t \in DOMAIN job[p].files : job[p].files[t] \in Meta
    BY <1>2, TypeFacts, FilesFacts DEF ArchiveInv, JobShape
  <1>4. \A t \in DOMAIN runs[job[p].run].tasks : runs[job[p].run].tasks[t] \in Meta
    BY <1>2, TypeFacts, FilesFacts DEF ArchiveInv
  <1>5. CASE SaveTaskScores(p)
    <2>1. PICK t \in DOMAIN job[p].files : WriteTask(p, t, job[p].files[t])
      BY <1>5 DEF SaveTaskScores
    <2> QED
      BY <2>1, <1>1, <1>3, WriteTaskKeeps
  <1>6. CASE SaveTaskArtifacts(p)
    <2> DEFINE tasks == runs[job[p].run].tasks
               new(t) == job[p].files[t]
    <2>1. PICK t \in DOMAIN job[p].files :
             \E m \in IF t \in DOMAIN tasks THEN WrittenOver(tasks[t], new(t)) ELSE {new(t)} :
                WriteTask(p, t, m)
      BY <1>6 DEF SaveTaskArtifacts
    <2>2. PICK m \in IF t \in DOMAIN tasks THEN WrittenOver(tasks[t], new(t)) ELSE {new(t)} :
             WriteTask(p, t, m)
      BY <2>1
    <2>3. m \in Meta /\ m.clean = job[p].files[t].clean
      <3>1. CASE t \in DOMAIN tasks
        BY <3>1, <2>2, <1>3, <1>4, OverFacts
      <3>2. CASE t \notin DOMAIN tasks
        BY <3>2, <2>2, <1>3
      <3> QED
        BY <3>1, <3>2
    <2> QED
      BY <2>2, <2>3, <1>1, WriteTaskKeeps
  <1> QED
    BY <1>5, <1>6

\* run_metadata.json is written: by now every task of the run is vouched for.
LEMMA WriteRunKeeps ==
    ASSUME ArchiveInv, NEW p \in Procs, job[p].cmd \in {"suite", "score"},
           NEW started \in Nat, WriteRun(p, started)
    PROVE  ArchiveInv'
  <1>0. /\ TypeOK /\ job[p] # Idle /\ job[p] \in JobShape /\ job[p].run \in DOMAIN runs
        /\ DOMAIN runs = 1..Len(runs) /\ job \in [Procs -> {Idle} \cup JobShape]
    <2>1. job[p] # Idle
      BY DEF Idle
    <2> QED
      BY <2>1, TypeFacts DEF ArchiveInv, TypeOK
  <1> DEFINE r == job[p].run
             done == [runs[r] EXCEPT !.flag = job[p].flag, !.started = started]
  <1>1. /\ DOMAIN job[p].files = {} /\ UNCHANGED <<types, trusted, counts>>
        /\ runs' = [runs EXCEPT ![r] = done]
        /\ job' = [job EXCEPT ![p] = Idle]
    BY <1>0 DEF WriteRun
  <1>2. /\ done \in RunShape /\ done.flag = job[p].flag /\ done.tasks = runs[r].tasks
        /\ job[p].flag \in {"valid", "invalid"}
    BY <1>0, TypeFacts DEF RunShape, JobShape
  <1> HIDE DEF done
  <1>3. /\ runs' \in Seq(RunShape) /\ Len(runs') = Len(runs) /\ DOMAIN runs' = DOMAIN runs
        /\ runs'[r] = done /\ \A s \in DOMAIN runs : s # r => runs'[s] = runs[s]
    <2>1. runs \in Seq(RunShape) /\ r \in 1..Len(runs)
      BY <1>0 DEF TypeOK
    <2>2. /\ runs' \in Seq(RunShape) /\ Len(runs') = Len(runs)
          /\ \A s \in 1..Len(runs) : runs'[s] = IF s = r THEN done ELSE runs[s]
      BY <1>1, <1>2, <2>1, ExceptSeq
    <2> QED
      BY <2>1, <2>2, <1>0, LenProperties
  <1>4. /\ job' \in [Procs -> {Idle} \cup JobShape]
        /\ \A q \in Procs : job'[q] # Idle => q # p /\ job'[q] = job[q]
        /\ \A q \in Procs : job[q] # Idle => job[q].run \in DOMAIN runs
    BY <1>0, <1>1 DEF TypeOK
  <1>5. TypeOK'
    BY <1>0, <1>1, <1>3, <1>4 DEF TypeOK
  <1>7. job[p].flag = "valid" => Vouched(r, runs[r].tasks)
    BY <1>0, <1>1 DEF ArchiveInv, SuiteJobs, SuiteJob, ScoreJobs, ScoreJob, Vouched
  <1>8. ArchiveTrusted'
    BY <1>1, <1>2, <1>3, <1>7 DEF ArchiveInv, ArchiveTrusted, Complete, Vouched
  <1>9. SuiteJobs'
    <2> SUFFICES ASSUME NEW q \in Procs, job'[q] # Idle, job'[q].cmd # "score"
                 PROVE  SuiteJob(q)'
      BY DEF SuiteJobs
    <2>1. q # p /\ job'[q] = job[q] /\ SuiteJob(q) /\ job[q].run \in DOMAIN runs
      BY <1>4 DEF ArchiveInv, SuiteJobs
    <2>2. job[q].run # r
      BY <2>1, <1>0 DEF SuiteJob
    <2> QED
      BY <2>1, <2>2, <1>1, <1>3, <1>4 DEF SuiteJob, Vouched
  <1>10. ScoreJobs'
    <2> SUFFICES ASSUME NEW q \in Procs, job'[q] # Idle, job'[q].cmd = "score"
                 PROVE  ScoreJob(q)'
      BY DEF ScoreJobs
    <2>1. job'[q] = job[q] /\ ScoreJob(q) /\ job[q].run \in DOMAIN runs
      BY <1>4 DEF ArchiveInv, ScoreJobs
    <2>2. runs'[job[q].run].flag # "none" /\ runs'[job[q].run].tasks = runs[job[q].run].tasks
      BY <2>1, <1>2, <1>3 DEF ScoreJob
    <2> QED
      BY <2>1, <2>2, <1>1 DEF ScoreJob, Vouched
  <1> QED
    BY <1>5, <1>8, <1>9, <1>10 DEF ArchiveInv

LEMMA ArchiveStep == ArchiveInv /\ [Next]_vars => ArchiveInv'
  <1> SUFFICES ASSUME ArchiveInv, [Next]_vars PROVE ArchiveInv'
    OBVIOUS
  <1>1. ASSUME NEW p \in Procs, Suite(p) PROVE ArchiveInv'
    <2>1. PICK S \in SUBSET Tasks, n \in Nat :
             \E results \in Results(S, n) : Run(p, "suite", results)
      BY <1>1, ArchiveAssumption DEF Suite
    <2>2. PICK results \in Results(S, n) : Run(p, "suite", results)
      BY <2>1
    <2> QED
      BY <2>2, ResultsFacts, RunKeeps
  <1>9. ASSUME NEW p \in Procs, Task(p) PROVE ArchiveInv'
    <2>1. PICK t \in Tasks, n \in Nat : \E results \in Results({t}, n) : Run(p, "task", results)
      BY <1>9, ArchiveAssumption DEF Task
    <2>2. PICK results \in Results({t}, n) : Run(p, "task", results)
      BY <2>1
    <2>3. {t} \in SUBSET Tasks
      OBVIOUS
    <2> QED
      BY <2>2, <2>3, ResultsFacts, RunKeeps
  <1>2. ASSUME NEW p \in Procs, Regrade(p) PROVE ArchiveInv'
    BY <1>2, RegradeKeeps
  <1>3. ASSUME NEW p \in Procs, Crash(p) \/ EndTask(p) PROVE ArchiveInv'
    <2>1. job' = [job EXCEPT ![p] = Idle] /\ UNCHANGED <<types, runs, trusted>>
      BY <1>3 DEF Crash, EndTask
    <2>2. counts' \in Bounds
      BY <1>3, CountsFacts DEF Crash, EndTask, ArchiveInv, TypeOK
    <2> QED
      BY <2>1, <2>2, QuitKeeps
  <1>4. ASSUME NEW p \in Procs, SaveTaskArtifacts(p) \/ SaveTaskScores(p) PROVE ArchiveInv'
    BY <1>4, SaveKeeps
  <1>5. ASSUME NEW p \in Procs, SaveRunMetadata(p) \/ UpdateRunMetadata(p) PROVE ArchiveInv'
    <2>1. PICK started \in {job[p].started, runs[job[p].run].started} :
             job[p].cmd \in {"suite", "score"} /\ WriteRun(p, started)
      BY <1>5 DEF SaveRunMetadata, UpdateRunMetadata
    <2>2. job[p] # Idle
      BY <2>1 DEF Idle
    <2>3. started \in Nat
      BY <2>2, TypeFacts DEF ArchiveInv, JobShape, RunShape
    <2> QED
      BY <2>1, <2>3, WriteRunKeeps
  <1>6. ASSUME NEW t \in Tasks, Demote(t) PROVE ArchiveInv'
    BY <1>6, EditKeeps DEF Demote, Types
  <1>7. ASSUME NEW t \in Tasks, NEW force \in BOOLEAN, Promote(t, force) PROVE ArchiveInv'
    BY <1>7, EditKeeps DEF Promote, Types
  <1>8. CASE UNCHANGED vars
    BY <1>8 DEF vars, ArchiveInv, TypeOK, SuiteJobs, SuiteJob, ScoreJobs, ScoreJob, Vouched,
                ArchiveTrusted, Complete
  <1> QED
    BY <1>1, <1>2, <1>3, <1>4, <1>5, <1>6, <1>7, <1>8, <1>9 DEF Next

LEMMA ArchiveInvHolds == ~Reuse /\ Spec => []ArchiveInv
  BY ArchiveInit, ArchiveStep, PTL DEF Spec

-----------------------------------------------------------------------------
\* While no command is given the run directory of another, and whatever processes
\* grade, write and die in whatever order, a run that is not flagged calls no task
\* clean that no valid grading found clean (cmd_score_suite's staging,
\* save_run_metadata coming last).
THEOREM ArchiveTrustedHolds == ~Reuse /\ Spec => []ArchiveTrusted
  <1>1. ArchiveInv => ArchiveTrusted
    BY DEF ArchiveInv
  <1> QED
    BY <1>1, ArchiveInvHolds, PTL

\* Under the same condition a promotion without --force rests on valid, clean
\* gradings in each of the newest promotion_threshold runs
\* (find_promotion_candidates).
THEOREM PromotionEarnedHolds == ~Reuse /\ Spec => []PromotionEarned
  <1>1. ArchiveInv => PromotionEarned
    BY DEF ArchiveInv, ArchiveTrusted, PromotionEarned, Candidate, CountsFor, Newest, Complete
  <1> QED
    BY <1>1, ArchiveInvHolds, PTL
=============================================================================
