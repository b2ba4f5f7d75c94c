--------------------------- MODULE EvalTrialsProofs ---------------------------
(***************************************************************************)
(* Theorems about EvalTrials, for any suite, any number of workers and     *)
(* trials, any managed paths however the tasks share them, and any number  *)
(* of deaths of the process.                                               *)
(***************************************************************************)
EXTENDS EvalTrials, WellFoundedInduction, TLAPS

Contents == {Absent, User} \cup {Fixture(t) : t \in Nat} \cup {Written(t) : t \in Nat}

Stages == {"idle", "locking", "restore", "backup", "install", "running", "capture", "finally",
           "grading", "graded"}

Ends == CliOutcomes \cup ExecPlanOutcomes \cup ClaudeOutcomes \cup ChatOutcomes \cup GatewayOutcomes
        \cup ReactOutcomes \cup {"none", "raised"}

Locals == [task: Nat, at: Stages, todo: Seq(Paths), turn: Nat, seen: SUBSET Contents,
           came_of: Ends, score: {"none", "pass", "fail", "infra"}]

TypeOK ==
    /\ backend \in Suites
    /\ file \in [Paths -> Contents]
    /\ backup \in [Paths -> Contents]
    /\ holder \in [Paths -> Nat]
    /\ next_task \in Nat \ {0}
    /\ worker \in [Workers -> Locals]
    /\ scored \in [Tasks -> Nat]
    /\ crashes \in Nat

-----------------------------------------------------------------------------
(* The inductive invariant.                                                 *)

\* The paths a worker still has before it in its loop over them.
Remaining(w) == {worker[w].todo[i] : i \in 1..Len(worker[w].todo)}

Original(p) == file[p] \in {Absent, User}
Clean(p)    == Original(p) /\ backup[p] = Absent

\* What the installation leaves at a path, before the subject runs.
Fresh(t, p) == IF p \in Install[t] THEN {Fixture(t)}
               ELSE IF p \in Empty[t] THEN {Absent} ELSE {Absent, User}

\* A backup is the user's file or nothing: what is backed up was restored
\* first, so no fixture of a run that died is ever taken for the user's file.
BackupsAreUsers == \A p \in Paths : backup[p] \in {Absent, User}

\* A worker with a task past the locking holds all of its paths, and a worker
\* holds nothing else.
Locks ==
    /\ \A w \in Workers :
          /\ worker[w].at # "idle" => worker[w].task \in Tasks
          /\ worker[w].at \notin {"idle", "locking"} => \A p \in Member(InTask(w)) : holder[p] = w
    /\ \A p \in Paths : holder[p] # 0 =>
          /\ holder[p] \in Workers
          /\ worker[holder[p]].at # "idle"
          /\ p \in Member(InTask(holder[p]))

\* How far each trial has got with the paths of its task.
Progress(w) ==
    /\ worker[w].at \notin {"idle", "locking"} => Remaining(w) \subseteq Member(InTask(w))
    /\ At(w, "restore") \/ At(w, "finally") =>
          \A p \in Member(InTask(w)) \ Remaining(w) : Clean(p)
    /\ At(w, "backup") => \A p \in Member(InTask(w)) : Original(p)
    /\ At(w, "install") => \A p \in Member(InTask(w)) :
          /\ file[p] \in Fresh(InTask(w), p) \cup {Absent, User}
          /\ p \notin Remaining(w) => file[p] \in Fresh(InTask(w), p)
    /\ At(w, "running") \/ At(w, "capture") => \A p \in Member(InTask(w)) :
          file[p] \in {Written(InTask(w))} \cup Fresh(InTask(w), p)
    /\ At(w, "capture") => Remaining(w) = Member(InTask(w))
    /\ At(w, "grading") \/ At(w, "graded") => \A p \in Member(InTask(w)) : Clean(p)

Trialwise == \A w \in Workers : Progress(w) /\ \A f \in worker[w].seen : f[2] \in {0, InTask(w)}

\* A free path that a scored trial of this process used is clean.
FreeIsClean ==
    \A p \in Paths : \A t \in Tasks :
        holder[p] = 0 /\ p \in Member(t) /\ scored[t] > 0 => Clean(p)

\* What a trial came to is what its backend may report, or an exception; it
\* has a score only when it is over.
Outcomes ==
    \A w \in Workers :
        /\ worker[w].at \in {"capture", "finally", "grading", "graded"} =>
              worker[w].came_of \in Reports[backend[InTask(w)]].outcomes \cup {"raised"}
        /\ worker[w].score # "none" => worker[w].at = "graded"

IInv == TypeOK /\ BackupsAreUsers /\ Locks /\ Trialwise /\ FreeIsClean /\ Outcomes

-----------------------------------------------------------------------------
(* Paths and lists of paths.                                                *)

LEMMA ListedFacts ==
    ASSUME NEW t \in Tasks
    PROVE  /\ Listed[t] \in Seq(Paths)
           /\ Member(t) = {Listed[t][i] : i \in 1..Len(Listed[t])}
           /\ Member(t) \subseteq Paths
           /\ Install[t] \subseteq Member(t) /\ Empty[t] \subseteq Member(t)
  <1>1. Listed[t] \in Seq(Paths) /\ Install[t] \cup Empty[t] \subseteq Member(t)
    BY SuiteAssumption DEF Member
  <1>2. DOMAIN Listed[t] = 1..Len(Listed[t]) /\ \A i \in 1..Len(Listed[t]) : Listed[t][i] \in Paths
    BY <1>1
  <1> QED
    BY <1>1, <1>2 DEF Member

\* One turn of a loop over the paths of a task.
LEMMA PopFacts ==
    ASSUME NEW s \in Seq(Paths), s # <<>>
    PROVE  /\ Head(s) \in Paths /\ Tail(s) \in Seq(Paths)
           /\ Head(s) \in {s[i] : i \in 1..Len(s)}
           /\ {s[i] : i \in 1..Len(s)} = {Tail(s)[i] : i \in 1..Len(Tail(s))} \cup {Head(s)}
  <1>1. /\ Len(s) \in Nat \ {0} /\ Head(s) = s[1] /\ Head(s) \in Paths
        /\ Tail(s) \in Seq(Paths) /\ Len(Tail(s)) = Len(s) - 1
        /\ \A i \in 1..Len(Tail(s)) : Tail(s)[i] = s[i + 1]
    OBVIOUS
  <1>2. 1 \in 1..Len(s)
    BY <1>1
  <1>3. \A i \in 1..Len(Tail(s)) : i + 1 \in 1..Len(s)
    BY <1>1
  <1>4. ASSUME NEW i \in 1..Len(s), i # 1
        PROVE  i - 1 \in 1..Len(Tail(s)) /\ s[i] = Tail(s)[i - 1]
    <2>1. i - 1 \in 1..Len(Tail(s)) /\ (i - 1) + 1 = i
      BY <1>1, <1>4
    <2> QED
      BY <2>1, <1>1
  <1>5. \A i \in 1..Len(Tail(s)) : Tail(s)[i] \in {s[k] : k \in 1..Len(s)}
    BY <1>1, <1>3
  <1>6. \A i \in 1..Len(s) : s[i] \in {Tail(s)[k] : k \in 1..Len(Tail(s))} \cup {Head(s)}
    BY <1>1, <1>4
  <1>7. Head(s) \in {s[i] : i \in 1..Len(s)}
    BY <1>1, <1>2
  <1> QED
    BY <1>1, <1>5, <1>6, <1>7

LEMMA IdleFacts == Idle \in Locals
  <1>1. <<>> \in Seq(Paths) /\ {} \in SUBSET Contents /\ "none" \in Ends
    BY DEF Ends
  <1> QED
    BY <1>1 DEF Idle, Locals, Stages

LEMMA ReportFacts ==
    ASSUME NEW kind \in {"cli", "execplan", "claude", "chat", "gateway", "react"}
    PROVE  /\ Reports[kind].outcomes \subseteq Ends
           /\ kind \in DOMAIN Exhausted => Exhausted[kind] \in Reports[kind].outcomes
  <1>1. kind \in DOMAIN Exhausted => Exhausted[kind] \in Reports[kind].outcomes
    BY DEF Exhausted, Reports, GatewayOutcomes, ReactOutcomes
  <1>2. Reports[kind].outcomes \subseteq Ends
    BY DEF Reports, Ends
  <1> QED
    BY <1>1, <1>2

-----------------------------------------------------------------------------
(* A worker goes on with its task: what is left to show is about its own    *)
(* locals, if it only touches paths it holds.                               *)

LEMMA LocalStep ==
    ASSUME IInv, NEW w \in Workers, NEW l \in Locals, worker' = [worker EXCEPT ![w] = l],
           worker[w].at # "idle", l.at # "idle", l.task = worker[w].task,
           l.at # "locking" => \A p \in Member(l.task) : holder[p] = w,
           UNCHANGED <<backend, holder, next_task, crashes>>,
           file' \in [Paths -> Contents], backup' \in [Paths -> {Absent, User}],
           \A p \in Paths : file'[p] # file[p] \/ backup'[p] # backup[p] => holder[p] = w,
           scored' \in [Tasks -> Nat],
           \A t \in Tasks : scored'[t] # scored[t] => t = l.task /\ l.at # "locking",
           Progress(w)', \A f \in l.seen : f[2] \in {0, l.task},
           l.at \in {"capture", "finally", "grading", "graded"} =>
               l.came_of \in Reports[backend[l.task]].outcomes \cup {"raised"},
           l.score # "none" => l.at = "graded"
    PROVE  IInv'
  <1> USE DEF IInv
  <1>1. /\ worker'[w] = l /\ \A v \in Workers \ {w} : worker'[v] = worker[v]
        /\ l.task \in Tasks /\ w # 0 /\ w \in Nat
    BY SuiteAssumption DEF TypeOK, Locks, Workers
  <1>2. TypeOK'
    BY <1>1 DEF TypeOK, Contents
  <1>3. BackupsAreUsers'
    BY DEF BackupsAreUsers
  <1>4. Locks'
    BY <1>1 DEF Locks, InTask
  <1>5. ASSUME NEW v \in Workers, v # w PROVE Progress(v)'
    <2>1. CASE worker[v].at \in {"idle", "locking"}
      BY <2>1, <1>1, <1>5 DEF Progress, At
    <2>2. CASE worker[v].at \notin {"idle", "locking"}
      <3>1. worker[v].task \in Tasks /\ Member(worker[v].task) \subseteq Paths
        BY <2>2, ListedFacts DEF Locks
      <3>2. \A p \in Member(worker[v].task) : file'[p] = file[p] /\ backup'[p] = backup[p]
        BY <3>1, <2>2, <1>1, <1>5 DEF Locks, InTask
      <3>3. worker'[v] = worker[v] /\ Progress(v)
        BY <1>1, <1>5 DEF Trialwise
      <3>4. Remaining(v)' = Remaining(v) /\ InTask(v)' = InTask(v)
        BY <3>3 DEF Remaining, InTask
      <3>5. /\ \A st : At(v, st)' <=> At(v, st)
            /\ \A p \in Member(InTask(v)) :
                  file'[p] = file[p] /\ (Original(p)' <=> Original(p)) /\ (Clean(p)' <=> Clean(p))
        BY <3>2, <3>3 DEF At, InTask, Original, Clean
      <3> QED
        BY <3>3, <3>4, <3>5 DEF Progress
    <2> QED
      BY <2>1, <2>2
  <1>6. Trialwise'
    BY <1>1, <1>5 DEF Trialwise, InTask
  <1>7. FreeIsClean'
    <2> SUFFICES ASSUME NEW p \in Paths, NEW t \in Tasks, holder[p] = 0, p \in Member(t), scored'[t] > 0
                 PROVE  Clean(p)'
      BY DEF FreeIsClean
    <2>1. scored'[t] = scored[t] /\ file'[p] = file[p] /\ backup'[p] = backup[p]
      BY <1>1
    <2> QED
      BY <2>1 DEF FreeIsClean, Clean, Original
  <1>8. Outcomes'
    BY <1>1 DEF Outcomes, InTask
  <1> QED
    BY <1>2, <1>3, <1>4, <1>6, <1>7, <1>8

\* A worker in a trial: its task, its locks, and what IInv says of it.
LEMMA InTrial ==
    ASSUME IInv, NEW w \in Workers, worker[w].at \notin {"idle", "locking"}
    PROVE  /\ worker[w] \in Locals /\ InTask(w) \in Tasks /\ InTask(w) \in Nat
           /\ Listed[InTask(w)] \in Seq(Paths) /\ Member(InTask(w)) \subseteq Paths
           /\ Member(InTask(w)) = {Listed[InTask(w)][i] : i \in 1..Len(Listed[InTask(w)])}
           /\ Install[InTask(w)] \subseteq Member(InTask(w)) /\ Empty[InTask(w)] \subseteq Member(InTask(w))
           /\ \A p \in Member(InTask(w)) : holder[p] = w
           /\ Progress(w) /\ \A f \in worker[w].seen : f[2] \in {0, InTask(w)}
           /\ backend[InTask(w)] \in {"cli", "execplan", "claude", "chat", "gateway", "react"}
           /\ Remaining(w) = {worker[w].todo[i] : i \in 1..Len(worker[w].todo)}
           /\ Remaining(w) \subseteq Member(InTask(w))
  <1>1. worker[w] \in Locals /\ InTask(w) \in Tasks /\ \A p \in Member(InTask(w)) : holder[p] = w
    BY DEF IInv, TypeOK, Locks, InTask
  <1>2. InTask(w) \in Nat
    BY <1>1, SuiteAssumption DEF Tasks
  <1>3. backend[InTask(w)] \in {"cli", "execplan", "claude", "chat", "gateway", "react"}
    BY <1>1, SuiteAssumption DEF IInv, TypeOK
  <1> QED
    BY <1>1, <1>2, <1>3, ListedFacts DEF IInv, Trialwise, Progress, Remaining

LEMMA TypesOfFiles ==
    ASSUME IInv
    PROVE  /\ file \in [Paths -> Contents] /\ backup \in [Paths -> {Absent, User}]
           /\ {Absent, User} \subseteq Contents /\ scored \in [Tasks -> Nat]
  BY DEF IInv, TypeOK, BackupsAreUsers, Contents

LEMMA LeastElement ==
    ASSUME NEW T, T \subseteq Nat, T # {}
    PROVE  \E x \in T : \A y \in T : x <= y
  <1> DEFINE R == OpToRel(<, Nat)
  <1>1. IsWellFoundedOn(R, Nat)
    BY NatLessThanWellFounded, Zenon
  <1>2. \A x, y \in Nat : y < x => <<y, x>> \in R
    BY DEF OpToRel
  <1> HIDE DEF R
  <1>3. PICK x \in T : \A y \in T : ~ (<<y, x>> \in R)
    BY <1>1, WFMin
  <1>4. ASSUME NEW y \in T PROVE x <= y
    <2>1. ~ (y < x)
      BY <1>2, <1>3
    <2> QED
      BY <2>1
  <1> QED
    BY <1>4

\* Locks are taken in the order of the paths' names: when there is no next
\* one, none is missing.
LEMMA NoLockLeft ==
    ASSUME NEW w, NextLock(w) = {}, Member(InTask(w)) \subseteq Nat
    PROVE  \A p \in Member(InTask(w)) : holder[p] = w
  <1> DEFINE free == {p \in Member(InTask(w)) : holder[p] # w}
  <1>1. free # {} => \E p \in free : \A q \in free : p <= q
    BY LeastElement
  <1>2. NextLock(w) = {p \in free : \A q \in free : p <= q}
    BY DEF NextLock
  <1>3. free = {}
    BY <1>1, <1>2
  <1> QED
    BY <1>3

LEMMA StartTaskInv == ASSUME IInv, NEW w \in Workers, StartTask(w) PROVE IInv'
  <1> DEFINE l == [worker[w] EXCEPT !.at = "restore", !.todo = Listed[InTask(w)]]
  <1>1. /\ worker[w].at = "locking" /\ worker[w] \in Locals /\ InTask(w) \in Tasks
        /\ worker' = [worker EXCEPT ![w] = l] /\ NextLock(w) = {}
        /\ UNCHANGED <<backend, origin, file, backup, holder, next_task, scored, crashes>>
    BY DEF StartTask, At, Goto, Put, Locked, IInv, TypeOK, Locks, InTask
  <1>2. Listed[InTask(w)] \in Seq(Paths) /\ Member(InTask(w)) \subseteq Nat
        /\ Member(InTask(w)) = {Listed[InTask(w)][i] : i \in 1..Len(Listed[InTask(w)])}
    BY <1>1, ListedFacts, SuiteAssumption
  <1>3. /\ l \in Locals /\ l.at = "restore" /\ l.task = InTask(w) /\ l.seen = worker[w].seen
        /\ l.score = worker[w].score /\ l.todo = Listed[InTask(w)]
    BY <1>1, <1>2 DEF Locals, Stages, InTask
  <1> HIDE DEF l
  <1>4. \A p \in Member(InTask(w)) : holder[p] = w
    BY <1>1, <1>2, NoLockLeft
  <1>5. Progress(w)'
    <2>1. worker'[w] = l /\ Remaining(w)' = Member(InTask(w))
      BY <1>1, <1>2, <1>3 DEF IInv, TypeOK, Remaining
    <2> QED
      BY <2>1, <1>3 DEF Progress, At, InTask
  <1>6. l.score = "none"
    BY <1>1, <1>3 DEF IInv, Outcomes
  <1> QED
    BY <1>1, <1>3, <1>4, <1>5, <1>6, TypesOfFiles, LocalStep DEF IInv, Trialwise, InTask

-----------------------------------------------------------------------------
(* The steps of a trial.                                                    *)

\* The loops over the paths of a task: restoring them, first and last.
LEMMA RestoreInv ==
    ASSUME IInv, NEW w \in Workers, NEW from \in {"restore", "finally"}, NEW to \in {"backup", "grading"},
           from = "restore" <=> to = "backup", At(w, from),
           IF worker[w].todo = <<>>
           THEN Goto(w, to) /\ UNCHANGED <<file, backup>>
           ELSE Restored(Head(worker[w].todo)) /\ Pop(w),
           UNCHANGED <<backend, origin, holder, next_task, scored, crashes>>
    PROVE  IInv'
  <1>1. worker[w].at = from /\ worker[w].at \notin {"idle", "locking"}
    BY DEF At
  <1>2. /\ worker[w] \in Locals /\ InTask(w) \in Tasks /\ Listed[InTask(w)] \in Seq(Paths)
        /\ Member(InTask(w)) \subseteq Paths /\ \A p \in Member(InTask(w)) : holder[p] = w
        /\ Progress(w) /\ \A f \in worker[w].seen : f[2] \in {0, InTask(w)}
        /\ Remaining(w) = {worker[w].todo[i] : i \in 1..Len(worker[w].todo)}
        /\ Remaining(w) \subseteq Member(InTask(w))
        /\ Member(InTask(w)) = {Listed[InTask(w)][i] : i \in 1..Len(Listed[InTask(w)])}
    BY <1>1, InTrial
  <1>3. /\ worker[w].score = "none"
        /\ from = "finally" => worker[w].came_of \in Reports[backend[InTask(w)]].outcomes \cup {"raised"}
    BY <1>1 DEF IInv, Outcomes
  <1>4. CASE worker[w].todo = <<>>
    <2> DEFINE l == [worker[w] EXCEPT !.at = to, !.todo = Listed[InTask(w)]]
    <2>1. worker' = [worker EXCEPT ![w] = l] /\ file' = file /\ backup' = backup
      BY <1>4 DEF Goto, Put
    <2>2. /\ l \in Locals /\ l.at = to /\ l.task = InTask(w) /\ l.seen = worker[w].seen
          /\ l.score = "none" /\ l.came_of = worker[w].came_of /\ l.todo = Listed[InTask(w)]
      BY <1>2, <1>3 DEF Locals, Stages, InTask
    <2> HIDE DEF l
    <2>3. Remaining(w) = {}
      BY <1>2, <1>4
    <2>4. \A p \in Member(InTask(w)) : Clean(p)
      BY <2>3, <1>1, <1>2 DEF Progress, At
    <2>5. Progress(w)'
      <3>1. worker'[w] = l /\ Remaining(w)' = Member(InTask(w))
        BY <2>1, <2>2, <1>2 DEF IInv, TypeOK, Remaining
      <3> QED
        BY <3>1, <2>1, <2>2, <2>4 DEF Progress, At, InTask, Clean, Original
    <2> QED
      BY <2>1, <2>2, <2>5, <1>1, <1>2, <1>3, TypesOfFiles, LocalStep DEF InTask
  <1>5. CASE worker[w].todo # <<>>
    <2> DEFINE l == [worker[w] EXCEPT !.todo = Tail(@)]
               p == Head(worker[w].todo)
    <2>1. /\ worker' = [worker EXCEPT ![w] = l]
          /\ file' = [file EXCEPT ![p] = backup[p]] /\ backup' = [backup EXCEPT ![p] = Absent]
      BY <1>5 DEF Pop, Put, Restored
    <2>2. worker[w].todo \in Seq(Paths)
      BY <1>2 DEF Locals
    <2>3. /\ p \in Paths /\ Tail(worker[w].todo) \in Seq(Paths)
          /\ Remaining(w) = {Tail(worker[w].todo)[i] : i \in 1..Len(Tail(worker[w].todo))} \cup {p}
          /\ p \in Member(InTask(w))
      BY <2>2, <1>2, <1>5, PopFacts
    <2>4. /\ l \in Locals /\ l.at = from /\ l.task = InTask(w) /\ l.seen = worker[w].seen
          /\ l.score = "none" /\ l.came_of = worker[w].came_of /\ l.todo = Tail(worker[w].todo)
      BY <2>3, <1>1, <1>2, <1>3 DEF Locals, InTask
    <2> HIDE DEF l, p
    <2>5. worker'[w] = l /\ Remaining(w) = Remaining(w)' \cup {p}
      BY <2>1, <2>3, <2>4 DEF IInv, TypeOK, Remaining
    <2>6. /\ file' \in [Paths -> Contents] /\ backup' \in [Paths -> {Absent, User}]
          /\ file'[p] \in {Absent, User} /\ backup'[p] = Absent
          /\ \A q \in Paths \ {p} : file'[q] = file[q] /\ backup'[q] = backup[q]
      BY <2>1, <2>3, TypesOfFiles
    <2>7. ASSUME NEW q \in Member(InTask(w)), q \notin Remaining(w)' PROVE Clean(q)'
      <3>1. q = p \/ q \notin Remaining(w)
        BY <2>5, <2>7
      <3>2. q # p => Clean(q)
        BY <3>1, <1>1, <1>2 DEF Progress, At
      <3> QED
        BY <3>2, <2>6, <1>2 DEF Clean, Original
    <2>8. Progress(w)'
      BY <2>4, <2>5, <2>7, <1>2 DEF Progress, At, InTask
    <2>9. \A q \in Paths : file'[q] # file[q] \/ backup'[q] # backup[q] => holder[q] = w
      BY <2>3, <2>6, <1>2
    <2> QED
      BY <2>1, <2>4, <2>6, <2>8, <2>9, <1>1, <1>2, <1>3, TypesOfFiles, LocalStep DEF InTask
  <1> QED
    BY <1>4, <1>5

\* The loop that backs the paths up.
LEMMA TakeBackupsInv == ASSUME IInv, NEW w \in Workers, TakeBackups(w) PROVE IInv'
  <1>1. /\ worker[w].at = "backup" /\ worker[w].at \notin {"idle", "locking"}
        /\ UNCHANGED <<backend, file, holder, next_task, scored, crashes>>
    BY DEF TakeBackups, At
  <1>2. /\ worker[w] \in Locals /\ InTask(w) \in Tasks /\ Listed[InTask(w)] \in Seq(Paths)
        /\ Member(InTask(w)) \subseteq Paths /\ \A p \in Member(InTask(w)) : holder[p] = w
        /\ Progress(w) /\ \A f \in worker[w].seen : f[2] \in {0, InTask(w)}
        /\ Remaining(w) = {worker[w].todo[i] : i \in 1..Len(worker[w].todo)}
        /\ Remaining(w) \subseteq Member(InTask(w))
        /\ Member(InTask(w)) = {Listed[InTask(w)][i] : i \in 1..Len(Listed[InTask(w)])}
    BY <1>1, InTrial
  <1>3. worker[w].score = "none" /\ \A p \in Member(InTask(w)) : Original(p)
    BY <1>1, <1>2 DEF IInv, Outcomes, Progress, At
  <1>4. CASE worker[w].todo = <<>>
    <2> DEFINE l == [worker[w] EXCEPT !.at = "install", !.todo = Listed[InTask(w)]]
    <2>1. worker' = [worker EXCEPT ![w] = l] /\ backup' = backup
      BY <1>4 DEF TakeBackups, Goto, Put
    <2>2. /\ l \in Locals /\ l.at = "install" /\ l.task = InTask(w) /\ l.seen = worker[w].seen
          /\ l.score = "none" /\ l.todo = Listed[InTask(w)]
      BY <1>2, <1>3 DEF Locals, Stages, InTask
    <2> HIDE DEF l
    <2>3. worker'[w] = l /\ Remaining(w)' = Member(InTask(w))
      BY <2>1, <2>2, <1>2 DEF IInv, TypeOK, Remaining
    <2>4. Progress(w)'
      BY <2>2, <2>3, <1>1, <1>3 DEF Progress, At, InTask, Original
    <2> QED
      BY <2>1, <2>2, <2>4, <1>1, <1>2, TypesOfFiles, LocalStep DEF InTask
  <1>5. CASE worker[w].todo # <<>>
    <2> DEFINE l == [worker[w] EXCEPT !.todo = Tail(@)]
               p == Head(worker[w].todo)
    <2>1. worker' = [worker EXCEPT ![w] = l] /\ backup' = [backup EXCEPT ![p] = file[p]]
      BY <1>5 DEF TakeBackups, Pop, Put, BackUp
    <2>2. worker[w].todo \in Seq(Paths)
      BY <1>2 DEF Locals
    <2>3. /\ p \in Paths /\ Tail(worker[w].todo) \in Seq(Paths) /\ p \in Member(InTask(w))
          /\ Remaining(w) = {Tail(worker[w].todo)[i] : i \in 1..Len(Tail(worker[w].todo))} \cup {p}
      BY <2>2, <1>2, <1>5, PopFacts
    <2>4. /\ l \in Locals /\ l.at = "backup" /\ l.task = InTask(w) /\ l.seen = worker[w].seen
          /\ l.score = "none" /\ l.todo = Tail(worker[w].todo)
      BY <2>3, <1>1, <1>2, <1>3 DEF Locals, InTask
    <2> HIDE DEF l, p
    <2>5. worker'[w] = l /\ Remaining(w) = Remaining(w)' \cup {p}
      BY <2>1, <2>3, <2>4 DEF IInv, TypeOK, Remaining
    <2>6. /\ backup' \in [Paths -> {Absent, User}]
          /\ \A q \in Paths \ {p} : backup'[q] = backup[q]
      BY <2>1, <2>3, <1>3, TypesOfFiles DEF Original
    <2>7. Progress(w)'
      BY <2>4, <2>5, <1>1, <1>2, <1>3 DEF Progress, At, InTask, Original
    <2>8. \A q \in Paths : file'[q] # file[q] \/ backup'[q] # backup[q] => holder[q] = w
      BY <2>3, <2>6, <1>1, <1>2
    <2> QED
      BY <2>1, <2>4, <2>6, <2>7, <2>8, <1>1, <1>2, TypesOfFiles, LocalStep DEF InTask
  <1> QED
    BY <1>4, <1>5

\* The loop that installs the fixtures.
LEMMA InstallInv == ASSUME IInv, NEW w \in Workers, InstallFixtures(w) PROVE IInv'
  <1>1. /\ worker[w].at = "install" /\ worker[w].at \notin {"idle", "locking"}
        /\ UNCHANGED <<backend, backup, holder, next_task, scored, crashes>>
    BY DEF InstallFixtures, At
  <1>2. /\ worker[w] \in Locals /\ InTask(w) \in Tasks /\ InTask(w) \in Nat
        /\ Listed[InTask(w)] \in Seq(Paths)
        /\ Member(InTask(w)) \subseteq Paths /\ \A p \in Member(InTask(w)) : holder[p] = w
        /\ Progress(w) /\ \A f \in worker[w].seen : f[2] \in {0, InTask(w)}
        /\ Remaining(w) = {worker[w].todo[i] : i \in 1..Len(worker[w].todo)}
        /\ Remaining(w) \subseteq Member(InTask(w))
        /\ Member(InTask(w)) = {Listed[InTask(w)][i] : i \in 1..Len(Listed[InTask(w)])}
    BY <1>1, InTrial
  <1>3. /\ worker[w].score = "none"
        /\ \A p \in Member(InTask(w)) :
              /\ file[p] \in Fresh(InTask(w), p) \cup {Absent, User}
              /\ p \notin Remaining(w) => file[p] \in Fresh(InTask(w), p)
    BY <1>1, <1>2 DEF IInv, Outcomes, Progress, At
  <1>4. CASE worker[w].todo = <<>>
    <2> DEFINE l == [worker[w] EXCEPT !.at = "running", !.todo = Listed[InTask(w)]]
    <2>1. worker' = [worker EXCEPT ![w] = l] /\ file' = file
      BY <1>4 DEF InstallFixtures, Goto, Put
    <2>2. /\ l \in Locals /\ l.at = "running" /\ l.task = InTask(w) /\ l.seen = worker[w].seen
          /\ l.score = "none" /\ l.todo = Listed[InTask(w)]
      BY <1>2, <1>3 DEF Locals, Stages, InTask
    <2> HIDE DEF l
    <2>3. worker'[w] = l /\ Remaining(w)' = Member(InTask(w)) /\ Remaining(w) = {}
      BY <2>1, <2>2, <1>2, <1>4 DEF IInv, TypeOK, Remaining
    <2>4. Progress(w)'
      BY <2>1, <2>2, <2>3, <1>3 DEF Progress, At, InTask
    <2> QED
      BY <2>1, <2>2, <2>4, <1>1, <1>2, TypesOfFiles, LocalStep DEF InTask
  <1>5. CASE worker[w].todo # <<>>
    <2> DEFINE l == [worker[w] EXCEPT !.todo = Tail(@)]
               p == Head(worker[w].todo)
               new == IF p \in Install[InTask(w)] THEN Fixture(InTask(w))
                      ELSE IF p \in Empty[InTask(w)] THEN Absent ELSE file[p]
    <2>1. worker' = [worker EXCEPT ![w] = l] /\ file' = [file EXCEPT ![p] = new]
      BY <1>5 DEF InstallFixtures, Pop, Put
    <2>2. worker[w].todo \in Seq(Paths)
      BY <1>2 DEF Locals
    <2>3. /\ p \in Paths /\ Tail(worker[w].todo) \in Seq(Paths) /\ p \in Member(InTask(w))
          /\ Remaining(w) = {Tail(worker[w].todo)[i] : i \in 1..Len(Tail(worker[w].todo))} \cup {p}
      BY <2>2, <1>2, <1>5, PopFacts
    <2>4. /\ l \in Locals /\ l.at = "install" /\ l.task = InTask(w) /\ l.seen = worker[w].seen
          /\ l.score = "none" /\ l.todo = Tail(worker[w].todo)
      BY <2>3, <1>1, <1>2, <1>3 DEF Locals, InTask
    <2>5. new \in Fresh(InTask(w), p) /\ new \in Contents
      <3>1. file[p] \in Contents /\ Fixture(InTask(w)) \in Contents /\ Absent \in Contents
        BY <2>3, <1>2, TypesOfFiles DEF Contents
      <3> QED
        BY <3>1, <2>3, <1>3 DEF Fresh
    <2> HIDE DEF l, p, new
    <2>6. worker'[w] = l /\ Remaining(w) = Remaining(w)' \cup {p}
      BY <2>1, <2>3, <2>4 DEF IInv, TypeOK, Remaining
    <2>7. file' \in [Paths -> Contents] /\ file'[p] = new /\ \A q \in Paths \ {p} : file'[q] = file[q]
      BY <2>1, <2>3, <2>5, TypesOfFiles
    <2>8. Progress(w)'
      <3>1. ASSUME NEW q \in Member(InTask(w))
            PROVE  /\ file'[q] \in Fresh(InTask(w), q) \cup {Absent, User}
                   /\ q \notin Remaining(w)' => file'[q] \in Fresh(InTask(w), q)
        BY <2>5, <2>6, <2>7, <1>2, <1>3
      <3> QED
        BY <3>1, <2>4, <2>6, <1>2 DEF Progress, At, InTask
    <2>9. \A q \in Paths : file'[q] # file[q] \/ backup'[q] # backup[q] => holder[q] = w
      BY <2>3, <2>7, <1>1, <1>2
    <2> QED
      BY <2>1, <2>4, <2>7, <2>8, <2>9, <1>1, <1>2, TypesOfFiles, LocalStep DEF InTask
  <1> QED
    BY <1>4, <1>5

\* A step of a worker in a trial that changes its locals only, to l.
LEMMA MoveOn ==
    ASSUME IInv, NEW w \in Workers, worker[w].at \notin {"idle", "locking"},
           NEW l \in Locals, worker' = [worker EXCEPT ![w] = l],
           l.at \notin {"idle", "locking"}, l.task = InTask(w),
           UNCHANGED <<backend, file, backup, holder, next_task, crashes>>,
           scored' \in [Tasks -> Nat], \A t \in Tasks : scored'[t] # scored[t] => t = l.task,
           Progress(w)', \A f \in l.seen : f[2] \in {0, l.task},
           l.at \in {"capture", "finally", "grading", "graded"} =>
               l.came_of \in Reports[backend[l.task]].outcomes \cup {"raised"},
           l.score # "none" => l.at = "graded"
    PROVE  IInv'
  <1>1. \A p \in Member(InTask(w)) : holder[p] = w
    BY InTrial
  <1> QED
    BY <1>1, TypesOfFiles, LocalStep DEF InTask

LEMMA InstallRaisesInv == ASSUME IInv, NEW w \in Workers, InstallRaises(w) PROVE IInv'
  <1> DEFINE l == [worker[w] EXCEPT !.at = "finally", !.todo = Listed[InTask(w)], !.came_of = "raised"]
  <1>1. /\ worker[w].at = "install" /\ worker' = [worker EXCEPT ![w] = l]
        /\ UNCHANGED <<backend, file, backup, holder, next_task, scored, crashes>>
    BY DEF InstallRaises, At, Put
  <1>2. /\ worker[w] \in Locals /\ Listed[InTask(w)] \in Seq(Paths)
        /\ Member(InTask(w)) = {Listed[InTask(w)][i] : i \in 1..Len(Listed[InTask(w)])}
        /\ \A f \in worker[w].seen : f[2] \in {0, InTask(w)}
    BY <1>1, InTrial
  <1>3. /\ l \in Locals /\ l.at = "finally" /\ l.task = InTask(w) /\ l.seen = worker[w].seen
        /\ l.score = worker[w].score /\ l.todo = Listed[InTask(w)] /\ l.came_of = "raised"
    BY <1>2 DEF Locals, Stages, InTask, Ends
  <1> HIDE DEF l
  <1>4. worker'[w] = l /\ Remaining(w)' = Member(InTask(w)) /\ l.score = "none"
    BY <1>1, <1>2, <1>3 DEF IInv, TypeOK, Remaining, Outcomes
  <1>5. Progress(w)'
    BY <1>3, <1>4 DEF Progress, At, InTask
  <1> QED
    BY <1>1, <1>2, <1>3, <1>4, <1>5, TypesOfFiles, MoveOn

LEMMA SubjectWritesInv == ASSUME IInv, NEW w \in Workers, SubjectWrites(w) PROVE IInv'
  <1>1. /\ worker[w].at = "running" /\ worker' = worker
        /\ UNCHANGED <<backend, backup, holder, next_task, scored, crashes>>
    BY DEF SubjectWrites, At
  <1>2. PICK p \in Member(InTask(w)) : file' = [file EXCEPT ![p] = Written(InTask(w))]
    BY DEF SubjectWrites
  <1>3. /\ worker[w] \in Locals /\ InTask(w) \in Nat /\ Member(InTask(w)) \subseteq Paths
        /\ \A q \in Member(InTask(w)) : holder[q] = w
        /\ Progress(w) /\ \A f \in worker[w].seen : f[2] \in {0, InTask(w)}
    BY <1>1, InTrial
  <1>4. /\ file' \in [Paths -> Contents] /\ file'[p] = Written(InTask(w))
        /\ \A q \in Paths \ {p} : file'[q] = file[q]
    <2>1. Written(InTask(w)) \in Contents
      BY <1>3 DEF Contents
    <2> QED
      BY <2>1, <1>2, <1>3, TypesOfFiles
  <1>5. Progress(w)'
    BY <1>1, <1>3, <1>4 DEF Progress, At, InTask, Remaining
  <1>6. \A q \in Paths : file'[q] # file[q] \/ backup'[q] # backup[q] => holder[q] = w
    BY <1>1, <1>3, <1>4
  <1>7. worker' = [worker EXCEPT ![w] = worker[w]]
    BY <1>1 DEF IInv, TypeOK
  <1>8. worker[w].score = "none"
    BY <1>1 DEF IInv, Outcomes
  <1> QED
    BY <1>1, <1>3, <1>4, <1>5, <1>6, <1>7, <1>8, TypesOfFiles, LocalStep DEF InTask

LEMMA SubjectGoesOnInv == ASSUME IInv, NEW w \in Workers, SubjectGoesOn(w) PROVE IInv'
  <1> DEFINE l == [worker[w] EXCEPT !.turn = @ + 1]
  <1>1. /\ worker[w].at = "running" /\ worker' = [worker EXCEPT ![w] = l]
        /\ UNCHANGED <<backend, file, backup, holder, next_task, scored, crashes>>
    BY DEF SubjectGoesOn, At, Put
  <1>2. /\ worker[w] \in Locals /\ Progress(w) /\ \A f \in worker[w].seen : f[2] \in {0, InTask(w)}
    BY <1>1, InTrial
  <1>3. /\ l \in Locals /\ l.at = "running" /\ l.task = InTask(w) /\ l.seen = worker[w].seen
        /\ l.score = worker[w].score /\ l.todo = worker[w].todo
    BY <1>1, <1>2 DEF Locals, InTask
  <1> HIDE DEF l
  <1>4. worker'[w] = l /\ Remaining(w)' = Remaining(w) /\ l.score = "none"
    BY <1>1, <1>2, <1>3 DEF IInv, TypeOK, Remaining, Outcomes
  <1>5. Progress(w)'
    BY <1>1, <1>2, <1>3, <1>4 DEF Progress, At, InTask
  <1> QED
    BY <1>1, <1>2, <1>3, <1>4, <1>5, TypesOfFiles, MoveOn

LEMMA SubjectReturnsInv == ASSUME IInv, NEW w \in Workers, SubjectReturns(w) PROVE IInv'
  <1>1. /\ worker[w].at = "running"
        /\ UNCHANGED <<backend, file, backup, holder, next_task, scored, crashes>>
    BY DEF SubjectReturns, At
  <1>2. /\ worker[w] \in Locals /\ Progress(w) /\ \A f \in worker[w].seen : f[2] \in {0, InTask(w)}
        /\ Listed[InTask(w)] \in Seq(Paths)
        /\ Member(InTask(w)) = {Listed[InTask(w)][i] : i \in 1..Len(Listed[InTask(w)])}
        /\ backend[InTask(w)] \in {"cli", "execplan", "claude", "chat", "gateway", "react"}
    BY <1>1, InTrial
  <1>3. PICK outcome \in Reports[backend[InTask(w)]].outcomes : Finish(w, outcome)
    BY <1>2, ReportFacts DEF SubjectReturns
  <1> DEFINE l == [worker[w] EXCEPT !.at = "capture", !.todo = Listed[InTask(w)], !.came_of = outcome]
  <1>4. worker' = [worker EXCEPT ![w] = l] /\ outcome \in Ends
    BY <1>2, <1>3, ReportFacts DEF Finish, Put
  <1>5. /\ l \in Locals /\ l.at = "capture" /\ l.task = InTask(w) /\ l.seen = worker[w].seen
        /\ l.score = worker[w].score /\ l.todo = Listed[InTask(w)] /\ l.came_of = outcome
    BY <1>2, <1>4 DEF Locals, Stages, InTask
  <1> HIDE DEF l
  <1>6. worker'[w] = l /\ Remaining(w)' = Member(InTask(w)) /\ l.score = "none"
    BY <1>1, <1>2, <1>4, <1>5 DEF IInv, TypeOK, Remaining, Outcomes
  <1>7. Progress(w)'
    BY <1>1, <1>2, <1>5, <1>6 DEF Progress, At, InTask
  <1> QED
    BY <1>1, <1>2, <1>4, <1>5, <1>6, <1>7, TypesOfFiles, MoveOn

\* What is captured is the task's own writes or the user's.
LEMMA CaptureInv == ASSUME IInv, NEW w \in Workers, Capture(w) PROVE IInv'
  <1> DEFINE seen == {file[p] : p \in Member(InTask(w)) \ (Install[InTask(w)] \cup Empty[InTask(w)])}
             l    == [worker[w] EXCEPT !.at = "finally", !.seen = seen]
  <1>1. /\ worker[w].at = "capture" /\ worker' = [worker EXCEPT ![w] = l]
        /\ UNCHANGED <<backend, file, backup, holder, next_task, scored, crashes>>
    BY DEF Capture, At, Put
  <1>2. worker[w] \in Locals /\ Progress(w) /\ Member(InTask(w)) \subseteq Paths
    BY <1>1, InTrial
  <1>3. ASSUME NEW f \in seen PROVE f \in Contents /\ f[2] \in {0, InTask(w)}
    <2>1. PICK p \in Member(InTask(w)) \ (Install[InTask(w)] \cup Empty[InTask(w)]) : f = file[p]
      OBVIOUS
    <2>2. f \in {Written(InTask(w)), Absent, User}
      BY <2>1, <1>1, <1>2 DEF Progress, At, Fresh
    <2>3. f \in Contents
      BY <2>1, <1>2, TypesOfFiles
    <2> QED
      BY <2>2, <2>3 DEF Written, Absent, User
  <1>4. /\ l \in Locals /\ l.at = "finally" /\ l.task = InTask(w) /\ l.seen = seen
        /\ l.score = worker[w].score /\ l.todo = worker[w].todo /\ l.came_of = worker[w].came_of
    BY <1>2, <1>3 DEF Locals, Stages, InTask
  <1> HIDE DEF l, seen
  <1>5. /\ worker'[w] = l /\ Remaining(w)' = Remaining(w) /\ Remaining(w) = Member(InTask(w))
        /\ l.score = "none" /\ l.came_of \in Reports[backend[InTask(w)]].outcomes \cup {"raised"}
    BY <1>1, <1>2, <1>4 DEF IInv, TypeOK, Remaining, Outcomes, Progress, At
  <1>6. Progress(w)'
    BY <1>4, <1>5 DEF Progress, At, InTask
  <1> QED
    BY <1>1, <1>3, <1>4, <1>5, <1>6, TypesOfFiles, MoveOn

LEMMA GradeInv == ASSUME IInv, NEW w \in Workers, Grade(w) PROVE IInv'
  <1>1. /\ worker[w].at = "grading" /\ scored' = [scored EXCEPT ![InTask(w)] = @ + 1]
        /\ UNCHANGED <<backend, file, backup, holder, next_task, crashes>>
    BY DEF Grade, At
  <1>2. PICK s \in Scores(backend[InTask(w)], worker[w].came_of) :
           Put(w, [worker[w] EXCEPT !.at = "graded", !.todo = <<>>, !.score = s])
    BY DEF Grade
  <1> DEFINE l == [worker[w] EXCEPT !.at = "graded", !.todo = <<>>, !.score = s]
  <1>3. /\ worker[w] \in Locals /\ Progress(w) /\ InTask(w) \in Tasks
        /\ \A f \in worker[w].seen : f[2] \in {0, InTask(w)}
    BY <1>1, InTrial
  <1>4. s \in {"pass", "fail", "infra"}
    BY <1>2 DEF Scores, Verdict
  <1>5. /\ l.at = "graded" /\ l.task = InTask(w) /\ l.turn = worker[w].turn /\ l.seen = worker[w].seen
        /\ l.score = s /\ l.todo = <<>> /\ l.came_of = worker[w].came_of
    BY <1>3 DEF Locals, InTask
  <1>6. l \in Locals
    <2>1. <<>> \in Seq(Paths)
      OBVIOUS
    <2> QED
      BY <2>1, <1>3, <1>4 DEF Locals, Stages
  <1>7. /\ worker' = [worker EXCEPT ![w] = l] /\ l \in Locals /\ l.at = "graded" /\ l.task = InTask(w)
        /\ l.seen = worker[w].seen /\ l.score = s /\ l.todo = <<>> /\ l.came_of = worker[w].came_of
    BY <1>2, <1>5, <1>6 DEF Put
  <1> HIDE DEF l
  <1>8. /\ worker'[w] = l /\ Remaining(w)' = {}
        /\ l.came_of \in Reports[backend[InTask(w)]].outcomes \cup {"raised"}
    BY <1>1, <1>3, <1>7 DEF IInv, TypeOK, Remaining, Outcomes
  <1>9. Progress(w)'
    BY <1>1, <1>3, <1>7, <1>8 DEF Progress, At, InTask, Clean, Original
  <1>10. scored' \in [Tasks -> Nat] /\ \A t \in Tasks : scored'[t] # scored[t] => t = l.task
    BY <1>1, <1>3, <1>7, TypesOfFiles
  <1> QED
    BY <1>1, <1>3, <1>4, <1>7, <1>8, <1>9, <1>10, MoveOn

LEMMA NextTrialInv == ASSUME IInv, NEW w \in Workers, NextTrial(w) PROVE IInv'
  <1> DEFINE l == [Idle EXCEPT !.task = InTask(w), !.at = "restore", !.todo = Listed[InTask(w)]]
  <1>1. /\ worker[w].at = "graded" /\ worker' = [worker EXCEPT ![w] = l]
        /\ UNCHANGED <<backend, file, backup, holder, next_task, scored, crashes>>
    BY DEF NextTrial, At, Put
  <1>2. /\ InTask(w) \in Nat /\ Listed[InTask(w)] \in Seq(Paths)
        /\ Member(InTask(w)) = {Listed[InTask(w)][i] : i \in 1..Len(Listed[InTask(w)])}
    BY <1>1, InTrial
  <1>3. /\ l \in Locals /\ l.at = "restore" /\ l.task = InTask(w) /\ l.seen = {}
        /\ l.score = "none" /\ l.todo = Listed[InTask(w)]
    BY <1>2, IdleFacts DEF Locals, Stages, Idle
  <1> HIDE DEF l
  <1>4. worker'[w] = l /\ Remaining(w)' = Member(InTask(w))
    BY <1>1, <1>2, <1>3 DEF IInv, TypeOK, Remaining
  <1>5. Progress(w)'
    BY <1>3, <1>4 DEF Progress, At, InTask
  <1> QED
    BY <1>1, <1>3, <1>4, <1>5, TypesOfFiles, MoveOn

-----------------------------------------------------------------------------
(* Tasks, locks and crashes.                                                *)

\* A worker is where it was in its trial when its locals and the files are.
LEMMA ProgressKept ==
    ASSUME NEW v \in Workers, Progress(v), worker'[v] = worker[v], UNCHANGED <<file, backup>>
    PROVE  Progress(v)'
  <1>1. Remaining(v)' = Remaining(v) /\ InTask(v)' = InTask(v)
    BY DEF Remaining, InTask
  <1>2. /\ \A st : At(v, st)' <=> At(v, st)
        /\ \A p : (Original(p)' <=> Original(p)) /\ (Clean(p)' <=> Clean(p))
    BY DEF At, Original, Clean
  <1> QED
    BY <1>1, <1>2 DEF Progress

LEMMA TakeTaskInv == ASSUME IInv, NEW w \in Workers, TakeTask(w) PROVE IInv'
  <1> USE DEF IInv
  <1> DEFINE l == [Idle EXCEPT !.task = next_task, !.at = "locking"]
  <1>1. /\ worker[w].at = "idle" /\ next_task <= NumTasks /\ next_task' = next_task + 1
        /\ worker' = [worker EXCEPT ![w] = l]
        /\ UNCHANGED <<backend, file, backup, holder, scored, crashes>>
    BY DEF TakeTask, At, Put
  <1>2. next_task \in Tasks /\ next_task \in Nat
    BY <1>1, SuiteAssumption DEF TypeOK, Tasks
  <1>3. l.task = next_task /\ l.at = "locking" /\ l.seen = {} /\ l.score = "none" /\ l \in Locals
    BY <1>2, IdleFacts DEF Idle, Locals, Stages
  <1> HIDE DEF l
  <1>4. worker'[w] = l /\ \A v \in Workers \ {w} : worker'[v] = worker[v]
    BY <1>1 DEF TypeOK
  <1>5. TypeOK'
    BY <1>1, <1>2, <1>3 DEF TypeOK
  <1>6. BackupsAreUsers' /\ FreeIsClean'
    BY <1>1 DEF BackupsAreUsers, FreeIsClean, Clean, Original
  <1>7. Locks'
    BY <1>1, <1>2, <1>3, <1>4 DEF Locks, InTask
  <1>8. Progress(w)'
    BY <1>3, <1>4 DEF Progress, At
  <1>9. \A v \in Workers \ {w} : Progress(v)'
    BY <1>1, <1>4, ProgressKept DEF Trialwise
  <1>10. Trialwise'
    BY <1>3, <1>4, <1>8, <1>9 DEF Trialwise, InTask
  <1>11. Outcomes'
    BY <1>1, <1>3, <1>4 DEF Outcomes, InTask
  <1> QED
    BY <1>5, <1>6, <1>7, <1>10, <1>11

LEMMA AcquireInv == ASSUME IInv, NEW w \in Workers, Acquire(w) PROVE IInv'
  <1> USE DEF IInv
  <1>1. /\ worker[w].at = "locking"
        /\ UNCHANGED <<backend, file, backup, next_task, worker, scored, crashes>>
    BY DEF Acquire, At
  <1>2. PICK p \in NextLock(w) : holder[p] = 0 /\ holder' = [holder EXCEPT ![p] = w]
    BY DEF Acquire
  <1>3. InTask(w) \in Tasks /\ w \in Nat \ {0}
    BY <1>1, SuiteAssumption DEF Locks, InTask, Workers
  <1>4. p \in Member(InTask(w)) /\ p \in Paths
    BY <1>2, <1>3, ListedFacts DEF NextLock
  <1>5. holder'[p] = w /\ \A q \in Paths \ {p} : holder'[q] = holder[q]
    BY <1>2, <1>4 DEF TypeOK
  <1>6. TypeOK'
    BY <1>1, <1>2, <1>3, <1>4 DEF TypeOK
  <1>7. BackupsAreUsers' /\ Outcomes'
    BY <1>1 DEF BackupsAreUsers, Outcomes, InTask
  <1>8. Locks'
    <2>1. ASSUME NEW v \in Workers, worker[v].at \notin {"idle", "locking"}, NEW q \in Member(InTask(v))
          PROVE  holder'[q] = v
      <3>1. holder[q] = v /\ v # 0 /\ q \in Paths
        BY <2>1, SuiteAssumption, ListedFacts DEF Locks, InTask, Workers
      <3> QED
        BY <3>1, <1>2, <1>5
    <2>2. ASSUME NEW q \in Paths, holder'[q] # 0
          PROVE  /\ holder'[q] \in Workers /\ worker[holder'[q]].at # "idle"
                 /\ q \in Member(InTask(holder'[q]))
      BY <2>2, <1>1, <1>4, <1>5 DEF Locks
    <2> QED
      BY <2>1, <2>2, <1>1 DEF Locks, InTask
  <1>9. Trialwise'
    BY <1>1, ProgressKept DEF Trialwise, InTask
  <1>10. FreeIsClean'
    BY <1>1, <1>3, <1>5 DEF FreeIsClean, Clean, Original
  <1> QED
    BY <1>6, <1>7, <1>8, <1>9, <1>10

LEMMA EndTaskInv == ASSUME IInv, NEW w \in Workers, EndTask(w) PROVE IInv'
  <1> USE DEF IInv
  <1>1. /\ worker[w].at = "graded" /\ worker' = [worker EXCEPT ![w] = Idle]
        /\ holder' = [p \in Paths |-> IF holder[p] = w THEN 0 ELSE holder[p]]
        /\ UNCHANGED <<backend, file, backup, next_task, scored, crashes>>
    BY DEF EndTask, At, Put
  <1>2. /\ worker'[w] = Idle /\ \A v \in Workers \ {w} : worker'[v] = worker[v]
        /\ \A p \in Paths : holder'[p] = IF holder[p] = w THEN 0 ELSE holder[p]
        /\ Idle.at = "idle" /\ Idle.seen = {} /\ Idle.score = "none"
    BY <1>1 DEF TypeOK, Idle
  <1>3. TypeOK'
    BY <1>1, IdleFacts DEF TypeOK
  <1>4. BackupsAreUsers'
    BY <1>1 DEF BackupsAreUsers
  <1>5. Locks'
    <2>1. ASSUME NEW v \in Workers, v # w, worker[v].at \notin {"idle", "locking"},
                 NEW q \in Member(InTask(v))
          PROVE  holder'[q] = v
      <3>1. holder[q] = v /\ q \in Paths
        BY <2>1, ListedFacts DEF Locks, InTask
      <3> QED
        BY <3>1, <2>1, <1>2
    <2>2. ASSUME NEW q \in Paths, holder'[q] # 0
          PROVE  /\ holder'[q] \in Workers /\ holder'[q] # w /\ worker[holder'[q]].at # "idle"
                 /\ q \in Member(InTask(holder'[q]))
      BY <2>2, <1>2 DEF Locks
    <2> QED
      BY <2>1, <2>2, <1>2 DEF Locks, InTask
  <1>6. Progress(w)'
    BY <1>2 DEF Progress, At
  <1>7. \A v \in Workers \ {w} : Progress(v)'
    BY <1>1, <1>2, ProgressKept DEF Trialwise
  <1>8. Trialwise'
    BY <1>2, <1>6, <1>7 DEF Trialwise, InTask
  <1>9. FreeIsClean'
    <2> SUFFICES ASSUME NEW p \in Paths, NEW t \in Tasks, holder'[p] = 0, p \in Member(t), scored[t] > 0
                 PROVE  Clean(p)
      BY <1>1 DEF FreeIsClean, Clean, Original
    <2>1. CASE holder[p] = 0
      BY <2>1 DEF FreeIsClean
    <2>2. CASE holder[p] # 0
      <3>1. holder[p] = w /\ p \in Member(InTask(w))
        BY <2>2, <1>2 DEF Locks
      <3> QED
        BY <3>1, <1>1 DEF Trialwise, Progress, At
    <2> QED
      BY <2>1, <2>2
  <1>10. Outcomes'
    BY <1>1, <1>2 DEF Outcomes, InTask
  <1> QED
    BY <1>3, <1>4, <1>5, <1>8, <1>9, <1>10

\* The process dies: the locks go with it, and no trial counts as scored.
LEMMA CrashInv == ASSUME IInv, Crash PROVE IInv'
  <1> USE DEF IInv, Crash
  <1>1. /\ \A w \in Workers : worker'[w] = Idle
        /\ Idle.at = "idle" /\ Idle.seen = {} /\ Idle.score = "none"
        /\ \A p \in Paths : holder'[p] = 0
        /\ \A t \in Tasks : scored'[t] = 0
    BY DEF Idle
  <1>2. TypeOK'
    BY IdleFacts DEF TypeOK
  <1>3. BackupsAreUsers' /\ Locks' /\ FreeIsClean'
    BY <1>1 DEF BackupsAreUsers, Locks, FreeIsClean
  <1>4. Trialwise' /\ Outcomes'
    BY <1>1 DEF Trialwise, Progress, At, Outcomes
  <1> QED
    BY <1>2, <1>3, <1>4

-----------------------------------------------------------------------------
(* The invariant, and what it gives.                                        *)

LEMMA InitInv == ASSUME Init PROVE IInv
  <1>1. /\ \A w \in Workers : worker[w] = Idle
        /\ Idle.at = "idle" /\ Idle.seen = {} /\ Idle.score = "none"
        /\ \A p \in Paths : holder[p] = 0
        /\ \A t \in Tasks : scored[t] = 0
    BY DEF Init, Idle
  <1>2. /\ backup \in [Paths -> {Absent, User}] /\ file \in [Paths -> Contents]
    <2> DEFINE F(p) == CASE origin[p] = "absent"  -> Absent
                         [] origin[p] = "crashed" -> Fixture(1)
                         [] origin[p] = "user"    -> User
    <2>3. /\ file = [p \in Paths |-> F(p)]
          /\ backup = [p \in Paths |-> IF origin[p] = "crashed" THEN User ELSE Absent]
      BY Zenon DEF Init
    <2>1. ASSUME NEW p \in Paths
          PROVE  F(p) \in {Absent, Fixture(1), User}
      <3>1. origin[p] \in {"absent", "crashed", "user"}
        BY SuiteAssumption DEF Init
      <3>4. CASE origin[p] = "absent"
        BY <3>4, Zenon
      <3>5. CASE origin[p] = "crashed"
        BY <3>5, Zenon
      <3>6. CASE origin[p] = "user"
        BY <3>6, Zenon
      <3> QED
        BY <3>1, <3>4, <3>5, <3>6
    <2>2. {Absent, Fixture(1), User} \subseteq Contents
      BY DEF Contents
    <2> HIDE DEF F
    <2> QED
      BY <2>1, <2>2, <2>3
  <1>3. TypeOK
    <2>1. /\ backend \in Suites /\ holder = [p \in Paths |-> 0] /\ next_task = 1
          /\ worker = [w \in Workers |-> Idle] /\ scored = [t \in Tasks |-> 0] /\ crashes = 0
      BY Zenon DEF Init
    <2>2. {Absent, User} \subseteq Contents
      BY DEF Contents
    <2> QED
      BY <2>1, <2>2, <1>2, IdleFacts DEF TypeOK
  <1>4. BackupsAreUsers /\ Locks /\ FreeIsClean
    BY <1>1, <1>2 DEF BackupsAreUsers, Locks, FreeIsClean
  <1>5. Trialwise /\ Outcomes
    BY <1>1 DEF Trialwise, Progress, At, Outcomes
  <1> QED
    BY <1>3, <1>4, <1>5 DEF IInv

LEMMA StepInv == ASSUME IInv, [Next]_vars PROVE IInv'
  <1>1. CASE Crash
    BY <1>1, CrashInv
  <1>2. ASSUME NEW w \in Workers, RestoreFirst(w) PROVE IInv'
    BY <1>2, RestoreInv DEF RestoreFirst
  <1>3. ASSUME NEW w \in Workers, RestoreLast(w) PROVE IInv'
    BY <1>3, RestoreInv DEF RestoreLast
  <1>4. ASSUME NEW w \in Workers, Step(w) \/ SubjectWrites(w) PROVE IInv'
    BY <1>2, <1>3, <1>4, TakeTaskInv, AcquireInv, StartTaskInv, TakeBackupsInv, InstallInv,
       InstallRaisesInv, SubjectWritesInv, SubjectGoesOnInv, SubjectReturnsInv, CaptureInv, GradeInv,
       NextTrialInv, EndTaskInv DEF Step
  <1>5. CASE UNCHANGED vars
    <2>1. UNCHANGED <<backend, file, backup, holder, next_task, worker, scored, crashes>>
      BY <1>5 DEF vars
    <2>2. TypeOK' /\ BackupsAreUsers' /\ FreeIsClean'
      BY <2>1 DEF IInv, TypeOK, BackupsAreUsers, FreeIsClean, Clean, Original
    <2>3. Locks' /\ Outcomes'
      BY <2>1 DEF IInv, Locks, Outcomes, InTask
    <2>4. Trialwise'
      BY <2>1, ProgressKept DEF IInv, Trialwise, InTask
    <2> QED
      BY <2>2, <2>3, <2>4 DEF IInv
  <1> QED
    BY <1>1, <1>4, <1>5 DEF Next

\* The invariant holds in every state of every suite run: who holds which
\* fixture locks (_run_task_locked), and how far each trial has got with the
\* files of its task (run_trial).
THEOREM TrialsInvariant == Spec => []IInv
  <1>1. Init => IInv
    BY InitInv
  <1>2. IInv /\ [Next]_vars => IInv'
    BY StepInv
  <1> QED
    BY <1>1, <1>2, PTL DEF Spec

\* Trials are isolated for every suite and every interleaving of its workers:
\* a subject finds its own fixtures, and what is captured is its own, even
\* after runs that died half way (run_trial, _run_task_locked).
THEOREM TrialsIsolated == Spec => []Isolation
  <1>1. IInv => Isolation
    BY DEF IInv, Trialwise, Progress, At, Fresh, Isolation, InTask
  <1> QED
    BY <1>1, TrialsInvariant, PTL

\* A scored task leaves nothing of its own behind: neither fixture nor write
\* nor backup, however its neighbours took turns and runs before it died.
THEOREM TasksLeaveNothing == Spec => []NothingLeft
  <1>1. IInv => NothingLeft
    <2> SUFFICES ASSUME IInv, NEW t \in Tasks, NEW p \in Member(t), scored[t] = Trials, holder[p] = 0
                 PROVE  file[p] \in {Absent, User} /\ backup[p] = Absent
      BY DEF NothingLeft
    <2>1. p \in Paths /\ scored[t] > 0
      BY ListedFacts, SuiteAssumption
    <2> QED
      BY <2>1 DEF IInv, FreeIsClean, Clean, Original
  <1> QED
    BY <1>1, TrialsInvariant, PTL

=============================================================================
