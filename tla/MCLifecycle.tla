----------------------------- MODULE MCLifecycle -----------------------------
(* The ways of running the service that TLC tries.                          *)
EXTENDS TaskLifecycle

\* One process with the in-memory store, whose clients resume at any time.
Memory == [shared |-> FALSE, patient |-> FALSE, mortal |-> FALSE]

\* Workers on one SQLite file, which may die, with clients that wait for run.
Workers == [shared |-> TRUE, patient |-> TRUE, mortal |-> TRUE]

\* The same without crashes, with clients that do not wait.
Hurried == [shared |-> TRUE, patient |-> FALSE, mortal |-> FALSE]

OneProcess == {Memory}
BothStores == {Memory, Workers}
HurriedWorkers == {Hurried}
=============================================================================
