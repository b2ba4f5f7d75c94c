---------------------------- MODULE MCEvalArchive ----------------------------
(* The archive for TLC: neither the tasks nor the processes have an order.  *)
EXTENDS EvalArchive, TLC

Symmetry == Permutations(Tasks) \cup Permutations(Procs)
=============================================================================
