----------------------------- MODULE MCEvalTrials -----------------------------
(***************************************************************************)
(* Tasks that share paths, listed in opposite orders.                      *)
(***************************************************************************)
EXTENDS EvalTrials

TwoOrders     == <<<<1, 2>>, <<2, 1>>, <<3>>>>
SomeInstalled == <<{1}, {2}, {}>>
SomeEmptied   == <<{}, {}, {3}>>
TwoSuites     == {<<"gateway", "react", "claude">>, <<"cli", "execplan", "chat">>}
OneSuite      == {<<"cli">>}
===============================================================================
