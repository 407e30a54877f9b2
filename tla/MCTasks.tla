------------------------------ MODULE MCTasks ------------------------------
(***************************************************************************)
(* Small instances of Tasks for TLC.                                       *)
(***************************************************************************)
EXTENDS Tasks, TLC

\* Words have no order and no value: they can be exchanged.
Symmetric == Permutations(Words)
=============================================================================
