------------------------------ MODULE MCWorker ------------------------------
(***************************************************************************)
(* Small instances of Worker for TLC: two or three tasks, and a node of two slots.  *)
(***************************************************************************)
EXTENDS Worker, TLC

EqualCost == [t \in TaskIds |-> 1]
\* The third task takes the whole node.
UnequalCost == [t \in TaskIds |-> IF t = 3 THEN 2 ELSE 1]
=============================================================================
