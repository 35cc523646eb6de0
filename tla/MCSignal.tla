------------------------------ MODULE MCSignal ------------------------------
(***************************************************************************)
(* Small routings for Signal: every worker runs every task, or one of the  *)
(* tasks needs the first worker.                                           *)
(***************************************************************************)
EXTENDS Signal

CONSTANTS t1, t2, w1, w2

MCRoutings == {[w \in Waiters |-> Tasks],
               [w \in Waiters |-> IF w = w1 THEN Tasks ELSE Tasks \ {t1}]}
=============================================================================
