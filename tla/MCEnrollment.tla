---------------------------- MODULE MCEnrollment ----------------------------
(***************************************************************************)
(* Two containers that are given the same node id, for Enrollment.         *)
(***************************************************************************)
EXTENDS Enrollment

CONSTANTS n1, p1, p2, t1

MCNodeOf == [p \in Processes |-> n1]
=============================================================================
