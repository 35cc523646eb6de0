----------------------- MODULE ControlStoreRefinement -----------------------
(***************************************************************************)
(* ControlStore implements LeaseProtocol.  A task's phase is read off its  *)
(* row or its run, its claims off the envelopes handed out.                *)
(***************************************************************************)
EXTENDS ControlStoreProperties

RunsOf(t) == {k \in DOMAIN task_runs : task_runs[k].task_id = t}

PhaseOf(t) ==
    IF t \in DOMAIN tasks
    THEN IF tasks[t].status = "running" THEN "leased" ELSE "waiting"
    ELSE IF t > task_seq THEN "unknown"
    ELSE IF RunsOf(t) # {} THEN "ended" ELSE "withdrawn"

ClaimsOf(t) == Cardinality({g \in grants : g.task = t})

\* The token of the report that history holds for task t.
EndedBy(t) == IF RunsOf(t) = {} THEN 0
              ELSE task_runs[CHOOSE k \in RunsOf(t) : TRUE].result

Leasing == INSTANCE LeaseProtocol WITH
    TaskIds  <- 1..MaxTasks,
    phase    <- [t \in 1..MaxTasks |-> PhaseOf(t)],
    claims   <- [t \in 1..MaxTasks |-> ClaimsOf(t)],
    ended_by <- [t \in 1..MaxTasks |-> EndedBy(t)]

\* Every transaction of the store is a step of the lease protocol or leaves
\* every task where it is: at-least-once execution under one lease at a time,
\* ended by its last holder, as docs/architecture.md describes it.
ImplementsLeaseProtocol == Leasing!Protocol
=============================================================================
