-------------------------- MODULE MCControlStore --------------------------
(***************************************************************************)
(* Small instances of ControlStore for TLC.  One unit of the clock is the  *)
(* stale threshold; a lease lives three of them (300 s against a           *)
(* task_stale_seconds of 100 s) and a requeued task is due at once.  In    *)
(* MCSchedules the unit is half the life of a lease, in which a silent     *)
(* task goes stale.                                                        *)
(***************************************************************************)
EXTENDS ControlStoreRefinement, TLC

CONSTANTS s1, s2, n1, n2, k1, k2, k3, r1, r2, web

\* Every cron expression here fires at the even instants.
MCCronNext == [c \in Crons |-> [t \in Instants |-> 2 * (t \div 2 + 1)]]
MCSpread == [s \in Sources |-> 1]
MCServes == [n \in Nodes |-> {web}]

Symmetry == Permutations(Nodes) \cup Permutations(ManualKeys)

MCSpec(enabled, type, value, res) ==
    [enabled |-> enabled, schedule |-> [type |-> type, value |-> value],
     priority |-> 20, max_attempts |-> 2, slot_cost |-> 1,
     resources |-> res, needs |-> web, backfill_enabled |-> FALSE]

Nothing == [k \in {} |-> 1]
ByHand(res) == MCSpec(FALSE, "interval", 1, res)

\* s1 recurs, or is switched off, or is dropped; s2 is a single run.  An
\* interval shares r1, of capacity one, with it, a cron r2, of two.
Every    == MCSpec(TRUE, "interval", 1, r1 :> 1)
Cron     == MCSpec(TRUE, "cron", "even", r2 :> 2)
Disabled == ByHand(Nothing)
Once     == MCSpec(TRUE, "once", 1, r1 :> 1 @@ r2 :> 2)
ScheduleSpecs == {Every, Cron, Disabled, Once}
ScheduleConfigs ==
    {[s \in {s1, s2} |-> IF s = s1 THEN p ELSE Once] : p \in {Every, Cron}}
    \cup {[s \in {s1} |-> Disabled], [s \in {s2} |-> Once]}

\* The operator turns a single run into a recurring one.
EditSpecs == {Once, Every}
EditConfigs == {[s \in {s1} |-> p] : p \in EditSpecs}

Archive_ == [ByHand(Nothing) EXCEPT !.backfill_enabled = TRUE]
BackfillSpecs == {Archive_}
BackfillConfigs == {[s \in {s1} |-> Archive_]}

Narrow == ByHand(r1 :> 1)
NarrowSpecs == {Narrow}
NarrowConfigs == {[s \in {s1} |-> Narrow]}
=============================================================================
