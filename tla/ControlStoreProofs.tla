------------------------ MODULE ControlStoreProofs ------------------------
(***************************************************************************)
(* Proofs about ControlStore, for every value of its constants: its rows   *)
(* are well-formed, an idempotency key names one task, history is written  *)
(* by the last claim of a task, resource leases belong to the execution    *)
(* that now has the task, and the store implements LeaseProtocol.          *)
(***************************************************************************)
EXTENDS ControlStoreRefinement, FiniteSetTheorems, TLAPS

-----------------------------------------------------------------------------
(* What the helpers of the transactions return *)

\* A following run is an instant or None, at every instant the controller
\* asks for one.
LEMMA NextRunType ==
    ASSUME NEW p \in Specs, NEW after \in Instants
    PROVE  NextRun(p.schedule, after) \in Optional(Int)
<1>1. CASE p.schedule.type = "interval"
  BY <1>1, SpecsAssumption, BoundsAssumption DEF NextRun, Instants, Optional
<1>2. CASE p.schedule.type = "cron"
  BY <1>2, SpecsAssumption, ScheduleAssumption DEF NextRun, Optional
<1>3. CASE p.schedule.type = "once"
  BY <1>3, SpecsAssumption DEF NextRun, Optional
<1>4. QED BY <1>1, <1>2, <1>3, SpecsAssumption

\* The clock of the controller stays among the instants croniter is asked for.
LEMMA ControllerNowType ==
    ASSUME ClockTypes
    PROVE  /\ ControllerNow \in Instants /\ ControllerNow \in Int
           /\ ControllerNow - LookBack \in Instants
BY BoundsAssumption DEF ClockTypes, ControllerNow, Instants

\* The upsert of reconcile_sources leaves a well-formed schedule row.
LEMMA ReconciledScheduleType ==
    ASSUME ClockTypes, SourceTypes, NEW s \in Sources, NEW p \in Specs
    PROVE  ReconciledSchedule(s, p) \in
               [enabled: BOOLEAN, next_run_at: Optional(Int),
                active_task_id: Optional(1..MaxTasks)]
<1>1. FirstRun(s, p.schedule) \in Optional(Int)
  BY NextRunType, ControllerNowType, ScheduleAssumption DEF FirstRun, Optional
<1>2. p.enabled \in BOOLEAN
  BY SpecsAssumption
<1>3. CASE s \in DOMAIN schedules
  BY <1>1, <1>2, <1>3 DEF SourceTypes, ReconciledSchedule, Coalesce, Optional
<1>4. CASE s \notin DOMAIN schedules
  BY <1>1, <1>2, <1>4 DEF SourceTypes, ReconciledSchedule, Coalesce, Optional
<1>5. QED BY <1>3, <1>4

\* Inserting n well-formed rows keeps the tasks table well-formed.
LEMMA InsertTasksType ==
    ASSUME TaskTypes, NEW n \in Nat, NEW rows \in [1..n -> Tasks],
           InsertTasks(n, rows)
    PROVE  TaskTypes'
<1>1. task_seq' \in 0..MaxTasks /\ DOMAIN tasks' \subseteq 1..task_seq'
  BY BoundsAssumption DEF TaskTypes, InsertTasks
<1>2. ASSUME NEW t \in DOMAIN tasks' PROVE tasks'[t] \in Tasks
  <2>1. CASE t \in DOMAIN tasks BY <2>1 DEF TaskTypes, InsertTasks
  <2>2. CASE t \notin DOMAIN tasks
    <3>1. t - task_seq \in 1..n BY <1>2, <2>2 DEF TaskTypes, InsertTasks
    <3>2. tasks'[t] = rows[t - task_seq] BY <1>2, <2>2 DEF InsertTasks
    <3>3. QED BY <3>1, <3>2
  <2>3. QED BY <2>1, <2>2
<1>3. QED BY <1>1, <1>2 DEF TaskTypes

\* A new row is well-formed when its key and its owner are.
LEMMA NewTaskType ==
    ASSUME SourceTypes, NEW s \in DOMAIN sources, NEW key \in Keys,
           NEW workload \in {"scheduled", "manual", "backfill"},
           NEW schedule \in Optional(Sources),
           NEW batch \in Optional(1..MaxBatches), NEW due \in Int
    PROVE  NewTask(key, s, workload, schedule, batch, due) \in Tasks
BY DEF SourceTypes, NewTask, Tasks, Optional

\* A task put back is well-formed, by fail_task or by maintenance.
LEMMA ReleasedType ==
    ASSUME TaskTypes, NEW t \in DOMAIN tasks, NEW delay \in Nat, now \in Nat
    PROVE  Released(t, delay) \in Tasks
<1>1. tasks[t] \in Tasks /\ now + delay \in Int
  BY DEF TaskTypes
<1>2. QED BY <1>1 DEF Released, Tasks, Optional

LEMMA LeaseTtlType == LeaseTtl \in Nat
BY BoundsAssumption DEF LeaseTtl

-----------------------------------------------------------------------------
(* Every transaction keeps the rows well-formed *)

LEMMA ReconcileTypes ==
    ASSUME TypeOK, NEW config \in Configs, ReconcileSources(config)
    PROVE  TypeOK'
<1> USE DEF TypeOK
<1>1. DOMAIN config \subseteq Sources /\ \A s \in DOMAIN config : config[s] \in Specs
  BY ConfigsAssumption
<1>2. /\ DOMAIN sources' = DOMAIN sources \cup DOMAIN config
      /\ DOMAIN schedules' = DOMAIN sources \cup DOMAIN config
  BY DEF ReconcileSources
<1>3. ASSUME NEW s \in DOMAIN sources'
      PROVE  sources'[s] \in [enabled: BOOLEAN, spec: Specs]
  BY <1>1, <1>2, SpecsAssumption DEF SourceTypes, ReconcileSources
<1>4. ASSUME NEW s \in DOMAIN schedules'
      PROVE  schedules'[s] \in
                 [enabled: BOOLEAN, next_run_at: Optional(Int),
                  active_task_id: Optional(1..MaxTasks)]
  <2>1. CASE s \in DOMAIN config
    <3>1. schedules'[s] = ReconciledSchedule(s, config[s])
      BY <1>2, <2>1 DEF ReconcileSources
    <3>2. QED BY <1>1, <2>1, <3>1, ReconciledScheduleType
  <2>2. CASE s \notin DOMAIN config
    <3>1. /\ s \in DOMAIN schedules
          /\ schedules'[s] = [schedules[s] EXCEPT !.enabled = FALSE,
                                                  !.next_run_at = NULL]
      BY <1>2, <2>2 DEF ReconcileSources, SourceTypes
    <3>2. QED BY <3>1 DEF SourceTypes, Optional
  <2>3. QED BY <2>1, <2>2
<1>5. SourceTypes'
  BY <1>1, <1>2, <1>3, <1>4 DEF SourceTypes
<1>6. QED
  BY <1>5 DEF ReconcileSources, batchVars, taskVars, ClockTypes, BatchTypes,
              TaskTypes, HistoryTypes, WorkerTypes

LEMMA RegisterDueTypes ==
    ASSUME TypeOK, RegisterDueSchedules
    PROVE  TypeOK'
<1> USE DEF TypeOK
<1> DEFINE due(s) == schedules[s].next_run_at
           fresh == {s \in DueSchedules : ScheduleKey(s, due(s)) \notin UsedKeys}
<1> DEFINE Registers(n, source_of) ==
             /\ InsertTasks(n, [i \in 1..n |->
                    LET s == source_of[i]
                    IN  NewTask(ScheduleKey(s, due(s)), s, "scheduled", s, NULL,
                                due(s))])
             /\ schedules' = [s \in DOMAIN schedules |->
                    IF s \in fresh
                    THEN [enabled |-> TRUE, next_run_at |-> NULL,
                          active_task_id |->
                              task_seq + CHOOSE i \in 1..n : source_of[i] = s]
                    ELSE schedules[s]]
             /\ UNCHANGED <<now, sources, workers, last_maintenance, batchVars>>
<1>0. PICK n \in 1..MaxTasks :
          \E source_of \in Bijection(1..n, fresh) : Registers(n, source_of)
  BY Zenon DEF RegisterDueSchedules
<1>1. PICK source_of \in Bijection(1..n, fresh) : Registers(n, source_of)
  BY <1>0
<1>2. /\ source_of \in [1..n -> fresh]
      /\ \A s \in fresh : \E i \in 1..n : source_of[i] = s
  BY <1>1 DEF Bijection, Injection, Surjection
<1>3. ASSUME NEW s \in fresh
      PROVE  /\ s \in DOMAIN sources /\ s \in Sources
             /\ due(s) \in Int /\ ScheduleKey(s, due(s)) \in Keys
  BY DEF SourceTypes, DueSchedules, Optional, ScheduleKey, Keys
<1>4. [i \in 1..n |-> LET s == source_of[i]
                      IN  NewTask(ScheduleKey(s, due(s)), s, "scheduled", s,
                                  NULL, due(s))] \in [1..n -> Tasks]
  <2>1. ASSUME NEW i \in 1..n
        PROVE  NewTask(ScheduleKey(source_of[i], due(source_of[i])),
                       source_of[i], "scheduled", source_of[i], NULL,
                       due(source_of[i])) \in Tasks
    <3>1. source_of[i] \in fresh BY <1>2
    <3>2. QED BY <1>3, <3>1, NewTaskType DEF Optional
  <2>2. QED BY <2>1
<1>5. n \in Nat /\ task_seq + n <= MaxTasks
  BY <1>1, BoundsAssumption DEF InsertTasks
<1>6. TaskTypes'
  BY <1>1, <1>4, <1>5, InsertTasksType
<1>7. ASSUME NEW s \in DOMAIN schedules'
      PROVE  schedules'[s] \in
                 [enabled: BOOLEAN, next_run_at: Optional(Int),
                  active_task_id: Optional(1..MaxTasks)]
  <2>1. CASE s \in fresh
    <3>1. (CHOOSE i \in 1..n : source_of[i] = s) \in 1..n
      BY <1>2, <2>1
    <3>2. task_seq + (CHOOSE i \in 1..n : source_of[i] = s) \in 1..MaxTasks
      BY <1>5, <3>1, BoundsAssumption DEF TaskTypes
    <3>3. QED BY <1>1, <1>7, <2>1, <3>2 DEF Optional
  <2>2. CASE s \notin fresh
    BY <1>1, <1>7, <2>2 DEF SourceTypes
  <2>3. QED BY <2>1, <2>2
<1>8. SourceTypes'
  BY <1>1, <1>7 DEF SourceTypes
<1>9. QED
  BY <1>1, <1>6, <1>8 DEF InsertTasks, batchVars, ClockTypes, BatchTypes,
                          HistoryTypes, WorkerTypes

LEMMA RegisterManualTypes ==
    ASSUME TypeOK, NEW s \in Sources, NEW k \in ManualKeys, RegisterManual(s, k)
    PROVE  TypeOK'
<1> USE DEF TypeOK
<1>1. ManualKey(k) \in Keys /\ ControllerNow \in Int
  BY ControllerNowType DEF ManualKey, Keys
<1>2. NewTask(ManualKey(k), s, "manual", NULL, NULL, ControllerNow) \in Tasks
  BY <1>1, NewTaskType DEF RegisterManual, Optional
<1>3. [i \in {1} |-> NewTask(ManualKey(k), s, "manual", NULL, NULL,
                             ControllerNow)] \in [1..1 -> Tasks]
  BY <1>2
<1>4. TaskTypes'
  BY <1>3, InsertTasksType DEF RegisterManual
<1>5. QED
  BY <1>4 DEF RegisterManual, InsertTasks, batchVars, ClockTypes, SourceTypes,
              BatchTypes, HistoryTypes, WorkerTypes

LEMMA CreateBackfillTypes ==
    ASSUME TypeOK, NEW s \in Sources, NEW n \in 1..MaxWindows,
           CreateBackfill(s, n)
    PROVE  TypeOK'
<1> USE DEF TypeOK
<1> DEFINE b == batch_seq + 1
<1>1. b \in 1..MaxBatches /\ n \in Nat
  BY BoundsAssumption DEF CreateBackfill, BatchTypes
<1>2. ASSUME NEW w \in 1..n
      PROVE  NewTask(BackfillKey(b, w), s, "backfill", NULL, b, ControllerNow)
                 \in Tasks
  <2>1. BackfillKey(b, w) \in Keys
    BY <1>1, BoundsAssumption DEF BackfillKey, Keys
  <2>2. QED
    BY <1>1, <2>1, ControllerNowType, NewTaskType DEF CreateBackfill, Optional
<1>3. TaskTypes'
  BY <1>1, <1>2, InsertTasksType DEF CreateBackfill
<1>4. BatchTypes'
  <2>1. DOMAIN task_batches' = 1..batch_seq' /\ batch_seq' \in 0..MaxBatches
    BY <1>1 DEF CreateBackfill, BatchTypes
  <2>2. ASSUME NEW i \in DOMAIN task_batches'
        PROVE  task_batches'[i] \in Batches
    BY <1>1 DEF CreateBackfill, BatchTypes, Batches, Optional
  <2>3. QED BY <2>1, <2>2 DEF BatchTypes
<1>5. QED
  BY <1>3, <1>4 DEF CreateBackfill, InsertTasks, ClockTypes, SourceTypes,
                    HistoryTypes, WorkerTypes

LEMMA SetBackfillStateTypes ==
    ASSUME TypeOK, NEW b \in DOMAIN task_batches,
           NEW action \in DOMAIN BackfillState, SetBackfillState(b, action)
    PROVE  TypeOK'
<1> USE DEF TypeOK
<1>1. BackfillState[action] \in {"paused", "running", "cancelled"}
  BY DEF BackfillState
<1>2. BatchTypes'
  <2>1. /\ DOMAIN task_batches' = DOMAIN task_batches
        /\ batch_seq' = batch_seq
    BY DEF SetBackfillState
  <2>2. ASSUME NEW i \in DOMAIN task_batches
        PROVE  task_batches'[i] \in Batches
    <3>1. task_batches[i] \in Batches /\ now \in Nat
      BY BoundsAssumption DEF BatchTypes, ClockTypes
    <3>2. QED
      BY <1>1, <3>1 DEF SetBackfillState, Batches, Optional
  <2>3. QED BY <2>1, <2>2 DEF BatchTypes
<1>3. TaskTypes'
  BY DEF SetBackfillState, TaskTypes
<1>4. QED
  BY <1>2, <1>3 DEF SetBackfillState, ClockTypes, SourceTypes, HistoryTypes,
                    WorkerTypes

LEMMA ClaimTypes ==
    ASSUME TypeOK, NEW n \in Nodes, NEW ts \in SUBSET DOMAIN tasks,
           NEW slot_of \in [Requires(ts) -> 1..MaxCapacity],
           ClaimTasks(n, ts, slot_of)
    PROVE  TypeOK'
<1> USE DEF TypeOK
<1>0. tasks' = Claimed(n, ts)
  BY DEF ClaimTasks
<1>1. ASSUME NEW t \in DOMAIN tasks'
      PROVE  tasks'[t] \in Tasks
  <2>1. /\ tasks[t] \in Tasks /\ now \in Nat
        /\ tasks[t].attempts + 1 \in Nat
    <3>1. t \in DOMAIN tasks /\ tasks[t] \in Tasks
      BY <1>0, <1>1 DEF Claimed, TaskTypes
    <3>2. QED BY <3>1, BoundsAssumption DEF ClockTypes, Tasks
  <2>2. tasks'[t] = IF t \in ts
                    THEN [tasks[t] EXCEPT !.status = "running",
                            !.attempts = tasks[t].attempts + 1,
                            !.locked_by = n, !.heartbeat_at = now,
                            !.lease_token = tasks[t].attempts + 1]
                    ELSE tasks[t]
    BY <1>0, <1>1 DEF Claimed
  <2>3. CASE t \in ts
    <3>1. PICK a \in Nat :
              tasks'[t] = [tasks[t] EXCEPT !.status = "running",
                             !.attempts = a, !.locked_by = n,
                             !.heartbeat_at = now, !.lease_token = a]
      BY <2>1, <2>2, <2>3
    <3>2. QED BY <2>1, <3>1 DEF Tasks, Optional
  <2>4. CASE t \notin ts
    BY <2>1, <2>2, <2>4
  <2>5. QED BY <2>3, <2>4
<1>2. DOMAIN tasks' = DOMAIN tasks
  BY <1>0 DEF Claimed
<1>3. TaskTypes'
  BY <1>1, <1>2 DEF TaskTypes, ClaimTasks
<1>4. ASSUME NEW p \in Requires(ts)
      PROVE  [resource_key |-> p[2], slot |-> slot_of[p], task_id |-> p[1],
              lease_token |-> tasks[p[1]].attempts + 1, worker_id |-> n,
              expires_at |-> now + LeaseTtl] \in Leases
  <2>1. p[1] \in DOMAIN tasks /\ p[2] \in Resources /\ slot_of[p] \in 1..MaxCapacity
    BY DEF Requires
  <2>2. p[1] \in 1..MaxTasks /\ tasks[p[1]].attempts \in Nat
    BY <2>1, BoundsAssumption DEF TaskTypes, Tasks
  <2>3. now + LeaseTtl \in Nat
    BY LeaseTtlType DEF ClockTypes
  <2>4. QED BY <2>1, <2>2, <2>3 DEF Leases
<1>5. resource_leases' \subseteq Leases
  BY <1>4 DEF ClaimTasks, Unexpired, WorkerTypes
<1>6. grants' \subseteq [task: 1..MaxTasks, token: Nat \ {0}, node: Nodes,
                         instance: Nat \ {0}]
  <2>1. ASSUME NEW t \in ts
        PROVE  /\ t \in 1..MaxTasks /\ tasks[t].attempts + 1 \in Nat \ {0}
               /\ workers[n].instance_id \in Nat \ {0}
    BY BoundsAssumption DEF TaskTypes, Tasks, WorkerTypes
  <2>2. QED BY <2>1 DEF ClaimTasks, WorkerTypes
<1>7. QED
  BY <1>3, <1>5, <1>6 DEF ClaimTasks, batchVars, ClockTypes, SourceTypes,
                          BatchTypes, HistoryTypes, WorkerTypes

LEMMA HeartbeatTypes ==
    ASSUME TypeOK, NEW n \in Nodes, NEW running \in SUBSET grants,
           Heartbeat(n, running)
    PROVE  TypeOK'
<1> USE DEF TypeOK
<1>1. ASSUME NEW t \in DOMAIN tasks'
      PROVE  t \in DOMAIN tasks /\ tasks'[t] \in Tasks
  BY DEF Heartbeat, TaskTypes, Tasks, Optional, ClockTypes
<1>2. TaskTypes'
  BY <1>1 DEF TaskTypes, Heartbeat
<1>3. resource_leases' \subseteq Leases
  BY LeaseTtlType DEF Heartbeat, WorkerTypes, Leases, ClockTypes
<1>4. QED
  BY <1>2, <1>3 DEF Heartbeat, batchVars, ClockTypes, SourceTypes, BatchTypes,
                    HistoryTypes, WorkerTypes

\* What complete_task and a final fail_task do to the six tables.
LEMMA RetireTypes ==
    ASSUME TypeOK, NEW t \in DOMAIN tasks,
           NEW final \in {"succeeded", "partial", "dead"}, NEW report \in Nat,
           tasks[t].lease_token \in Nat, Retire(t, final, report)
    PROVE  TypeOK'
<1> USE DEF TypeOK
<1>1. tasks[t] \in Tasks /\ t \in 1..MaxTasks
  BY BoundsAssumption DEF TaskTypes
<1>2. HistoryTypes'
  <2>1. tasks[t].dedupe_key \in Keys
    BY <1>1 DEF Tasks
  <2>2. [task_id |-> t, batch_id |-> tasks[t].batch_id,
         final_status |-> final, attempts |-> tasks[t].attempts,
         lease_token |-> tasks[t].lease_token, result |-> report] \in Runs
    BY <1>1 DEF Tasks, Runs
  <2>3. QED
    BY <2>1, <2>2 DEF Retire, Archive, HistoryTypes
<1>3. SourceTypes'
  <2>1. NextRun(tasks[t].snapshot.schedule, ControllerNow) \in Optional(Int)
    BY <1>1, NextRunType, ControllerNowType DEF Tasks
  <2>2. QED
    BY <1>1, <2>1 DEF Retire, FinishSchedule, SourceTypes, Optional
<1>4. BatchTypes'
  <2>1. CASE tasks[t].batch_id = NULL
    BY <2>1 DEF Retire, FinishBatch, BatchTypes
  <2>2. CASE tasks[t].batch_id # NULL
    <3> DEFINE b == tasks[t].batch_id
    <3>1. /\ DOMAIN task_batches' = DOMAIN task_batches
          /\ batch_seq' = batch_seq
      BY <2>2 DEF Retire, FinishBatch
    <3>2. ASSUME NEW i \in DOMAIN task_batches
          PROVE  task_batches'[i] \in Batches
      <4>1. CASE i # b
        BY <2>2, <4>1 DEF Retire, FinishBatch, BatchTypes
      <4>2. CASE i = b
        <5>1. task_batches[b] \in Batches /\ now \in Nat
          BY <4>2, BoundsAssumption DEF BatchTypes, ClockTypes
        <5>2. QED
          BY <2>2, <4>2, <5>1 DEF Retire, FinishBatch, Batches, Optional
      <4>3. QED BY <4>1, <4>2
    <3>3. QED BY <3>1, <3>2 DEF BatchTypes
  <2>3. QED BY <2>1, <2>2
<1>5. TaskTypes'
  BY DEF Retire, TaskTypes
<1>6. WorkerTypes'
  BY DEF Retire, LeasesWithout, WorkerTypes
<1>7. QED
  BY <1>2, <1>3, <1>4, <1>5, <1>6 DEF Retire, ClockTypes

\* The holder of a lease is a task, and its token is a token.
LEMMA HolderType ==
    ASSUME TypeOK, NEW g \in grants, HoldsLease(g)
    PROVE  /\ g.task \in DOMAIN tasks /\ g.token \in Nat
           /\ tasks[g.task].lease_token \in Nat
BY DEF TypeOK, WorkerTypes, HoldsLease

LEMMA CompleteTypes ==
    ASSUME TypeOK, NEW g \in grants, NEW status \in {"succeeded", "partial"},
           CompleteTask(g, status)
    PROVE  TypeOK'
BY HolderType, RetireTypes DEF CompleteTask

LEMMA FailTypes ==
    ASSUME TypeOK, NEW g \in grants, NEW retryable \in BOOLEAN,
           NEW delay \in RetryDelays, FailTask(g, retryable, delay)
    PROVE  TypeOK'
<1> DEFINE again == /\ retryable
                    /\ tasks[g.task].attempts
                           < tasks[g.task].snapshot.max_attempts
<1>1. g.task \in DOMAIN tasks /\ g.token \in Nat
      /\ tasks[g.task].lease_token \in Nat
  BY HolderType DEF FailTask
<1>2. CASE again
  <2>1. Released(g.task, delay) \in Tasks
    BY <1>1, ReleasedType, BoundsAssumption DEF TypeOK, ClockTypes
  <2>2. TaskTypes'
    BY <1>1, <1>2, <2>1 DEF FailTask, TypeOK, TaskTypes
  <2>3. QED
    BY <1>2, <2>2 DEF FailTask, LeasesWithout, batchVars, TypeOK, ClockTypes,
                      SourceTypes, BatchTypes, HistoryTypes, WorkerTypes
<1>3. CASE ~again
  BY <1>1, <1>3, RetireTypes DEF FailTask
<1>4. QED BY <1>2, <1>3

LEMMA MaintenanceTypes ==
    ASSUME TypeOK, Maintenance
    PROVE  TypeOK'
<1> USE DEF TypeOK
<1>1. ASSUME NEW t \in DOMAIN tasks
      PROVE  tasks'[t] \in Tasks
  BY ReleasedType, BoundsAssumption DEF Maintenance, TaskTypes, ClockTypes
<1>2. TaskTypes'
  BY <1>1 DEF Maintenance, TaskTypes
<1>3. QED
  BY <1>2 DEF Maintenance, Unexpired, batchVars, ClockTypes, SourceTypes,
              BatchTypes, HistoryTypes, WorkerTypes

\* Operators, enrolments and the passing of time leave the tables alone.
LEMMA OtherTypes ==
    ASSUME TypeOK, Tick \/ (\E n \in Nodes, state \in DesiredStates :
                                SetWorkerState(n, state))
                        \/ (\E n \in Nodes, mode \in Modes :
                                EnrollWorker(n, mode))
    PROVE  TypeOK'
<1> USE DEF TypeOK, batchVars, taskVars
<1>1. ClockTypes'
  BY BoundsAssumption DEF ClockTypes, Tick, SetWorkerState, EnrollWorker
<1>2. WorkerTypes'
  BY BoundsAssumption DEF WorkerTypes, Tick, SetWorkerState, EnrollWorker
<1>3. QED
  BY <1>1, <1>2 DEF Tick, SetWorkerState, EnrollWorker, SourceTypes,
                    BatchTypes, TaskTypes, HistoryTypes

LEMMA TypesPreserved == TypeOK /\ [Next]_vars => TypeOK'
<1> SUFFICES ASSUME TypeOK, [Next]_vars PROVE TypeOK'
  OBVIOUS
<1>1. CASE Maintenance
  BY <1>1, MaintenanceTypes
<1>2. CASE \E config \in Configs : ReconcileSources(config)
  BY <1>2, ReconcileTypes
<1>3. CASE RegisterDueSchedules
  BY <1>3, RegisterDueTypes
<1>4. CASE \E s \in Sources, k \in ManualKeys : RegisterManual(s, k)
  BY <1>4, RegisterManualTypes
<1>5. CASE \E s \in Sources, n \in 1..MaxWindows : CreateBackfill(s, n)
  BY <1>5, CreateBackfillTypes
<1>6. CASE \E b \in DOMAIN task_batches, action \in DOMAIN BackfillState :
               SetBackfillState(b, action)
  BY <1>6, SetBackfillStateTypes
<1>7. CASE \E n \in Nodes, ts \in SUBSET DOMAIN tasks :
               \E slot_of \in [Requires(ts) -> 1..MaxCapacity] :
                   ClaimTasks(n, ts, slot_of)
  BY <1>7, ClaimTypes
<1>8. CASE \E n \in Nodes :
               \E running \in SUBSET {g \in grants : g.node = n} :
                   Heartbeat(n, running)
  BY <1>8, HeartbeatTypes
<1>9. CASE \E g \in grants, status \in {"succeeded", "partial"} :
               CompleteTask(g, status)
  BY <1>9, CompleteTypes
<1>10. CASE \E g \in grants, retryable \in BOOLEAN, delay \in RetryDelays :
               FailTask(g, retryable, delay)
  BY <1>10, FailTypes
<1>11. CASE UNCHANGED vars
  BY <1>11 DEF vars, batchVars, taskVars, TypeOK, ClockTypes, SourceTypes,
               BatchTypes, TaskTypes, HistoryTypes, WorkerTypes
<1>12. QED
  BY <1>1, <1>2, <1>3, <1>4, <1>5, <1>6, <1>7, <1>8, <1>9, <1>10, <1>11,
     OtherTypes DEF Next

LEMMA InitTypes == Init => TypeOK
BY BoundsAssumption DEF Init, TypeOK, ClockTypes, SourceTypes, BatchTypes,
   TaskTypes, HistoryTypes, WorkerTypes

\* Whatever the constants, every reachable state has well-formed rows: the
\* transactions of store.py never leave a value the schema would refuse.
THEOREM TypeCorrect == Spec => []TypeOK
<1>1. QED BY InitTypes, TypesPreserved, PTL DEF Spec

-----------------------------------------------------------------------------
(* What the invariants of the next sections add to the types *)

\* The token of a running task is the ordinal of its last claim; a task that
\* nobody runs has none.
TokensAreClaims ==
    \A t \in DOMAIN tasks :
        tasks[t].lease_token = IF tasks[t].status = "running"
                               THEN tasks[t].attempts ELSE NULL

\* An envelope names a task that exists or existed, and a claim of it.
GrantsAreClaims ==
    \A g \in grants :
        /\ g.task \in 1..task_seq
        /\ g.task \in DOMAIN tasks => g.token <= tasks[g.task].attempts

\* A task with a run is gone.
HistoryIsOver ==
    \A k \in DOMAIN task_runs : task_runs[k].task_id \in (1..task_seq) \ DOMAIN tasks

FencingInv ==
    /\ TypeOK
    /\ TokensAreClaims /\ GrantsAreClaims /\ HistoryIsOver
    /\ HistoryIsOfTheLastClaim

\* The windows of a batch have keys of the batch; its id was new.
BatchKeysAreOld ==
    \A k \in UsedKeys : k.kind = "backfill" => k.of <= batch_seq

KeysInv == TypeOK /\ KeyNamesOneTask /\ BatchKeysAreOld

LeasesInv == FencingInv /\ LeasesBelongToRunningTasks

-----------------------------------------------------------------------------
(* Fencing *)

\* Rows that keep their attempts, or go, leave history and envelopes as true
\* as they were.
LEMMA FencedRows ==
    ASSUME FencingInv, TypeOK', TokensAreClaims',
           UNCHANGED <<task_seq, task_runs, grants>>,
           DOMAIN tasks' \subseteq DOMAIN tasks,
           \A t \in DOMAIN tasks' : tasks'[t].attempts = tasks[t].attempts
    PROVE  FencingInv'
<1>1. GrantsAreClaims'
  BY DEF FencingInv, GrantsAreClaims
<1>2. HistoryIsOver' /\ HistoryIsOfTheLastClaim'
  BY DEF FencingInv, HistoryIsOver, HistoryIsOfTheLastClaim
<1> QED
  BY <1>1, <1>2 DEF FencingInv

\* New tasks have new ids, so no envelope and no run names them.
LEMMA FencedInsert ==
    ASSUME FencingInv, TypeOK', NEW n \in Nat, NEW rows, InsertTasks(n, rows),
           \A i \in 1..n : rows[i].status = "pending" /\ rows[i].lease_token = NULL
    PROVE  FencingInv'
<1>1. /\ task_seq \in Nat /\ task_seq' = task_seq + n
      /\ task_runs' = task_runs /\ grants' = grants
      /\ DOMAIN tasks \subseteq 1..task_seq
      /\ DOMAIN tasks' = DOMAIN tasks \cup ((task_seq + 1)..(task_seq + n))
  BY BoundsAssumption DEF FencingInv, TypeOK, TaskTypes, InsertTasks
<1>2. \A t \in DOMAIN tasks : tasks'[t] = tasks[t]
  BY DEF InsertTasks
<1>3. \A t \in DOMAIN tasks' \ DOMAIN tasks :
          t - task_seq \in 1..n /\ tasks'[t] = rows[t - task_seq]
  BY <1>1 DEF InsertTasks
<1>4. TokensAreClaims'
  BY <1>1, <1>2, <1>3 DEF FencingInv, TokensAreClaims
<1>5. GrantsAreClaims'
  <2> SUFFICES ASSUME NEW g \in grants
               PROVE  /\ g.task \in 1..task_seq'
                      /\ g.task \in DOMAIN tasks' => g.token <= tasks'[g.task].attempts
    BY <1>1 DEF GrantsAreClaims
  <2>1. g.task \in 1..task_seq
        /\ (g.task \in DOMAIN tasks => g.token <= tasks[g.task].attempts)
    BY DEF FencingInv, GrantsAreClaims
  <2>2. g.task \in 1..task_seq' /\ g.task \notin (task_seq + 1)..(task_seq + n)
    BY <1>1, <2>1
  <2> QED
    BY <1>1, <1>2, <2>1, <2>2
<1>6. HistoryIsOver'
  <2> SUFFICES ASSUME NEW k \in DOMAIN task_runs
               PROVE  task_runs[k].task_id \in (1..task_seq') \ DOMAIN tasks'
    BY <1>1 DEF HistoryIsOver
  <2>1. task_runs[k].task_id \in (1..task_seq) \ DOMAIN tasks
    BY DEF FencingInv, HistoryIsOver
  <2> QED
    BY <1>1, <2>1
<1>7. HistoryIsOfTheLastClaim'
  BY <1>1 DEF FencingInv, HistoryIsOfTheLastClaim
<1> QED
  BY <1>4, <1>5, <1>6, <1>7 DEF FencingInv

LEMMA FencedClaim ==
    ASSUME FencingInv, TypeOK', NEW n \in Nodes, NEW ts \in SUBSET DOMAIN tasks,
           NEW slot_of \in [Requires(ts) -> 1..MaxCapacity],
           ClaimTasks(n, ts, slot_of)
    PROVE  FencingInv'
<1>1. /\ DOMAIN tasks' = DOMAIN tasks /\ task_seq' = task_seq
      /\ task_runs' = task_runs
      /\ \A t \in DOMAIN tasks \ ts : tasks'[t] = tasks[t]
  BY DEF ClaimTasks, Claimed
<1>2. \A t \in ts : tasks[t].attempts \in Nat /\ tasks[t] \in Tasks /\ t \in 1..task_seq
  BY DEF FencingInv, TypeOK, TaskTypes, Tasks
<1>3. ASSUME NEW t \in ts
      PROVE  /\ tasks'[t].attempts = tasks[t].attempts + 1
             /\ tasks'[t].lease_token = tasks[t].attempts + 1
             /\ tasks'[t].status = "running"
  BY <1>2 DEF ClaimTasks, Claimed, Tasks
<1>4. TokensAreClaims'
  BY <1>1, <1>3 DEF FencingInv, TokensAreClaims
<1>5. GrantsAreClaims'
  <2> SUFFICES ASSUME NEW g \in grants'
               PROVE  /\ g.task \in 1..task_seq
                      /\ g.task \in DOMAIN tasks => g.token <= tasks'[g.task].attempts
    BY <1>1 DEF GrantsAreClaims
  <2>1. CASE g \in grants
    <3>1. /\ g.task \in 1..task_seq /\ g.token \in Nat
          /\ g.task \in DOMAIN tasks => g.token <= tasks[g.task].attempts
      BY <2>1 DEF FencingInv, GrantsAreClaims, TypeOK, WorkerTypes
    <3> QED
      BY <1>1, <1>2, <1>3, <3>1
  <2>2. CASE g \notin grants
    <3>1. PICK t \in ts : g = [task |-> t, token |-> tasks[t].attempts + 1, node |-> n,
                               instance |-> workers[n].instance_id]
      BY <2>2 DEF ClaimTasks
    <3> QED
      BY <1>2, <1>3, <3>1
  <2> QED
    BY <2>1, <2>2
<1>6. HistoryIsOver'
  BY <1>1 DEF FencingInv, HistoryIsOver
<1>7. HistoryIsOfTheLastClaim'
  <2> SUFFICES ASSUME NEW k \in DOMAIN task_runs
               PROVE  /\ task_runs[k].result = task_runs[k].lease_token
                      /\ \A g \in grants' :
                             g.task = task_runs[k].task_id => g.token <= task_runs[k].result
    BY <1>1 DEF HistoryIsOfTheLastClaim
  <2>1. \A g \in grants' \ grants : g.task \in DOMAIN tasks
    BY DEF ClaimTasks
  <2>2. task_runs[k].task_id \notin DOMAIN tasks
    BY DEF FencingInv, HistoryIsOver
  <2> QED
    BY <2>1, <2>2 DEF FencingInv, HistoryIsOfTheLastClaim
<1> QED
  BY <1>4, <1>5, <1>6, <1>7 DEF FencingInv

\* Only the holder of the last claim retires a task.
LEMMA FencedRetire ==
    ASSUME FencingInv, TypeOK', NEW g \in grants, HoldsLease(g),
           NEW final, Retire(g.task, final, g.token)
    PROVE  FencingInv'
<1> DEFINE t == g.task
<1>1. /\ t \in DOMAIN tasks /\ tasks[t].status = "running"
      /\ tasks[t].lease_token = g.token /\ tasks[t].attempts = g.token
  BY DEF FencingInv, TokensAreClaims, HoldsLease
<1>2. /\ DOMAIN tasks' = DOMAIN tasks \ {t}
      /\ \A u \in DOMAIN tasks' : tasks'[u] = tasks[u]
      /\ task_seq' = task_seq /\ grants' = grants
  BY DEF Retire
<1>3. TokensAreClaims' /\ GrantsAreClaims'
  BY <1>2 DEF FencingInv, TokensAreClaims, GrantsAreClaims
<1> DEFINE key == tasks[t].dedupe_key
<1>4. ASSUME NEW k \in DOMAIN task_runs'
      PROVE  \/ k \in DOMAIN task_runs /\ task_runs'[k] = task_runs[k]
             \/ /\ task_runs'[k].task_id = t
                /\ task_runs'[k].result = g.token
                /\ task_runs'[k].lease_token = g.token
  BY <1>1 DEF Retire, Archive
<1>5. t \in 1..task_seq
  BY <1>1 DEF FencingInv, TypeOK, TaskTypes
<1>6. HistoryIsOver'
  BY <1>2, <1>4, <1>5 DEF FencingInv, HistoryIsOver
<1>7. \A h \in grants : h.task = t => h.token <= g.token
  BY <1>1 DEF FencingInv, GrantsAreClaims
<1>8. HistoryIsOfTheLastClaim'
  BY <1>2, <1>4, <1>7 DEF FencingInv, HistoryIsOfTheLastClaim
<1> QED
  BY <1>3, <1>6, <1>8 DEF FencingInv

\* A task put back has lost its token and kept its attempts.
LEMMA ReleasedRow ==
    ASSUME TaskTypes, NEW t \in DOMAIN tasks, NEW delay \in Nat
    PROVE  /\ Released(t, delay).attempts = tasks[t].attempts
           /\ Released(t, delay).status = "retry"
           /\ Released(t, delay).lease_token = NULL
           /\ Released(t, delay).dedupe_key = tasks[t].dedupe_key
BY DEF TaskTypes, Tasks, Released

\* What a pass over the due schedules inserts: a task for each of n sources.
DueKey(s) == ScheduleKey(s, schedules[s].next_run_at)

DueTask(s) == NewTask(DueKey(s), s, "scheduled", s, NULL, schedules[s].next_run_at)

InsertsDue(n, source_of) ==
    /\ source_of \in [1..n -> Sources]
    /\ InsertTasks(n, [i \in 1..n |-> DueTask(source_of[i])])
    /\ \A i \in 1..n : DueKey(source_of[i]) \notin UsedKeys
    /\ \A i, j \in 1..n : i # j => source_of[i] # source_of[j]

LEMMA DueInserts ==
    ASSUME TypeOK, RegisterDueSchedules
    PROVE  \E n \in 1..MaxTasks : \E source_of : InsertsDue(n, source_of)
<1> DEFINE due(s) == schedules[s].next_run_at
           fresh == {s \in DueSchedules : ScheduleKey(s, due(s)) \notin UsedKeys}
<1> DEFINE Inserts(n, source_of) ==
             InsertTasks(n, [i \in 1..n |->
                    LET s == source_of[i]
                    IN  NewTask(ScheduleKey(s, due(s)), s, "scheduled", s, NULL,
                                due(s))])
<1>1. PICK n \in 1..MaxTasks : \E f \in Bijection(1..n, fresh) : Inserts(n, f)
  BY Zenon DEF RegisterDueSchedules
<1>2. PICK f \in Bijection(1..n, fresh) : Inserts(n, f)
  BY <1>1
<1>3. /\ f \in [1..n -> fresh]
      /\ \A i, j \in 1..n : i # j => f[i] # f[j]
  BY <1>2 DEF Bijection, Injection, IsInjective
<1>4. fresh \subseteq Sources
  BY DEF TypeOK, SourceTypes, DueSchedules
<1>5. InsertTasks(n, [i \in 1..n |-> DueTask(f[i])])
  BY <1>2, Zenon DEF DueTask, DueKey
<1>6. \A i \in 1..n : DueKey(f[i]) \notin UsedKeys
  BY <1>3 DEF DueKey
<1>7. f \in [1..n -> Sources]
  BY <1>3, <1>4
<1>8. InsertsDue(n, f)
  BY <1>3, <1>5, <1>6, <1>7 DEF InsertsDue
<1> QED
  BY <1>8

LEMMA NewTaskRow ==
    ASSUME NEW key, NEW s, NEW workload, NEW schedule, NEW batch, NEW due
    PROVE  /\ NewTask(key, s, workload, schedule, batch, due).status = "pending"
           /\ NewTask(key, s, workload, schedule, batch, due).lease_token = NULL
           /\ NewTask(key, s, workload, schedule, batch, due).attempts = 0
           /\ NewTask(key, s, workload, schedule, batch, due).batch_id = batch
           /\ NewTask(key, s, workload, schedule, batch, due).dedupe_key = key
BY DEF NewTask

LEMMA FencingStep == FencingInv /\ [Next]_vars => FencingInv'
<1> SUFFICES ASSUME FencingInv, [Next]_vars
             PROVE  FencingInv'
  OBVIOUS
<1>a. TypeOK /\ TypeOK' /\ TaskTypes
  BY TypesPreserved DEF FencingInv, TypeOK
<1>1. CASE UNCHANGED taskVars
  BY <1>1, <1>a DEF taskVars, FencingInv, TokensAreClaims, GrantsAreClaims,
                    HistoryIsOver, HistoryIsOfTheLastClaim
<1>2. CASE Maintenance
  <2>1. /\ DOMAIN tasks' = DOMAIN tasks
        /\ \A t \in DOMAIN tasks : tasks'[t] = IF Stale(t) THEN Released(t, RequeueDelay)
                                               ELSE tasks[t]
    BY <1>2 DEF Maintenance
  <2>2. \A t \in DOMAIN tasks : tasks'[t].attempts = tasks[t].attempts
    BY <1>a, <2>1, ReleasedRow, BoundsAssumption
  <2>3. TokensAreClaims'
    BY <1>a, <2>1, ReleasedRow, BoundsAssumption DEF FencingInv, TokensAreClaims
  <2> QED
    BY <1>2, <1>a, <2>1, <2>2, <2>3, FencedRows DEF Maintenance
<1>3. CASE RegisterDueSchedules
  <2>1. PICK n \in 1..MaxTasks : \E source_of : InsertsDue(n, source_of)
    BY <1>3, <1>a, DueInserts
  <2>2. PICK source_of : InsertsDue(n, source_of)
    BY <2>1
  <2>3. InsertTasks(n, [i \in 1..n |-> DueTask(source_of[i])])
    BY <2>2 DEF InsertsDue
  <2>4. \A i \in 1..n : /\ [j \in 1..n |-> DueTask(source_of[j])][i].status = "pending"
                        /\ [j \in 1..n |-> DueTask(source_of[j])][i].lease_token = NULL
    BY NewTaskRow DEF DueTask
  <2>5. n \in Nat
    BY BoundsAssumption
  <2> QED
    BY <1>a, <2>3, <2>4, <2>5, FencedInsert
<1>4. ASSUME NEW s \in Sources, NEW k \in ManualKeys, RegisterManual(s, k)
      PROVE  FencingInv'
  BY <1>4, <1>a, FencedInsert, NewTaskRow DEF RegisterManual
<1>5. ASSUME NEW s \in Sources, NEW n \in 1..MaxWindows, CreateBackfill(s, n)
      PROVE  FencingInv'
  BY <1>5, <1>a, FencedInsert, NewTaskRow, BoundsAssumption DEF CreateBackfill
<1>6. ASSUME NEW b \in DOMAIN task_batches, NEW action \in DOMAIN BackfillState,
             SetBackfillState(b, action)
      PROVE  FencingInv'
  <2>1. DOMAIN tasks' \subseteq DOMAIN tasks
        /\ \A t \in DOMAIN tasks' : tasks'[t] = tasks[t]
    BY <1>6 DEF SetBackfillState
  <2>2. TokensAreClaims'
    BY <2>1 DEF FencingInv, TokensAreClaims
  <2> QED
    BY <1>6, <1>a, <2>1, <2>2, FencedRows DEF SetBackfillState
<1>7. ASSUME NEW n \in Nodes, NEW ts \in SUBSET DOMAIN tasks,
             NEW slot_of \in [Requires(ts) -> 1..MaxCapacity],
             ClaimTasks(n, ts, slot_of)
      PROVE  FencingInv'
  BY <1>7, <1>a, FencedClaim
<1>8. ASSUME NEW n \in Nodes, NEW running \in SUBSET {g \in grants : g.node = n},
             Heartbeat(n, running)
      PROVE  FencingInv'
  <2>1. /\ DOMAIN tasks' = DOMAIN tasks
        /\ \A t \in DOMAIN tasks : /\ tasks'[t].attempts = tasks[t].attempts
                                   /\ tasks'[t].status = tasks[t].status
                                   /\ tasks'[t].lease_token = tasks[t].lease_token
    BY <1>8, <1>a DEF Heartbeat, TaskTypes, Tasks
  <2>2. TokensAreClaims'
    BY <2>1 DEF FencingInv, TokensAreClaims
  <2> QED
    BY <1>8, <1>a, <2>1, <2>2, FencedRows DEF Heartbeat
<1>9. ASSUME NEW g \in grants, NEW status \in {"succeeded", "partial"},
             CompleteTask(g, status)
      PROVE  FencingInv'
  BY <1>9, <1>a, FencedRetire DEF CompleteTask
<1>10. ASSUME NEW g \in grants, NEW retryable \in BOOLEAN, NEW delay \in RetryDelays,
              FailTask(g, retryable, delay)
       PROVE  FencingInv'
  <2>1. CASE Retire(g.task, "dead", g.token)
    BY <1>10, <1>a, <2>1, FencedRetire DEF FailTask
  <2>2. CASE ~Retire(g.task, "dead", g.token)
    <3>1. /\ g.task \in DOMAIN tasks
          /\ tasks' = [tasks EXCEPT ![g.task] = Released(g.task, delay)]
          /\ UNCHANGED <<task_seq, task_runs, grants>>
      BY <1>10, <2>2 DEF FailTask, HoldsLease
    <3>2. delay \in Nat
      BY BoundsAssumption
    <3>3. /\ DOMAIN tasks' = DOMAIN tasks
          /\ \A t \in DOMAIN tasks : tasks'[t].attempts = tasks[t].attempts
      BY <1>a, <3>1, <3>2, ReleasedRow
    <3>4. TokensAreClaims'
      BY <1>a, <3>1, <3>2, ReleasedRow DEF FencingInv, TokensAreClaims
    <3> QED
      BY <1>a, <3>1, <3>3, <3>4, FencedRows
  <2> QED
    BY <2>1, <2>2
<1>11. CASE \/ Tick \/ UNCHANGED vars
            \/ \E config \in Configs : ReconcileSources(config)
            \/ \E n \in Nodes, state \in DesiredStates : SetWorkerState(n, state)
            \/ \E n \in Nodes, mode \in Modes : EnrollWorker(n, mode)
  BY <1>1, <1>11 DEF Tick, ReconcileSources, SetWorkerState, EnrollWorker, vars
<1> QED
  BY <1>2, <1>3, <1>4, <1>5, <1>6, <1>7, <1>8, <1>9, <1>10, <1>11 DEF Next

LEMMA FencingInit == Init => FencingInv
BY InitTypes DEF Init, FencingInv, TokensAreClaims, GrantsAreClaims, HistoryIsOver,
                 HistoryIsOfTheLastClaim

LEMMA Fencing == Spec => []FencingInv
BY FencingInit, FencingStep, PTL DEF Spec

\* Whatever the number of workers, claims, requeues and late or repeated
\* reports, a run in the history is the report of the task's last claim.
THEOREM HistoryIsFenced == Spec => []HistoryIsOfTheLastClaim
<1>1. FencingInv => HistoryIsOfTheLastClaim
  BY DEF FencingInv
<1> QED
  BY <1>1, Fencing, PTL

-----------------------------------------------------------------------------
(* Leases *)

\* Leases of tasks that keep their row stay true.
LEMMA LeasesKept ==
    ASSUME LeasesInv, FencingInv',
           \A r \in resource_leases' :
               \E q \in resource_leases :
                   /\ r.task_id = q.task_id /\ r.lease_token = q.lease_token
                   /\ r.worker_id = q.worker_id
                   /\ q.task_id \in DOMAIN tasks'
                   /\ tasks'[q.task_id].status = tasks[q.task_id].status
                   /\ tasks'[q.task_id].lease_token = tasks[q.task_id].lease_token
                   /\ tasks'[q.task_id].locked_by = tasks[q.task_id].locked_by
    PROVE  LeasesInv'
BY DEF LeasesInv, LeasesBelongToRunningTasks

LEMMA LeasesInsert ==
    ASSUME LeasesInv, FencingInv', NEW n \in Nat, NEW rows, InsertTasks(n, rows)
    PROVE  LeasesInv'
<1>1. resource_leases' = resource_leases
  BY DEF InsertTasks
<1>2. \A t \in DOMAIN tasks : t \in DOMAIN tasks' /\ tasks'[t] = tasks[t]
  BY DEF InsertTasks
<1> QED
  BY <1>1, <1>2 DEF LeasesInv, LeasesBelongToRunningTasks

LEMMA LeasesClaim ==
    ASSUME LeasesInv, FencingInv', NEW n \in Nodes, NEW ts \in SUBSET DOMAIN tasks,
           NEW slot_of \in [Requires(ts) -> 1..MaxCapacity],
           ClaimTasks(n, ts, slot_of)
    PROVE  LeasesInv'
<1>1. /\ DOMAIN tasks' = DOMAIN tasks
      /\ \A t \in DOMAIN tasks \ ts : tasks'[t] = tasks[t]
  BY DEF ClaimTasks, Claimed
<1>2. \A t \in ts : tasks[t].attempts \in Nat /\ tasks[t] \in Tasks
  BY DEF LeasesInv, FencingInv, TypeOK, TaskTypes, Tasks
<1>3. \A t \in ts : /\ tasks'[t].status = "running" /\ tasks'[t].locked_by = n
                    /\ tasks'[t].lease_token = tasks[t].attempts + 1
  BY <1>2 DEF ClaimTasks, Claimed, Tasks
<1>4. \A t \in ts : tasks[t].status # "running"
  BY DEF ClaimTasks, Eligible
<1>5. ASSUME NEW r \in resource_leases'
      PROVE  /\ r.task_id \in DOMAIN tasks'
             /\ tasks'[r.task_id].status = "running"
             /\ tasks'[r.task_id].lease_token = r.lease_token
             /\ tasks'[r.task_id].locked_by = r.worker_id
  <2>1. CASE r \in resource_leases
    <3>1. /\ r.task_id \in DOMAIN tasks /\ tasks[r.task_id].status = "running"
          /\ tasks[r.task_id].lease_token = r.lease_token
          /\ tasks[r.task_id].locked_by = r.worker_id
      BY <2>1 DEF LeasesInv, LeasesBelongToRunningTasks
    <3> QED
      BY <1>1, <1>4, <3>1
  <2>2. CASE r \notin resource_leases
    <3>1. PICK p \in Requires(ts) :
              r = [resource_key |-> p[2], slot |-> slot_of[p], task_id |-> p[1],
                   lease_token |-> tasks[p[1]].attempts + 1, worker_id |-> n,
                   expires_at |-> now + LeaseTtl]
      BY <2>2 DEF ClaimTasks, Unexpired
    <3>2. p[1] \in ts
      BY DEF Requires
    <3> QED
      BY <1>1, <1>3, <3>1, <3>2
  <2> QED
    BY <2>1, <2>2
<1> QED
  BY <1>5 DEF LeasesInv, LeasesBelongToRunningTasks

LEMMA LeasesRetire ==
    ASSUME LeasesInv, FencingInv', NEW t, NEW final, NEW report, Retire(t, final, report)
    PROVE  LeasesInv'
<1>1. /\ resource_leases' = {r \in resource_leases : r.task_id # t}
      /\ DOMAIN tasks' = DOMAIN tasks \ {t}
      /\ \A u \in DOMAIN tasks' : tasks'[u] = tasks[u]
  BY DEF Retire, LeasesWithout
<1> QED
  BY <1>1 DEF LeasesInv, LeasesBelongToRunningTasks

LEMMA LeasesStep == LeasesInv /\ [Next]_vars => LeasesInv'
<1> SUFFICES ASSUME LeasesInv, [Next]_vars
             PROVE  LeasesInv'
  OBVIOUS
<1>a. FencingInv /\ FencingInv' /\ TypeOK
  BY FencingStep DEF LeasesInv, FencingInv
<1>b. \A r \in resource_leases : r.task_id \in DOMAIN tasks
                                 /\ tasks[r.task_id].status = "running"
  BY DEF LeasesInv, LeasesBelongToRunningTasks
<1>1. CASE UNCHANGED taskVars
  BY <1>1, <1>a DEF taskVars, LeasesInv, LeasesBelongToRunningTasks
<1>2. CASE Maintenance
  <2>1. ASSUME NEW r \in resource_leases'
        PROVE  r \in resource_leases /\ tasks'[r.task_id] = tasks[r.task_id]
    BY <1>2, <2>1 DEF Maintenance, Unexpired
  <2>2. DOMAIN tasks' = DOMAIN tasks
    BY <1>2 DEF Maintenance
  <2> QED
    BY <1>a, <1>b, <2>1, <2>2 DEF LeasesInv, LeasesBelongToRunningTasks
<1>3. CASE RegisterDueSchedules
  <2>1. PICK n \in 1..MaxTasks : \E source_of : InsertsDue(n, source_of)
    BY <1>3, <1>a, DueInserts
  <2>2. PICK source_of : InsertsDue(n, source_of)
    BY <2>1
  <2> QED
    BY <1>a, <2>2, LeasesInsert, BoundsAssumption DEF InsertsDue
<1>4. ASSUME NEW s \in Sources, NEW k \in ManualKeys, RegisterManual(s, k)
      PROVE  LeasesInv'
  BY <1>4, <1>a, LeasesInsert DEF RegisterManual
<1>5. ASSUME NEW s \in Sources, NEW n \in 1..MaxWindows, CreateBackfill(s, n)
      PROVE  LeasesInv'
  BY <1>5, <1>a, LeasesInsert, BoundsAssumption DEF CreateBackfill
<1>6. ASSUME NEW b \in DOMAIN task_batches, NEW action \in DOMAIN BackfillState,
             SetBackfillState(b, action)
      PROVE  LeasesInv'
  <2>1. resource_leases' = resource_leases
    BY <1>6 DEF SetBackfillState
  <2>2. \A t \in DOMAIN tasks : tasks[t].status = "running" =>
            t \in DOMAIN tasks' /\ tasks'[t] = tasks[t]
    BY <1>6 DEF SetBackfillState, Waiting
  <2> QED
    BY <1>a, <1>b, <2>1, <2>2 DEF LeasesInv, LeasesBelongToRunningTasks
<1>7. ASSUME NEW n \in Nodes, NEW ts \in SUBSET DOMAIN tasks,
             NEW slot_of \in [Requires(ts) -> 1..MaxCapacity],
             ClaimTasks(n, ts, slot_of)
      PROVE  LeasesInv'
  BY <1>7, <1>a, LeasesClaim
<1>8. ASSUME NEW n \in Nodes, NEW running \in SUBSET {g \in grants : g.node = n},
             Heartbeat(n, running)
      PROVE  LeasesInv'
  <2>1. /\ DOMAIN tasks' = DOMAIN tasks
        /\ \A t \in DOMAIN tasks : /\ tasks'[t].locked_by = tasks[t].locked_by
                                   /\ tasks'[t].status = tasks[t].status
                                   /\ tasks'[t].lease_token = tasks[t].lease_token
    BY <1>8, <1>a DEF Heartbeat, TypeOK, TaskTypes, Tasks
  <2>2. ASSUME NEW r \in resource_leases'
        PROVE  \E q \in resource_leases :
                   /\ r.task_id = q.task_id /\ r.lease_token = q.lease_token
                   /\ r.worker_id = q.worker_id
    <3>1. PICK q \in resource_leases :
              r = q \/ r = [q EXCEPT !.expires_at = now + LeaseTtl]
      BY <1>8, <2>2 DEF Heartbeat
    <3>2. q \in Leases
      BY <1>a DEF TypeOK, WorkerTypes
    <3>3. /\ r.task_id = q.task_id /\ r.lease_token = q.lease_token
          /\ r.worker_id = q.worker_id
      BY <3>1, <3>2 DEF Leases
    <3> QED
      BY <3>3
  <2> QED
    BY <1>a, <1>b, <2>1, <2>2, LeasesKept
<1>9. ASSUME NEW g \in grants, NEW status \in {"succeeded", "partial"},
             CompleteTask(g, status)
      PROVE  LeasesInv'
  BY <1>9, <1>a, LeasesRetire DEF CompleteTask
<1>10. ASSUME NEW g \in grants, NEW retryable \in BOOLEAN, NEW delay \in RetryDelays,
              FailTask(g, retryable, delay)
       PROVE  LeasesInv'
  <2>1. CASE Retire(g.task, "dead", g.token)
    BY <1>a, <2>1, LeasesRetire
  <2>2. CASE ~Retire(g.task, "dead", g.token)
    <3>1. /\ tasks' = [tasks EXCEPT ![g.task] = Released(g.task, delay)]
          /\ resource_leases' = {r \in resource_leases : r.task_id # g.task}
      BY <1>10, <2>2 DEF FailTask, LeasesWithout
    <3> QED
      BY <1>a, <3>1 DEF LeasesInv, LeasesBelongToRunningTasks
  <2> QED
    BY <2>1, <2>2
<1>11. CASE \/ Tick \/ UNCHANGED vars
            \/ \E config \in Configs : ReconcileSources(config)
            \/ \E n \in Nodes, state \in DesiredStates : SetWorkerState(n, state)
            \/ \E n \in Nodes, mode \in Modes : EnrollWorker(n, mode)
  BY <1>1, <1>11 DEF Tick, ReconcileSources, SetWorkerState, EnrollWorker, vars
<1> QED
  BY <1>2, <1>3, <1>4, <1>5, <1>6, <1>7, <1>8, <1>9, <1>10, <1>11 DEF Next

\* A resource slot is never held on behalf of anybody but the execution that
\* has the task, at whatever point a requeue, a report or a claim intervenes.
THEOREM LeasesAreOfTheRunning == Spec => []LeasesBelongToRunningTasks
<1>1. Init => LeasesInv
  BY FencingInit DEF Init, LeasesInv, LeasesBelongToRunningTasks
<1>2. LeasesInv => LeasesBelongToRunningTasks
  BY DEF LeasesInv
<1> QED
  BY <1>1, <1>2, LeasesStep, PTL DEF Spec

-----------------------------------------------------------------------------
(* Keys *)

\* Rows that keep their keys, or go, leave every key with one task.
LEMMA KeysKept ==
    ASSUME KeysInv, TypeOK', UNCHANGED <<task_runs, batch_seq>>,
           DOMAIN tasks' \subseteq DOMAIN tasks,
           \A t \in DOMAIN tasks' : tasks'[t].dedupe_key = tasks[t].dedupe_key
    PROVE  KeysInv'
<1>1. UsedKeys' \subseteq UsedKeys
  BY DEF UsedKeys
<1>2. BatchKeysAreOld'
  BY <1>1 DEF KeysInv, BatchKeysAreOld
<1>3. KeyNamesOneTask'
  BY DEF KeysInv, KeyNamesOneTask
<1> QED
  BY <1>2, <1>3 DEF KeysInv

\* New rows whose keys are unused, and differ, leave every key with one task.
LEMMA KeysInsert ==
    ASSUME KeysInv, TypeOK', NEW n \in Nat, NEW rows, InsertTasks(n, rows),
           \A i \in 1..n : rows[i].dedupe_key \notin UsedKeys,
           \A i, j \in 1..n : rows[i].dedupe_key = rows[j].dedupe_key => i = j,
           batch_seq <= batch_seq',
           \A i \in 1..n : rows[i].dedupe_key.kind = "backfill"
                               => rows[i].dedupe_key.of <= batch_seq'
    PROVE  KeysInv'
<1>1. /\ task_seq \in Nat /\ task_runs' = task_runs
      /\ DOMAIN tasks \subseteq 1..task_seq
      /\ DOMAIN tasks' = DOMAIN tasks \cup ((task_seq + 1)..(task_seq + n))
  BY BoundsAssumption DEF KeysInv, TypeOK, TaskTypes, InsertTasks
<1>2. \A t \in DOMAIN tasks : tasks'[t] = tasks[t]
  BY DEF InsertTasks
<1>3. \A t \in DOMAIN tasks' \ DOMAIN tasks :
          t - task_seq \in 1..n /\ tasks'[t] = rows[t - task_seq]
  BY <1>1 DEF InsertTasks
<1>4. \A t \in DOMAIN tasks : tasks[t].dedupe_key \in UsedKeys
  BY DEF UsedKeys
<1>5. \A k \in DOMAIN task_runs : k \in UsedKeys
  BY DEF UsedKeys
<1>6. KeyNamesOneTask'
  <2>1. ASSUME NEW t \in DOMAIN tasks', NEW u \in DOMAIN tasks',
               tasks'[t].dedupe_key = tasks'[u].dedupe_key
        PROVE  t = u
    <3>1. CASE t \in DOMAIN tasks /\ u \in DOMAIN tasks
      BY <1>2, <2>1, <3>1 DEF KeysInv, KeyNamesOneTask
    <3>2. CASE t \notin DOMAIN tasks /\ u \notin DOMAIN tasks
      <4>1. t - task_seq = u - task_seq
        BY <1>3, <2>1, <3>2
      <4>2. t \in Int /\ u \in Int
        BY <1>1, <3>2
      <4> QED
        BY <1>1, <4>1, <4>2
    <3>3. CASE t \in DOMAIN tasks /\ u \notin DOMAIN tasks
      BY <1>2, <1>3, <1>4, <2>1, <3>3
    <3>4. CASE t \notin DOMAIN tasks /\ u \in DOMAIN tasks
      BY <1>2, <1>3, <1>4, <2>1, <3>4
    <3> QED
      BY <3>1, <3>2, <3>3, <3>4
  <2>2. ASSUME NEW t \in DOMAIN tasks'
        PROVE  tasks'[t].dedupe_key \notin DOMAIN task_runs'
    <3>1. CASE t \in DOMAIN tasks
      BY <1>1, <1>2, <3>1 DEF KeysInv, KeyNamesOneTask
    <3>2. CASE t \notin DOMAIN tasks
      BY <1>1, <1>3, <1>5, <3>2
    <3> QED
      BY <3>1, <3>2
  <2> QED
    BY <2>1, <2>2 DEF KeyNamesOneTask
<1>7. BatchKeysAreOld'
  <2> SUFFICES ASSUME NEW k \in UsedKeys', k.kind = "backfill"
               PROVE  k.of <= batch_seq'
    BY DEF BatchKeysAreOld
  <2>1. CASE k \in UsedKeys
    <3>1. k.of <= batch_seq /\ k \in Keys
      BY <2>1 DEF KeysInv, BatchKeysAreOld, TypeOK, TaskTypes, HistoryTypes, Tasks,
                  UsedKeys
    <3>2. k.of \in Nat /\ batch_seq \in Nat /\ batch_seq' \in Nat
      BY <3>1, BoundsAssumption DEF Keys, KeysInv, TypeOK, BatchTypes
    <3> QED
      BY <3>1, <3>2
  <2>2. CASE k \notin UsedKeys
    <3>1. PICK t \in DOMAIN tasks' : k = tasks'[t].dedupe_key
      BY <1>1, <2>2 DEF UsedKeys
    <3>2. t \notin DOMAIN tasks
      BY <1>2, <1>4, <2>2, <3>1
    <3> QED
      BY <1>3, <3>1, <3>2
  <2> QED
    BY <2>1, <2>2
<1> QED
  BY <1>6, <1>7 DEF KeysInv

\* The key of a retired task passes to the history.
LEMMA KeysRetire ==
    ASSUME KeysInv, TypeOK', NEW t \in DOMAIN tasks, NEW final, NEW report,
           Retire(t, final, report)
    PROVE  KeysInv'
<1>1. /\ DOMAIN tasks' = DOMAIN tasks \ {t} /\ batch_seq' = batch_seq
      /\ \A u \in DOMAIN tasks' : tasks'[u] = tasks[u]
  BY DEF Retire
<1>2. DOMAIN task_runs' = DOMAIN task_runs \cup {tasks[t].dedupe_key}
  BY DEF Retire, Archive
<1>3. UsedKeys' \subseteq UsedKeys
  BY <1>1, <1>2 DEF UsedKeys
<1>4. BatchKeysAreOld'
  BY <1>1, <1>3 DEF KeysInv, BatchKeysAreOld
<1>5. KeyNamesOneTask'
  BY <1>1, <1>2 DEF KeysInv, KeyNamesOneTask
<1> QED
  BY <1>4, <1>5 DEF KeysInv

LEMMA KeysStep == KeysInv /\ [Next]_vars => KeysInv'
<1> SUFFICES ASSUME KeysInv, [Next]_vars
             PROVE  KeysInv'
  OBVIOUS
<1>a. TypeOK /\ TypeOK' /\ TaskTypes
  BY TypesPreserved DEF KeysInv, TypeOK
<1>b. batch_seq \in Nat /\ batch_seq' \in Nat
  BY <1>a, BoundsAssumption DEF TypeOK, BatchTypes
<1>1. CASE UNCHANGED taskVars /\ UNCHANGED batchVars
  BY <1>1, <1>a DEF taskVars, batchVars, KeysInv, KeyNamesOneTask, BatchKeysAreOld,
                    UsedKeys
<1>2. CASE Maintenance
  <2>1. /\ DOMAIN tasks' = DOMAIN tasks
        /\ \A t \in DOMAIN tasks : tasks'[t] = IF Stale(t) THEN Released(t, RequeueDelay)
                                               ELSE tasks[t]
    BY <1>2 DEF Maintenance
  <2>2. \A t \in DOMAIN tasks : tasks'[t].dedupe_key = tasks[t].dedupe_key
    BY <1>a, <2>1, ReleasedRow, BoundsAssumption
  <2> QED
    BY <1>2, <1>a, <2>1, <2>2, KeysKept DEF Maintenance, batchVars
<1>3. CASE RegisterDueSchedules
  <2>1. PICK n \in 1..MaxTasks : \E source_of : InsertsDue(n, source_of)
    BY <1>3, <1>a, DueInserts
  <2>2. PICK f : InsertsDue(n, f)
    BY <2>1
  <2> DEFINE rows == [i \in 1..n |-> DueTask(f[i])]
  <2>3. n \in Nat /\ InsertTasks(n, rows)
    BY <2>2, BoundsAssumption DEF InsertsDue
  <2>4. \A i \in 1..n : rows[i].dedupe_key = DueKey(f[i])
    BY NewTaskRow DEF DueTask
  <2>5. \A i \in 1..n : DueKey(f[i]).kind = "schedule" /\ DueKey(f[i]).of = f[i]
    BY DEF DueKey, ScheduleKey
  <2>6. batch_seq' = batch_seq
    BY <1>3, Zenon DEF RegisterDueSchedules, batchVars
  <2> HIDE DEF rows
  <2>7. \A i \in 1..n : rows[i].dedupe_key \notin UsedKeys
    BY <2>2, <2>4 DEF InsertsDue
  <2>8. \A i, j \in 1..n : rows[i].dedupe_key = rows[j].dedupe_key => i = j
    BY <2>2, <2>4, <2>5 DEF InsertsDue
  <2>9. \A i \in 1..n : rows[i].dedupe_key.kind # "backfill"
    BY <2>4, <2>5
  <2> QED
    BY <1>a, <1>b, <2>3, <2>6, <2>7, <2>8, <2>9, KeysInsert
<1>4. ASSUME NEW s \in Sources, NEW k \in ManualKeys, RegisterManual(s, k)
      PROVE  KeysInv'
  <2> DEFINE rows == [i \in {1} |->
                 NewTask(ManualKey(k), s, "manual", NULL, NULL, ControllerNow)]
  <2>1. InsertTasks(1, rows) /\ ManualKey(k) \notin UsedKeys /\ batch_seq' = batch_seq
    BY <1>4 DEF RegisterManual, batchVars
  <2>2. rows[1].dedupe_key = ManualKey(k) /\ ManualKey(k).kind = "manual"
    BY NewTaskRow DEF ManualKey
  <2> HIDE DEF rows
  <2>3. \A i \in 1..1 : i = 1
    OBVIOUS
  <2> QED
    BY <1>a, <1>b, <2>1, <2>2, <2>3, KeysInsert
<1>5. ASSUME NEW s \in Sources, NEW n \in 1..MaxWindows, CreateBackfill(s, n)
      PROVE  KeysInv'
  <2> DEFINE b == batch_seq + 1
             rows == [w \in 1..n |->
                 NewTask(BackfillKey(b, w), s, "backfill", NULL, b, ControllerNow)]
  <2>1. InsertTasks(n, rows) /\ batch_seq' = b /\ n \in Nat
    BY <1>5, BoundsAssumption DEF CreateBackfill
  <2>2. \A w \in 1..n : rows[w].dedupe_key = BackfillKey(b, w)
    BY NewTaskRow
  <2>3. \A w \in 1..n : /\ BackfillKey(b, w).of = b /\ BackfillKey(b, w).at = w
                        /\ BackfillKey(b, w).kind = "backfill"
    BY DEF BackfillKey
  <2> HIDE DEF rows
  <2>4. \A w \in 1..n : rows[w].dedupe_key \notin UsedKeys
    BY <1>b, <2>2, <2>3 DEF KeysInv, BatchKeysAreOld
  <2>5. \A v, w \in 1..n : rows[v].dedupe_key = rows[w].dedupe_key => v = w
    BY <2>2, <2>3
  <2> QED
    BY <1>a, <1>b, <2>1, <2>2, <2>3, <2>4, <2>5, KeysInsert
<1>6. ASSUME NEW b \in DOMAIN task_batches, NEW action \in DOMAIN BackfillState,
             SetBackfillState(b, action)
      PROVE  KeysInv'
  <2>1. DOMAIN tasks' \subseteq DOMAIN tasks
        /\ \A t \in DOMAIN tasks' : tasks'[t] = tasks[t]
    BY <1>6 DEF SetBackfillState
  <2> QED
    BY <1>6, <1>a, <2>1, KeysKept DEF SetBackfillState
<1>7. ASSUME NEW n \in Nodes, NEW ts \in SUBSET DOMAIN tasks,
             NEW slot_of \in [Requires(ts) -> 1..MaxCapacity],
             ClaimTasks(n, ts, slot_of)
      PROVE  KeysInv'
  <2>1. DOMAIN tasks' = DOMAIN tasks
        /\ \A t \in DOMAIN tasks : tasks'[t].dedupe_key = tasks[t].dedupe_key
    BY <1>7, <1>a DEF ClaimTasks, Claimed, TaskTypes, Tasks
  <2> QED
    BY <1>7, <1>a, <2>1, KeysKept DEF ClaimTasks, batchVars
<1>8. ASSUME NEW n \in Nodes, NEW running \in SUBSET {g \in grants : g.node = n},
             Heartbeat(n, running)
      PROVE  KeysInv'
  <2>1. DOMAIN tasks' = DOMAIN tasks
        /\ \A t \in DOMAIN tasks : tasks'[t].dedupe_key = tasks[t].dedupe_key
    BY <1>8, <1>a DEF Heartbeat, TaskTypes, Tasks
  <2> QED
    BY <1>8, <1>a, <2>1, KeysKept DEF Heartbeat, batchVars
<1>9. ASSUME NEW g \in grants, NEW status \in {"succeeded", "partial"},
             CompleteTask(g, status)
      PROVE  KeysInv'
  BY <1>9, <1>a, KeysRetire DEF CompleteTask, HoldsLease
<1>10. ASSUME NEW g \in grants, NEW retryable \in BOOLEAN, NEW delay \in RetryDelays,
              FailTask(g, retryable, delay)
       PROVE  KeysInv'
  <2>0. g.task \in DOMAIN tasks
    BY <1>10 DEF FailTask, HoldsLease
  <2>1. CASE Retire(g.task, "dead", g.token)
    BY <1>a, <2>0, <2>1, KeysRetire
  <2>2. CASE ~Retire(g.task, "dead", g.token)
    <3>1. /\ tasks' = [tasks EXCEPT ![g.task] = Released(g.task, delay)]
          /\ UNCHANGED <<task_runs, batch_seq>>
      BY <1>10, <2>2 DEF FailTask, batchVars
    <3>2. delay \in Nat
      BY BoundsAssumption
    <3>3. DOMAIN tasks' = DOMAIN tasks
          /\ \A t \in DOMAIN tasks : tasks'[t].dedupe_key = tasks[t].dedupe_key
      BY <1>a, <2>0, <3>1, <3>2, ReleasedRow
    <3> QED
      BY <1>a, <3>1, <3>3, KeysKept
  <2> QED
    BY <2>1, <2>2
<1>11. CASE \/ Tick \/ UNCHANGED vars
            \/ \E config \in Configs : ReconcileSources(config)
            \/ \E n \in Nodes, state \in DesiredStates : SetWorkerState(n, state)
            \/ \E n \in Nodes, mode \in Modes : EnrollWorker(n, mode)
  BY <1>1, <1>11 DEF Tick, ReconcileSources, SetWorkerState, EnrollWorker, vars
<1> QED
  BY <1>2, <1>3, <1>4, <1>5, <1>6, <1>7, <1>8, <1>9, <1>10, <1>11 DEF Next

LEMMA KeysHold == Spec => []KeysInv
<1>1. Init => KeysInv
  BY InitTypes DEF Init, KeysInv, KeyNamesOneTask, BatchKeysAreOld, UsedKeys
<1> QED
  BY <1>1, KeysStep, PTL DEF Spec

\* An idempotency key names one task for good, live or archived, whoever
\* registers what and whenever it ends.
THEOREM KeysAreIdempotent == Spec => []KeyNamesOneTask
<1>1. KeysInv => KeyNamesOneTask
  BY DEF KeysInv
<1> QED
  BY <1>1, KeysHold, PTL

-----------------------------------------------------------------------------
(* Archival *)

\* What may happen to the row of t in a step that removes it.
RecordedOrCancelled(t) ==
    LET row == tasks[t] IN
    \/ /\ row.dedupe_key \in DOMAIN task_runs' \ DOMAIN task_runs
       /\ task_runs'[row.dedupe_key].task_id = t
    \/ /\ row.status # "running" /\ row.batch_id # NULL
       /\ task_batches'[row.batch_id].status = "cancelled"

\* The end of a task leaves a run of its own: its key is new to the history,
\* so the ON CONFLICT of _archive has nothing to ignore.
LEMMA RetireRecords ==
    ASSUME KeyNamesOneTask, NEW t \in DOMAIN tasks, NEW final, NEW report,
           Retire(t, final, report)
    PROVE  \A u \in DOMAIN tasks \ DOMAIN tasks' : RecordedOrCancelled(u)
<1> DEFINE key == tasks[t].dedupe_key
<1>1. DOMAIN tasks \ DOMAIN tasks' = {t}
  BY DEF Retire
<1>2. key \notin DOMAIN task_runs
  BY DEF KeyNamesOneTask
<1>3. /\ DOMAIN task_runs' = DOMAIN task_runs \cup {key}
      /\ task_runs'[key].task_id = t
  BY <1>2 DEF Retire, Archive
<1> QED
  BY <1>1, <1>2, <1>3 DEF RecordedOrCancelled

\* An operator who cancels a batch takes away what nobody runs, no more.
LEMMA CancelTakesTheWaiting ==
    ASSUME TypeOK, NEW b \in DOMAIN task_batches,
           NEW action \in DOMAIN BackfillState, SetBackfillState(b, action)
    PROVE  \A u \in DOMAIN tasks \ DOMAIN tasks' : RecordedOrCancelled(u)
<1> SUFFICES ASSUME NEW u \in DOMAIN tasks \ DOMAIN tasks'
             PROVE  RecordedOrCancelled(u)
  OBVIOUS
<1>1. action = "cancel" /\ u \in Waiting(b)
  BY DEF SetBackfillState
<1>2. tasks[u].batch_id = b /\ tasks[u].status # "running"
  BY <1>1 DEF Waiting
<1>3. b \in 1..batch_seq /\ batch_seq \in 0..MaxBatches
  BY DEF TypeOK, BatchTypes
<1>4. b # NULL
  BY <1>3, BoundsAssumption, NullAssumption
<1>5. task_batches[b] \in Batches
  BY DEF TypeOK, BatchTypes
<1>6. task_batches'[b].status = "cancelled"
  BY <1>1, <1>5 DEF SetBackfillState, BackfillState, Batches
<1> QED
  BY <1>2, <1>4, <1>6 DEF RecordedOrCancelled

LEMMA RowsAreAccountedFor ==
    ASSUME KeysInv, [Next]_vars
    PROVE  [\A t \in DOMAIN tasks \ DOMAIN tasks' : RecordedOrCancelled(t)]_vars
<1>a. TypeOK /\ KeyNamesOneTask
  BY DEF KeysInv
<1>1. CASE DOMAIN tasks \subseteq DOMAIN tasks'
  BY <1>1
<1>2. ASSUME NEW g \in grants, NEW status \in {"succeeded", "partial"},
             CompleteTask(g, status)
      PROVE  \A t \in DOMAIN tasks \ DOMAIN tasks' : RecordedOrCancelled(t)
  BY <1>a, <1>2, RetireRecords DEF CompleteTask, HoldsLease
<1>3. ASSUME NEW g \in grants, NEW retryable \in BOOLEAN,
             NEW delay \in RetryDelays, FailTask(g, retryable, delay)
      PROVE  \A t \in DOMAIN tasks \ DOMAIN tasks' : RecordedOrCancelled(t)
  <2>1. g.task \in DOMAIN tasks
    BY <1>3 DEF FailTask, HoldsLease
  <2>2. CASE Retire(g.task, "dead", g.token)
    BY <1>a, <2>1, <2>2, RetireRecords
  <2>3. CASE tasks' = [tasks EXCEPT ![g.task] = Released(g.task, delay)]
    BY <2>3
  <2> QED
    BY <1>3, <2>2, <2>3 DEF FailTask
<1>4. ASSUME NEW b \in DOMAIN task_batches, NEW action \in DOMAIN BackfillState,
             SetBackfillState(b, action)
      PROVE  \A t \in DOMAIN tasks \ DOMAIN tasks' : RecordedOrCancelled(t)
  BY <1>a, <1>4, CancelTakesTheWaiting
<1>5. CASE \/ Tick \/ UNCHANGED vars
           \/ \E config \in Configs : ReconcileSources(config)
           \/ \E n \in Nodes, state \in DesiredStates : SetWorkerState(n, state)
           \/ \E n \in Nodes, mode \in Modes : EnrollWorker(n, mode)
  <2>1. tasks' = tasks
    BY <1>5 DEF Tick, ReconcileSources, SetWorkerState, EnrollWorker, vars,
                taskVars
  <2> QED
    BY <2>1, <1>1
<1>6. CASE Maintenance
  BY <1>1, <1>6 DEF Maintenance
<1>7. CASE RegisterDueSchedules
  <2>1. PICK n \in 1..MaxTasks : \E source_of : InsertsDue(n, source_of)
    BY <1>7, <1>a, DueInserts DEF TypeOK
  <2>2. PICK f : InsertsDue(n, f)
    BY <2>1
  <2> QED
    BY <1>1, <2>2 DEF InsertsDue, InsertTasks
<1>8. ASSUME NEW s \in Sources, NEW k \in ManualKeys, RegisterManual(s, k)
      PROVE  DOMAIN tasks \subseteq DOMAIN tasks'
  BY <1>8 DEF RegisterManual, InsertTasks
<1>9. ASSUME NEW s \in Sources, NEW n \in 1..MaxWindows, CreateBackfill(s, n)
      PROVE  DOMAIN tasks \subseteq DOMAIN tasks'
  BY <1>9 DEF CreateBackfill, InsertTasks
<1>10. ASSUME NEW n \in Nodes, NEW ts \in SUBSET DOMAIN tasks,
              NEW slot_of \in [Requires(ts) -> 1..MaxCapacity],
              ClaimTasks(n, ts, slot_of)
       PROVE  DOMAIN tasks \subseteq DOMAIN tasks'
  BY <1>10 DEF ClaimTasks, Claimed
<1>11. ASSUME NEW n \in Nodes, NEW running \in SUBSET {g \in grants : g.node = n},
              Heartbeat(n, running)
       PROVE  DOMAIN tasks \subseteq DOMAIN tasks'
  BY <1>11 DEF Heartbeat
<1> QED
  BY <1>1, <1>2, <1>3, <1>4, <1>5, <1>6, <1>7, <1>8, <1>9, <1>10, <1>11 DEF Next

\* No task disappears: the step that removes a row records it in the history,
\* or is an operator's cancel of a batch nobody was running that task of.
THEOREM TasksAreAccountedFor == Spec => NoTaskVanishes
<1>1. KeysInv /\ [Next]_vars =>
          [\A t \in DOMAIN tasks \ DOMAIN tasks' :
              LET row == tasks[t] IN
              \/ /\ row.dedupe_key \in DOMAIN task_runs' \ DOMAIN task_runs
                 /\ task_runs'[row.dedupe_key].task_id = t
              \/ /\ row.status # "running" /\ row.batch_id # NULL
                 /\ task_batches'[row.batch_id].status = "cancelled"]_vars
  BY RowsAreAccountedFor DEF RecordedOrCancelled
<1> QED
  BY <1>1, KeysHold, PTL DEF Spec, NoTaskVanishes

-----------------------------------------------------------------------------
(* The store implements LeaseProtocol *)

\* The envelopes handed out for a task are as many as its attempts.
GrantsAreCounted ==
    /\ IsFiniteSet(grants)
    /\ \A t \in DOMAIN tasks : ClaimsOf(t) = tasks[t].attempts

CountedInv == FencingInv /\ KeysInv /\ GrantsAreCounted

\* A claim adds one envelope for every task it takes, each under a new token.
LEMMA ClaimCounts ==
    ASSUME FencingInv, IsFiniteSet(grants), NEW n \in Nodes,
           NEW ts \in SUBSET DOMAIN tasks, NEW slot_of,
           ClaimTasks(n, ts, slot_of)
    PROVE  /\ IsFiniteSet(grants')
           /\ \A t : ClaimsOf(t)' = IF t \in ts THEN ClaimsOf(t) + 1
                                    ELSE ClaimsOf(t)
<1> DEFINE envelope(t) == [task |-> t, token |-> tasks[t].attempts + 1,
                           node |-> n, instance |-> workers[n].instance_id]
           new == {envelope(t) : t \in ts}
<1>1. grants' = grants \cup new
  BY DEF ClaimTasks
<1>2. IsFiniteSet(ts)
  <2>1. DOMAIN tasks \subseteq 1..task_seq /\ task_seq \in Int
    BY BoundsAssumption DEF FencingInv, TypeOK, TaskTypes
  <2>2. IsFiniteSet(1..task_seq)
    BY <2>1, FS_Interval
  <2> QED
    BY <2>1, <2>2, FS_Subset
<1>3. IsFiniteSet(new)
  <2> DEFINE f == [t \in ts |-> envelope(t)]
  <2>1. f \in Surjection(ts, new)
    BY DEF Surjection
  <2> QED
    BY <1>2, <2>1, FS_Surjection
<1>4. IsFiniteSet(grants')
  BY <1>1, <1>3, FS_Union
<1>5. \A t : IsFiniteSet({g \in grants : g.task = t})
  BY FS_Subset
<1>6. ASSUME NEW t, t \notin ts
      PROVE  ClaimsOf(t)' = ClaimsOf(t)
  <2>1. {g \in grants' : g.task = t} = {g \in grants : g.task = t}
    BY <1>1, <1>6
  <2> QED
    BY <2>1 DEF ClaimsOf
<1>7. ASSUME NEW t \in ts
      PROVE  ClaimsOf(t)' = ClaimsOf(t) + 1
  <2>1. {g \in grants' : g.task = t} = {g \in grants : g.task = t} \cup {envelope(t)}
    BY <1>1
  <2>2. envelope(t) \notin grants
    <3>1. t \in DOMAIN tasks /\ tasks[t].attempts \in Nat
      BY DEF FencingInv, TypeOK, TaskTypes, Tasks
    <3>2. \A g \in grants : g.task = t => g.token <= tasks[t].attempts
      BY <3>1 DEF FencingInv, GrantsAreClaims
    <3>3. PICK e : e = envelope(t)
      OBVIOUS
    <3>4. e.task = t /\ e.token = tasks[t].attempts + 1
      BY <3>3
    <3>5. e \notin grants
      BY <3>1, <3>2, <3>4
    <3> QED
      BY <3>3, <3>5
  <2>3. PICK old : old = {g \in grants : g.task = t}
    OBVIOUS
  <2>4. IsFiniteSet(old) /\ envelope(t) \notin old
    BY <1>5, <2>2, <2>3
  <2>5. Cardinality(old \cup {envelope(t)}) = Cardinality(old) + 1
    BY <2>4, FS_AddElement
  <2> QED
    BY <2>1, <2>3, <2>5 DEF ClaimsOf
<1> QED
  BY <1>4, <1>6, <1>7

\* Rows that keep their attempts, or go, are counted as before.
LEMMA CountsStay ==
    ASSUME GrantsAreCounted, UNCHANGED grants,
           DOMAIN tasks' \subseteq DOMAIN tasks,
           \A t \in DOMAIN tasks' : tasks'[t].attempts = tasks[t].attempts
    PROVE  GrantsAreCounted'
BY DEF GrantsAreCounted, ClaimsOf

\* No envelope names a task that is still to be registered.
LEMMA CountsInsert ==
    ASSUME FencingInv, GrantsAreCounted, NEW n \in Nat, NEW rows,
           InsertTasks(n, rows), \A i \in 1..n : rows[i].attempts = 0
    PROVE  GrantsAreCounted'
<1>1. /\ grants' = grants /\ task_seq \in Nat
      /\ DOMAIN tasks' = DOMAIN tasks \cup ((task_seq + 1)..(task_seq + n))
      /\ \A t \in DOMAIN tasks' :
             tasks'[t] = IF t \in DOMAIN tasks THEN tasks[t]
                         ELSE rows[t - task_seq]
  BY BoundsAssumption DEF FencingInv, TypeOK, TaskTypes, InsertTasks
<1>2. ASSUME NEW t \in DOMAIN tasks' \ DOMAIN tasks
      PROVE  ClaimsOf(t)' = tasks'[t].attempts
  <2>1. t \in (task_seq + 1)..(task_seq + n) /\ t - task_seq \in 1..n
    BY <1>1, <1>2
  <2>2. {g \in grants' : g.task = t} = {}
    BY <1>1, <2>1 DEF FencingInv, GrantsAreClaims
  <2> QED
    BY <1>1, <2>1, <2>2, FS_EmptySet DEF ClaimsOf
<1>3. ASSUME NEW t \in DOMAIN tasks
      PROVE  ClaimsOf(t)' = tasks'[t].attempts
  BY <1>1, <1>3 DEF GrantsAreCounted, ClaimsOf
<1> QED
  BY <1>1, <1>2, <1>3 DEF GrantsAreCounted
\* How a step moves tasks: it registers some, hands some out, puts some back
\* (or none), ends one, or takes back some that wait.
RegistersTasks(n, rows) ==
    /\ InsertTasks(n, rows) /\ n \in Nat
    /\ \A i \in 1..n : rows[i].status = "pending" /\ rows[i].attempts = 0

KeepsRows == /\ UNCHANGED <<task_seq, task_runs, grants>>
             /\ DOMAIN tasks' \subseteq DOMAIN tasks
             /\ \A t \in DOMAIN tasks' : tasks'[t].attempts = tasks[t].attempts

PutsBack(ts) ==
    /\ KeepsRows /\ DOMAIN tasks' = DOMAIN tasks /\ ts \subseteq DOMAIN tasks
    /\ \A t \in ts : tasks[t].status = "running" /\ tasks'[t].status # "running"
    /\ \A t \in DOMAIN tasks \ ts : tasks'[t].status = tasks[t].status

TakesBack(ts) ==
    /\ KeepsRows /\ DOMAIN tasks' = DOMAIN tasks \ ts /\ ts \subseteq DOMAIN tasks
    /\ \A t \in ts : tasks[t].status # "running"
    /\ \A t \in DOMAIN tasks' : tasks'[t].status = tasks[t].status

TaskMoves ==
    \/ \E n, rows : RegistersTasks(n, rows)
    \/ \E n \in Nodes, ts \in SUBSET DOMAIN tasks : \E slot_of :
           ClaimTasks(n, ts, slot_of)
    \/ \E ts : PutsBack(ts)
    \/ \E g \in grants : \E final :
           HoldsLease(g) /\ Retire(g.task, final, g.token)
    \/ \E ts : TakesBack(ts)

LEMMA StepsMoveTasks == TypeOK /\ [Next]_vars => TaskMoves
<1> SUFFICES ASSUME TypeOK, [Next]_vars
             PROVE  TaskMoves
  OBVIOUS
<1> USE DEF TaskMoves
<1>a. TaskTypes
  BY DEF TypeOK
<1>1. CASE UNCHANGED taskVars
  <2>1. PutsBack({})
    BY <1>1 DEF taskVars, PutsBack, KeepsRows
  <2> QED
    BY <2>1
<1>2. CASE Maintenance
  <2>1. /\ DOMAIN tasks' = DOMAIN tasks
        /\ \A t \in DOMAIN tasks : tasks'[t] = IF Stale(t) THEN Released(t, RequeueDelay)
                                               ELSE tasks[t]
        /\ UNCHANGED <<task_seq, task_runs, grants>>
    BY <1>2 DEF Maintenance
  <2>2. \A t \in DOMAIN tasks : /\ Released(t, RequeueDelay).attempts = tasks[t].attempts
                                /\ Released(t, RequeueDelay).status = "retry"
    BY <1>a, ReleasedRow, BoundsAssumption
  <2>3. \A t : Stale(t) => tasks[t].status = "running"
    BY DEF Stale
  <2>4. PutsBack({t \in DOMAIN tasks : Stale(t)})
    BY <2>1, <2>2, <2>3 DEF PutsBack, KeepsRows
  <2> QED
    BY <2>4
<1>3. CASE RegisterDueSchedules
  <2>1. PICK n \in 1..MaxTasks : \E source_of : InsertsDue(n, source_of)
    BY <1>3, DueInserts
  <2>2. PICK source_of : InsertsDue(n, source_of)
    BY <2>1
  <2> DEFINE rows == [i \in 1..n |-> DueTask(source_of[i])]
  <2>3. InsertTasks(n, rows) /\ n \in Nat
    BY <2>2, BoundsAssumption DEF InsertsDue
  <2>4. \A i \in 1..n : rows[i].status = "pending" /\ rows[i].attempts = 0
    BY NewTaskRow DEF DueTask
  <2> HIDE DEF rows
  <2> QED
    BY <2>3, <2>4 DEF RegistersTasks
<1>4. ASSUME NEW s \in Sources, NEW k \in ManualKeys, RegisterManual(s, k)
      PROVE  TaskMoves
  <2> DEFINE rows == [i \in {1} |->
                 NewTask(ManualKey(k), s, "manual", NULL, NULL, ControllerNow)]
  <2>1. InsertTasks(1, rows)
    BY <1>4 DEF RegisterManual
  <2>2. \A i \in 1..1 : rows[i].status = "pending" /\ rows[i].attempts = 0
    BY NewTaskRow
  <2> HIDE DEF rows
  <2>3. RegistersTasks(1, rows)
    BY <2>1, <2>2 DEF RegistersTasks
  <2> QED
    BY <2>3
<1>5. ASSUME NEW s \in Sources, NEW n \in 1..MaxWindows, CreateBackfill(s, n)
      PROVE  TaskMoves
  <2> DEFINE b == batch_seq + 1
             rows == [w \in 1..n |->
                 NewTask(BackfillKey(b, w), s, "backfill", NULL, b, ControllerNow)]
  <2>1. InsertTasks(n, rows) /\ n \in Nat
    BY <1>5, BoundsAssumption DEF CreateBackfill
  <2>2. \A i \in 1..n : rows[i].status = "pending" /\ rows[i].attempts = 0
    BY NewTaskRow
  <2> HIDE DEF rows
  <2>3. RegistersTasks(n, rows)
    BY <2>1, <2>2 DEF RegistersTasks
  <2> QED
    BY <2>3
<1>6. ASSUME NEW b \in DOMAIN task_batches, NEW action \in DOMAIN BackfillState,
             SetBackfillState(b, action)
      PROVE  TaskMoves
  <2>1. TakesBack(IF action = "cancel" THEN Waiting(b) ELSE {})
    BY <1>6 DEF SetBackfillState, Waiting, TakesBack, KeepsRows
  <2> QED
    BY <2>1
<1>7. ASSUME NEW n \in Nodes, NEW ts \in SUBSET DOMAIN tasks,
             NEW slot_of \in [Requires(ts) -> 1..MaxCapacity],
             ClaimTasks(n, ts, slot_of)
      PROVE  TaskMoves
  BY <1>7
<1>8. ASSUME NEW n \in Nodes, NEW running \in SUBSET {g \in grants : g.node = n},
             Heartbeat(n, running)
      PROVE  TaskMoves
  <2>1. PutsBack({})
    BY <1>8, <1>a DEF Heartbeat, TaskTypes, Tasks, PutsBack, KeepsRows
  <2> QED
    BY <2>1
<1>9. ASSUME NEW g \in grants, NEW status \in {"succeeded", "partial"},
             CompleteTask(g, status)
      PROVE  TaskMoves
  BY <1>9 DEF CompleteTask
<1>10. ASSUME NEW g \in grants, NEW retryable \in BOOLEAN, NEW delay \in RetryDelays,
              FailTask(g, retryable, delay)
       PROVE  TaskMoves
  <2>0. HoldsLease(g) /\ g.task \in DOMAIN tasks /\ tasks[g.task].status = "running"
    BY <1>10 DEF FailTask, HoldsLease
  <2>1. CASE Retire(g.task, "dead", g.token)
    BY <2>0, <2>1
  <2>2. CASE ~Retire(g.task, "dead", g.token)
    <3>1. /\ tasks' = [tasks EXCEPT ![g.task] = Released(g.task, delay)]
          /\ UNCHANGED <<task_seq, task_runs, grants>>
      BY <1>10, <2>2 DEF FailTask
    <3>2. /\ Released(g.task, delay).attempts = tasks[g.task].attempts
          /\ Released(g.task, delay).status = "retry"
      BY <1>a, <2>0, ReleasedRow, BoundsAssumption
    <3>3. PutsBack({g.task})
      BY <2>0, <3>1, <3>2 DEF PutsBack, KeepsRows
    <3> QED
      BY <3>3
  <2> QED
    BY <2>1, <2>2
<1>11. CASE \/ Tick \/ UNCHANGED vars
            \/ \E config \in Configs : ReconcileSources(config)
            \/ \E n \in Nodes, state \in DesiredStates : SetWorkerState(n, state)
            \/ \E n \in Nodes, mode \in Modes : EnrollWorker(n, mode)
  BY <1>1, <1>11 DEF Tick, ReconcileSources, SetWorkerState, EnrollWorker, vars
<1> QED
  BY <1>2, <1>3, <1>4, <1>5, <1>6, <1>7, <1>8, <1>9, <1>10, <1>11 DEF Next

LEMMA CountedStep == CountedInv /\ [Next]_vars => CountedInv'
<1> SUFFICES ASSUME CountedInv, [Next]_vars
             PROVE  GrantsAreCounted'
  BY FencingStep, KeysStep DEF CountedInv
<1> USE DEF CountedInv
<1>a. TaskMoves
  BY StepsMoveTasks DEF FencingInv
<1>1. ASSUME NEW n, NEW rows, RegistersTasks(n, rows)
      PROVE  GrantsAreCounted'
  BY <1>1, CountsInsert DEF RegistersTasks
<1>2. ASSUME NEW n \in Nodes, NEW ts \in SUBSET DOMAIN tasks, NEW slot_of,
             ClaimTasks(n, ts, slot_of)
      PROVE  GrantsAreCounted'
  <2>1. /\ IsFiniteSet(grants')
        /\ \A t : ClaimsOf(t)' = IF t \in ts THEN ClaimsOf(t) + 1 ELSE ClaimsOf(t)
    BY <1>2, ClaimCounts DEF GrantsAreCounted
  <2>2. /\ DOMAIN tasks' = DOMAIN tasks
        /\ \A t \in DOMAIN tasks :
               tasks'[t].attempts = IF t \in ts THEN tasks[t].attempts + 1
                                    ELSE tasks[t].attempts
    BY <1>2 DEF ClaimTasks, Claimed, FencingInv, TypeOK, TaskTypes, Tasks
  <2> QED
    BY <2>1, <2>2 DEF GrantsAreCounted
<1>3. ASSUME KeepsRows
      PROVE  GrantsAreCounted'
  BY <1>3, CountsStay DEF KeepsRows
<1>4. ASSUME NEW g \in grants, NEW final, Retire(g.task, final, g.token)
      PROVE  GrantsAreCounted'
  BY <1>4, CountsStay DEF Retire
<1> QED
  BY <1>a, <1>1, <1>2, <1>3, <1>4 DEF TaskMoves, PutsBack, TakesBack

LEMMA Counted == Spec => []CountedInv
<1>1. Init => CountedInv
  <2>1. Init => GrantsAreCounted
    BY FS_EmptySet DEF Init, GrantsAreCounted
  <2>2. Init => KeysInv
    BY InitTypes DEF Init, KeysInv, KeyNamesOneTask, BatchKeysAreOld, UsedKeys
  <2> QED
    BY <2>1, <2>2, FencingInit DEF CountedInv
<1> QED
  BY <1>1, CountedStep, PTL DEF Spec

\* Tasks that change phase together make a move of the protocol.
LEMMA PhasesMove ==
    ASSUME NEW ts \in SUBSET (1..MaxTasks), NEW from, NEW to,
           \A t \in ts : PhaseOf(t) = from /\ PhaseOf(t)' = to,
           \A t \in (1..MaxTasks) \ ts : PhaseOf(t)' = PhaseOf(t)
    PROVE  Leasing!Move(ts, from, to)
BY DEF Leasing!Move

\* Claims and ends are where envelopes and runs are.
LEMMA ClaimsStay ==
    ASSUME UNCHANGED grants
    PROVE  [t \in 1..MaxTasks |-> ClaimsOf(t)]' = [t \in 1..MaxTasks |-> ClaimsOf(t)]
BY DEF ClaimsOf

LEMMA EndsStay ==
    ASSUME UNCHANGED task_runs
    PROVE  /\ [t \in 1..MaxTasks |-> EndedBy(t)]' = [t \in 1..MaxTasks |-> EndedBy(t)]
           /\ \A t : RunsOf(t)' = RunsOf(t)
BY DEF EndedBy, RunsOf

LEMMA RegisteredMoves ==
    ASSUME CountedInv, NEW n, NEW rows, RegistersTasks(n, rows)
    PROVE  \E ts \in SUBSET (1..MaxTasks) : Leasing!Register(ts)
<1> DEFINE new == (task_seq + 1)..(task_seq + n)
<1>1. /\ task_seq \in Nat /\ n \in Nat /\ MaxTasks \in Nat
      /\ task_seq' = task_seq + n /\ task_seq' <= MaxTasks
      /\ DOMAIN tasks \subseteq 1..task_seq
      /\ DOMAIN tasks' = DOMAIN tasks \cup new
      /\ \A t \in DOMAIN tasks' :
             tasks'[t] = IF t \in DOMAIN tasks THEN tasks[t] ELSE rows[t - task_seq]
      /\ UNCHANGED <<task_runs, grants>>
  BY BoundsAssumption DEF RegistersTasks, InsertTasks, CountedInv, FencingInv,
                          TypeOK, TaskTypes
<1>2. new \subseteq 1..MaxTasks
  BY <1>1
<1>3. ASSUME NEW t \in new PROVE PhaseOf(t) = "unknown" /\ PhaseOf(t)' = "waiting"
  <2>1. t \notin DOMAIN tasks /\ t > task_seq /\ t - task_seq \in 1..n
    BY <1>1
  <2>2. tasks'[t].status = "pending" /\ t \in DOMAIN tasks'
    BY <1>1, <2>1 DEF RegistersTasks
  <2> QED
    BY <2>1, <2>2 DEF PhaseOf
<1>4. ASSUME NEW t \in (1..MaxTasks) \ new PROVE PhaseOf(t)' = PhaseOf(t)
  <2>1. /\ t > task_seq' <=> t > task_seq
        /\ t \in DOMAIN tasks' <=> t \in DOMAIN tasks
        /\ t \in DOMAIN tasks => tasks'[t] = tasks[t]
    BY <1>1
  <2>2. RunsOf(t)' = RunsOf(t)
    BY <1>1, EndsStay
  <2> QED
    BY <2>1, <2>2 DEF PhaseOf
<1> HIDE DEF new
<1>5. Leasing!Move(new, "unknown", "waiting")
  BY <1>2, <1>3, <1>4, PhasesMove
<1>6. Leasing!Register(new)
  BY <1>1, <1>5, ClaimsStay, EndsStay DEF Leasing!Register
<1> QED
  BY <1>2, <1>6

LEMMA ClaimedMoves ==
    ASSUME CountedInv, NEW n \in Nodes, NEW ts \in SUBSET DOMAIN tasks,
           NEW slot_of, ClaimTasks(n, ts, slot_of)
    PROVE  \E us \in SUBSET (1..MaxTasks) : Leasing!Lease(us)
<1>1. /\ DOMAIN tasks' = DOMAIN tasks
      /\ \A t \in ts : tasks[t].status # "running" /\ tasks'[t].status = "running"
      /\ \A t \in DOMAIN tasks \ ts : tasks'[t] = tasks[t]
      /\ UNCHANGED <<task_seq, task_runs>>
  BY DEF ClaimTasks, Claimed, Eligible, CountedInv, FencingInv, TypeOK, TaskTypes,
         Tasks
<1>2. ts \subseteq 1..MaxTasks
  BY BoundsAssumption DEF CountedInv, FencingInv, TypeOK, TaskTypes
<1>3. \A t \in ts : PhaseOf(t) = "waiting" /\ PhaseOf(t)' = "leased"
  BY <1>1 DEF PhaseOf
<1>4. \A t \in (1..MaxTasks) \ ts : PhaseOf(t)' = PhaseOf(t)
  BY <1>1, EndsStay DEF PhaseOf
<1>5. Leasing!Move(ts, "waiting", "leased")
  BY <1>2, <1>3, <1>4, PhasesMove
<1>6. \A t : ClaimsOf(t)' = IF t \in ts THEN ClaimsOf(t) + 1 ELSE ClaimsOf(t)
  BY ClaimCounts DEF CountedInv, GrantsAreCounted
<1>7. [t \in 1..MaxTasks |-> ClaimsOf(t)]'
          = [t \in 1..MaxTasks |-> IF t \in ts
                                   THEN [u \in 1..MaxTasks |-> ClaimsOf(u)][t] + 1
                                   ELSE [u \in 1..MaxTasks |-> ClaimsOf(u)][t]]
  BY <1>6
<1>8. Leasing!Lease(ts)
  BY <1>1, <1>5, <1>7, EndsStay DEF Leasing!Lease
<1> QED
  BY <1>2, <1>8

LEMMA PutBackMoves ==
    ASSUME CountedInv, NEW ts, PutsBack(ts)
    PROVE  \E us \in SUBSET (1..MaxTasks) : Leasing!Release(us)
<1>1. ts \subseteq 1..MaxTasks
  BY BoundsAssumption DEF PutsBack, CountedInv, FencingInv, TypeOK, TaskTypes
<1>2. \A t \in ts : PhaseOf(t) = "leased" /\ PhaseOf(t)' = "waiting"
  BY DEF PutsBack, PhaseOf
<1>3. \A t \in (1..MaxTasks) \ ts : PhaseOf(t)' = PhaseOf(t)
  BY EndsStay DEF PutsBack, KeepsRows, PhaseOf
<1>4. Leasing!Move(ts, "leased", "waiting")
  BY <1>1, <1>2, <1>3, PhasesMove
<1>5. Leasing!Release(ts)
  BY <1>4, ClaimsStay, EndsStay DEF Leasing!Release, PutsBack, KeepsRows
<1> QED
  BY <1>1, <1>5

\* What an operator takes back nobody ran to its end.
LEMMA TakenBackMoves ==
    ASSUME CountedInv, NEW ts, TakesBack(ts)
    PROVE  \E us \in SUBSET (1..MaxTasks) : Leasing!Withdraw(us)
<1>1. /\ ts \subseteq 1..MaxTasks
      /\ \A t \in ts : ~(t > task_seq)
  BY BoundsAssumption DEF TakesBack, CountedInv, FencingInv, TypeOK, TaskTypes
<1>2. ASSUME NEW t \in ts PROVE PhaseOf(t) = "waiting" /\ PhaseOf(t)' = "withdrawn"
  <2>1. RunsOf(t) = {} /\ RunsOf(t)' = {}
    BY EndsStay DEF TakesBack, KeepsRows, RunsOf, CountedInv, FencingInv,
                    HistoryIsOver
  <2> QED
    BY <1>1, <2>1 DEF TakesBack, KeepsRows, PhaseOf
<1>3. \A t \in (1..MaxTasks) \ ts : PhaseOf(t)' = PhaseOf(t)
  BY EndsStay DEF TakesBack, KeepsRows, PhaseOf
<1>4. Leasing!Move(ts, "waiting", "withdrawn")
  BY <1>1, <1>2, <1>3, PhasesMove
<1>5. Leasing!Withdraw(ts)
  BY <1>4, ClaimsStay, EndsStay DEF Leasing!Withdraw, TakesBack, KeepsRows
<1> QED
  BY <1>1, <1>5

\* The run of the holder's report is the first of its task, and the only one.
LEMMA RetiredMoves ==
    ASSUME CountedInv, NEW g \in grants, NEW final, HoldsLease(g),
           Retire(g.task, final, g.token)
    PROVE  \E t \in 1..MaxTasks : Leasing!End(t)
<1> DEFINE t == g.task
           key == tasks[t].dedupe_key
<1>1. /\ t \in DOMAIN tasks /\ tasks[t].status = "running"
      /\ g.token = ClaimsOf(t)
  BY DEF CountedInv, FencingInv, TokensAreClaims, HoldsLease, GrantsAreCounted
<1>2. t \in 1..MaxTasks /\ ~(t > task_seq)
  BY <1>1, BoundsAssumption DEF CountedInv, FencingInv, TypeOK, TaskTypes
<1>3. /\ DOMAIN tasks' = DOMAIN tasks \ {t} /\ UNCHANGED <<task_seq, grants>>
      /\ \A u \in DOMAIN tasks' : tasks'[u] = tasks[u]
  BY DEF Retire
<1>4. key \notin DOMAIN task_runs
  BY <1>1 DEF CountedInv, KeysInv, KeyNamesOneTask
<1>5. /\ DOMAIN task_runs' = DOMAIN task_runs \cup {key}
      /\ \A k \in DOMAIN task_runs : task_runs'[k] = task_runs[k]
      /\ task_runs'[key].task_id = t /\ task_runs'[key].result = g.token
  BY <1>4 DEF Retire, Archive
<1>6. RunsOf(t) = {}
  BY <1>1 DEF RunsOf, CountedInv, FencingInv, HistoryIsOver
<1>7. RunsOf(t)' = {key}
  BY <1>5, <1>6 DEF RunsOf
<1>8. EndedBy(t)' = ClaimsOf(t)
  <2>1. (CHOOSE k \in RunsOf(t)' : TRUE) = key
    BY <1>7
  <2> QED
    BY <1>1, <1>5, <1>7, <2>1 DEF EndedBy
<1>9. ASSUME NEW u \in (1..MaxTasks) \ {t}
      PROVE  PhaseOf(u)' = PhaseOf(u) /\ EndedBy(u)' = EndedBy(u)
  <2>1. RunsOf(u)' = RunsOf(u)
    BY <1>5 DEF RunsOf
  <2>2. EndedBy(u)' = EndedBy(u)
    <3>1. CASE RunsOf(u) = {}
      BY <2>1, <3>1 DEF EndedBy
    <3>2. CASE RunsOf(u) # {}
      <4>1. PICK k : k = CHOOSE j \in RunsOf(u) : TRUE
        OBVIOUS
      <4>2. k \in DOMAIN task_runs
        BY <3>2, <4>1 DEF RunsOf
      <4>3. EndedBy(u) = task_runs[k].result
        BY <3>2, <4>1 DEF EndedBy
      <4>4. EndedBy(u)' = task_runs'[k].result
        BY <2>1, <3>2, <4>1 DEF EndedBy
      <4> QED
        BY <1>5, <4>2, <4>3, <4>4
    <3> QED
      BY <3>1, <3>2
  <2>3. PhaseOf(u)' = PhaseOf(u)
    BY <1>3, <2>1 DEF PhaseOf
  <2> QED
    BY <2>2, <2>3
<1>10. PhaseOf(t) = "leased"
  BY <1>1 DEF PhaseOf
<1>11. PhaseOf(t)' = "ended"
  BY <1>2, <1>3, <1>7 DEF PhaseOf
<1>12. Leasing!Move({t}, "leased", "ended")
  BY <1>2, <1>9, <1>10, <1>11, PhasesMove
<1>13. [u \in 1..MaxTasks |-> EndedBy(u)]'
           = [[u \in 1..MaxTasks |-> EndedBy(u)] EXCEPT ![t] = ClaimsOf(t)]
  BY <1>2, <1>8, <1>9
<1>14. [u \in 1..MaxTasks |-> ClaimsOf(u)][t] = ClaimsOf(t)
  BY <1>2
<1>15. Leasing!End(t)
  BY <1>3, <1>12, <1>13, <1>14, ClaimsStay DEF Leasing!End
<1> QED
  BY <1>2, <1>15

\* Whatever the constants, the transactions of the store hand out, put back,
\* end and withdraw tasks as LeaseProtocol says: one execution at a time holds
\* a task, and the one that received it last is the one that ends it.
THEOREM StoreImplementsLeases == Spec => ImplementsLeaseProtocol
<1>1. Init => Leasing!ProtocolInit
  <2> SUFFICES ASSUME Init PROVE Leasing!ProtocolInit
    OBVIOUS
  <2>1. \A t \in 1..MaxTasks :
            PhaseOf(t) = "unknown" /\ ClaimsOf(t) = 0 /\ EndedBy(t) = 0
    BY BoundsAssumption, FS_EmptySet DEF Init, PhaseOf, ClaimsOf, EndedBy, RunsOf
  <2> QED
    BY <2>1 DEF Leasing!ProtocolInit
<1>2. CountedInv /\ [Next]_vars => [Leasing!ProtocolNext]_(Leasing!protocolVars)
  <2> SUFFICES ASSUME CountedInv, [Next]_vars
               PROVE  Leasing!ProtocolNext
    OBVIOUS
  <2>1. TaskMoves
    BY StepsMoveTasks DEF CountedInv, FencingInv
  <2> QED
    BY <2>1, RegisteredMoves, ClaimedMoves, PutBackMoves, TakenBackMoves, RetiredMoves
       DEF TaskMoves, Leasing!ProtocolNext
<1> QED
  BY <1>1, <1>2, Counted, PTL DEF Spec, ImplementsLeaseProtocol, Leasing!Protocol
=============================================================================
