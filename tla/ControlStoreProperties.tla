---------------------- MODULE ControlStoreProperties ----------------------
(***************************************************************************)
(* What the transactions of ControlStore promise together.                 *)
(***************************************************************************)
EXTENDS ControlStore

Optional(S) == S \cup {NULL}

Keys == [kind: {"schedule"}, of: Sources, at: Int]
          \cup [kind: {"manual"}, of: ManualKeys, at: {0}]
          \cup [kind: {"backfill"}, of: 1..MaxBatches, at: 1..MaxWindows]

Tasks ==
    [dedupe_key: Keys, source_id: Sources,
     workload: {"scheduled", "manual", "backfill"},
     schedule_id: Optional(Sources), batch_id: Optional(1..MaxBatches),
     snapshot: Specs, status: {"pending", "retry", "running"},
     not_before: Int, attempts: Nat, locked_by: Optional(Nodes),
     heartbeat_at: Optional(Nat), lease_token: Optional(Nat)]

Runs ==
    [task_id: 1..MaxTasks, batch_id: Optional(1..MaxBatches),
     final_status: {"succeeded", "partial", "dead"}, attempts: Nat,
     lease_token: Nat, result: Nat]

Batches ==
    [status: {"running", "paused", "completed", "partial", "cancelled"},
     total_tasks: Nat, completed_tasks: Nat, failed_tasks: Nat,
     completed_at: Optional(Nat)]

Leases ==
    [resource_key: Resources, slot: 1..MaxCapacity, task_id: 1..MaxTasks,
     lease_token: Nat, worker_id: Nodes, expires_at: Nat]

ClockTypes == now \in 0..MaxTime /\ last_maintenance \in 0..now

SourceTypes ==
    /\ DOMAIN sources \subseteq Sources /\ DOMAIN schedules = DOMAIN sources
    /\ \A s \in DOMAIN sources :
           sources[s] \in [enabled: BOOLEAN, spec: Specs]
    /\ \A s \in DOMAIN schedules :
           schedules[s] \in [enabled: BOOLEAN, next_run_at: Optional(Int),
                             active_task_id: Optional(1..MaxTasks)]

BatchTypes ==
    /\ batch_seq \in 0..MaxBatches /\ DOMAIN task_batches = 1..batch_seq
    /\ \A b \in DOMAIN task_batches : task_batches[b] \in Batches

TaskTypes ==
    /\ task_seq \in 0..MaxTasks /\ DOMAIN tasks \subseteq 1..task_seq
    /\ \A t \in DOMAIN tasks : tasks[t] \in Tasks

HistoryTypes == /\ DOMAIN task_runs \subseteq Keys
                /\ \A k \in DOMAIN task_runs : task_runs[k] \in Runs

WorkerTypes ==
    /\ resource_leases \subseteq Leases
    /\ workers \in [Nodes -> [instance_id: Nat \ {0}, mode: Modes,
                              desired_state: {"online", "draining", "disabled"}]]
    /\ grants \subseteq [task: 1..MaxTasks, token: Nat \ {0}, node: Nodes,
                         instance: Nat \ {0}]

\* Every row has the columns its table declares, with values the CHECK and
\* NOT NULL constraints of 0001_initial.py allow, and ids come from their
\* sequences.
TypeOK == /\ ClockTypes /\ SourceTypes /\ BatchTypes /\ TaskTypes
          /\ HistoryTypes /\ WorkerTypes

-----------------------------------------------------------------------------
(* Registration, fencing and archival *)

\* An idempotency key names one task for good: no two live tasks share it and
\* none reuses the key of an archived one, whatever is registered again, and
\* when (the comment at the head of _insert_task).
KeyNamesOneTask ==
    /\ \A t, u \in DOMAIN tasks :
           tasks[t].dedupe_key = tasks[u].dedupe_key => t = u
    /\ \A t \in DOMAIN tasks : tasks[t].dedupe_key \notin DOMAIN task_runs

\* A task row goes away in one of two ways: the same transaction adds the run
\* that records it, or an operator cancelled its batch while nobody ran it.
\* No report is lost to the ON CONFLICT DO NOTHING of _archive.
NoTaskVanishes ==
    [][\A t \in DOMAIN tasks \ DOMAIN tasks' :
          LET row == tasks[t] IN
          \/ /\ row.dedupe_key \in DOMAIN task_runs' \ DOMAIN task_runs
             /\ task_runs'[row.dedupe_key].task_id = t
          \/ /\ row.status # "running" /\ row.batch_id # NULL
             /\ task_batches'[row.batch_id].status = "cancelled"]_vars

\* History holds the report of the last execution a task was given to: one
\* whose lease had passed to another claim never writes it, however late it
\* reports (complete_task and fail_task compare the lease token).
HistoryIsOfTheLastClaim ==
    \A k \in DOMAIN task_runs :
        LET run == task_runs[k] IN
        /\ run.result = run.lease_token
        /\ \A g \in grants : g.task = run.task_id => g.token <= run.result

\* A resource slot is held on behalf of the execution that now has the task,
\* and of nobody else: requeues, retries, reports and expiry all release it.
LeasesBelongToRunningTasks ==
    \A r \in resource_leases :
        /\ r.task_id \in DOMAIN tasks
        /\ tasks[r.task_id].status = "running"
        /\ tasks[r.task_id].lease_token = r.lease_token
        /\ tasks[r.task_id].locked_by = r.worker_id

\* A claim that takes several tasks gives each its own slots, so that it does
\* not run into the unique constraints of resource_leases by itself.
LeaseSlotsAreDistinct ==
    \A r, q \in resource_leases :
        r.resource_key = q.resource_key
            /\ (r.slot = q.slot \/ r.task_id = q.task_id) => r = q

\* A running task still holds every resource it was claimed with: its lease
\* outlives the last moment at which maintenance may requeue the task.
RunningTasksHoldTheirResources ==
    \A t \in DOMAIN tasks :
        tasks[t].status = "running" =>
            \A k \in DOMAIN tasks[t].snapshot.resources :
                \E r \in resource_leases :
                    /\ r.resource_key = k /\ r.task_id = t
                    /\ r.expires_at > now

Users(k) == {t \in DOMAIN tasks : /\ tasks[t].status = "running"
                                  /\ k \in DOMAIN tasks[t].snapshot.resources}

\* The tasks in execution never outnumber the capacity of a resource they
\* share (the largest any of them declares for it).
CapacityRespected ==
    \A k \in Resources :
        Users(k) # {} => \E t \in Users(k) :
            Cardinality(Users(k)) <= tasks[t].snapshot.resources[k]

-----------------------------------------------------------------------------
(* Schedules *)

\* A schedule has at most one task in flight, and knows it: a task registered
\* by a schedule is the one its active_task_id names until the task is
\* archived, through retries, requeues and edits of the sources file.
ScheduleOwnsItsTask ==
    \A s \in DOMAIN schedules :
        /\ schedules[s].active_task_id # NULL =>
               /\ schedules[s].active_task_id \in DOMAIN tasks
               /\ tasks[schedules[s].active_task_id].schedule_id = s
        /\ \A t \in DOMAIN tasks :
               tasks[t].schedule_id = s => schedules[s].active_task_id = t

\* A schedule that waits for its time waits for a run nobody has had yet:
\* were its key in use, _insert_task would refuse it at every tick and the
\* schedule would never move again.
ArmedRunsAreNew ==
    \A s \in DOMAIN schedules :
        /\ schedules[s].enabled
        /\ schedules[s].active_task_id = NULL
        /\ schedules[s].next_run_at # NULL
        => ScheduleKey(s, schedules[s].next_run_at) \notin UsedKeys

\* A source that is enabled with a recurring schedule keeps running: it has a
\* task in flight or an instant at which the next one is due.
RecurringSourcesStayScheduled ==
    \A s \in DOMAIN sources :
        sources[s].enabled /\ sources[s].spec.schedule.type # "once" =>
            /\ schedules[s].enabled
            /\ \/ schedules[s].active_task_id # NULL
               \/ schedules[s].next_run_at # NULL

-----------------------------------------------------------------------------
(* Batches *)

BatchRuns(b) == {k \in DOMAIN task_runs : task_runs[k].batch_id = b}
BatchTasks(b) == {t \in DOMAIN tasks : tasks[t].batch_id = b}

\* The counters of a batch are the history: completed_tasks and failed_tasks
\* count its archived runs, and until an operator cancels it every other task
\* of the batch is still there.
BatchCountsItsRuns ==
    \A b \in DOMAIN task_batches :
        LET row == task_batches[b] IN
        /\ row.completed_tasks = Cardinality(BatchRuns(b))
        /\ row.failed_tasks = Cardinality(
               {k \in BatchRuns(b) :
                   task_runs[k].final_status \in {"partial", "dead"}})
        /\ row.status # "cancelled" =>
               row.total_tasks = row.completed_tasks
                                     + Cardinality(BatchTasks(b))

\* A batch that is open has work left, and one reported completed or partial
\* has none: neither a retry, a pause nor a lost worker ends it early or
\* leaves it open for ever.
BatchEndsWithItsLastTask ==
    \A b \in DOMAIN task_batches :
        LET row == task_batches[b] IN
        /\ row.status \in {"running", "paused"} => BatchTasks(b) # {}
        /\ row.status \in {"completed", "partial"} => BatchTasks(b) = {}
        /\ row.status = "completed" => row.failed_tasks = 0
        /\ row.status = "partial" => row.failed_tasks > 0

\* History backfill leaves a resident worker its other slots: however its
\* claims interleave with reports and requeues, it never runs more backfill
\* than resident_backfill_slots.
BackfillLeavesRoom ==
    \A n \in Nodes : workers[n].mode = "resident" =>
        Cost({t \in BackfillOf(DOMAIN tasks) :
                  tasks[t].status = "running" /\ tasks[t].locked_by = n})
            <= ResidentBackfillSlots
=============================================================================
