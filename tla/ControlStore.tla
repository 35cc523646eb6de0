--------------------------- MODULE ControlStore ---------------------------
(***************************************************************************)
(* The control plane of the collector: the rows of PostgreSQL that decide  *)
(* who may execute what (sources, schedules, task_batches, tasks,          *)
(* task_runs, resource_leases, workers) and one action for every           *)
(* transaction of ControlStore (services/controller, store.py) that        *)
(* changes them.  A transaction that returns early changes nothing: it is  *)
(* a stuttering step, so every early return is a guard here.               *)
(*                                                                         *)
(* Workers are seen from the database: `grants` holds the envelopes claim  *)
(* responses have carried away, and whoever received one may report on it  *)
(* or send heartbeats for it at any later time, once, often, or never.     *)
(***************************************************************************)
EXTENDS Integers, FiniteSets, Functions

CONSTANTS
    Sources, Nodes, Resources, ManualKeys, Modes,
    DesiredStates,         \* the states an operator sets
    NULL,                  \* SQL NULL
    Specs,                 \* the validated SourceSpec values in play
    Configs,               \* the contents the sources file may have
    Crons,                 \* cron expressions
    CronNext,              \* croniter(c, t).get_next(): CronNext[c][t]
    Spread,                \* hash(source_id) % min(seconds, 60), in clock units
    Serves,                \* the routing requirements each node satisfies
    ClockSkew,             \* controller clock minus database clock
    LookBack,              \* the "- timedelta(seconds=1)" of reconcile_sources
    TaskStaleSeconds, LeaseFloor, LeaseMargin, RequeueDelay,
    RetryDelays,           \* the delays fail_task can compute or be sent
    ResidentBackfillSlots,
    RegistrarGap,          \* longest time between two maintenance passes
    MaxSlots, MaxCapacity, \* the largest available_slots, resource capacity
    MaxTime, MaxTasks, MaxBatches, MaxWindows, MaxClaims,
    MaxInstances           \* bounds on the explored state space

VARIABLES
    now,                   \* the database clock, NOW()
    sources, schedules,    \* rows by source_id; schedule_id is "source:" + it
    task_batches, tasks,
    batch_seq, task_seq,   \* the BIGSERIAL ids given out so far
    task_runs,             \* rows by dedupe_key
    resource_leases, workers,
    grants,                \* the claims handed to workers so far
    last_maintenance

taskVars == <<tasks, task_seq, task_runs, resource_leases, grants>>
batchVars == <<task_batches, batch_seq>>
vars == <<now, sources, schedules, workers, last_maintenance, batchVars,
          taskVars>>

-----------------------------------------------------------------------------
(* Values *)

\* ttl = max(300, task_stale_seconds + 60)
LeaseTtl == IF LeaseFloor > TaskStaleSeconds + LeaseMargin
            THEN LeaseFloor ELSE TaskStaleSeconds + LeaseMargin

\* datetime.now(UTC) in the controller process
ControllerNow == now + ClockSkew

ScheduleKey(s, due) == [kind |-> "schedule", of |-> s, at |-> due]
ManualKey(k)        == [kind |-> "manual",   of |-> k, at |-> 0]
BackfillKey(b, w)   == [kind |-> "backfill", of |-> b, at |-> w]

\* Every instant at which the controller asks for a following run.
Instants == (ClockSkew - LookBack)..(MaxTime + ClockSkew)

ASSUME BoundsAssumption ==
    /\ MaxSlots \in Nat /\ MaxCapacity \in Nat /\ MaxTime \in Nat
    /\ MaxTasks \in Nat /\ MaxBatches \in Nat /\ MaxWindows \in Nat
    /\ MaxClaims \in Nat /\ MaxInstances \in Nat /\ RegistrarGap \in Nat
    /\ TaskStaleSeconds \in Nat /\ LeaseFloor \in Nat /\ LeaseMargin \in Nat
    /\ RequeueDelay \in Nat /\ LookBack \in Nat
    /\ ResidentBackfillSlots \in Nat
    /\ RetryDelays \subseteq Nat
    /\ ClockSkew \in Int
    /\ DesiredStates \subseteq {"online", "draining", "disabled"}

\* croniter promises a later instant; the spread is rounded up to a whole
\* clock unit, because two microsecond timestamps never coincide.
ASSUME ScheduleAssumption ==
    /\ Spread \in [Sources -> Nat \ {0}]
    /\ CronNext \in [Crons -> [Instants -> Int]]
    /\ \A c \in Crons, t \in Instants : CronNext[c][t] > t

ASSUME SpecsAssumption ==
    \A p \in Specs :
        /\ p.enabled \in BOOLEAN /\ p.backfill_enabled \in BOOLEAN
        /\ p.schedule.type \in {"interval", "cron", "once"}
        /\ p.schedule.type = "interval" => p.schedule.value \in Nat \ {0}
        /\ p.schedule.type = "cron" => p.schedule.value \in Crons
        /\ p.schedule.type = "once" => p.schedule.value \in Int
        /\ p.priority \in Nat /\ p.max_attempts \in Nat \ {0}
        /\ p.slot_cost \in Nat \ {0}
        /\ DOMAIN p.resources \subseteq Resources
        /\ \A k \in DOMAIN p.resources : p.resources[k] \in 1..MaxCapacity

ASSUME ConfigsAssumption ==
    \A c \in Configs : DOMAIN c \subseteq Sources
                       /\ \A s \in DOMAIN c : c[s] \in Specs

ASSUME NullAssumption ==
    /\ NULL \notin Int /\ NULL \notin Sources /\ NULL \notin Nodes

-----------------------------------------------------------------------------
(* Schedules *)

\* Mutant: `at >= after` for a single run.
NextRunInclusive(schedule, after) ==
    CASE schedule.type = "interval" -> after + schedule.value
      [] schedule.type = "cron"     -> CronNext[schedule.value][after]
      [] schedule.type = "once"     -> IF schedule.value >= after
                                       THEN schedule.value ELSE NULL

\* scheduling.next_run: the run that follows `after`, or None
NextRun(schedule, after) ==
    CASE schedule.type = "interval" -> after + schedule.value
      [] schedule.type = "cron"     -> CronNext[schedule.value][after]
      [] schedule.type = "once"     -> IF schedule.value > after
                                       THEN schedule.value ELSE NULL

\* The next_run_at reconcile_sources computes for a source without one.
FirstRun(s, schedule) ==
    IF schedule.type = "interval" THEN ControllerNow + Spread[s]
    ELSE NextRun(schedule, ControllerNow - LookBack)

Coalesce(x, y) == IF x # NULL THEN x ELSE y

\* The schedule row the upsert of reconcile_sources leaves for spec p.
ReconciledSchedule(s, p) ==
    LET existing == s \in DOMAIN schedules
        kept     == IF existing /\ schedules[s].enabled
                    THEN schedules[s].next_run_at ELSE NULL
        initial  == IF p.enabled /\ kept = NULL
                    THEN FirstRun(s, p.schedule) ELSE kept
    IN  [enabled        |-> p.enabled,
         next_run_at    |-> IF ~p.enabled THEN NULL
                            ELSE IF existing /\ schedules[s].enabled
                            THEN Coalesce(schedules[s].next_run_at, initial)
                            ELSE initial,
         active_task_id |-> IF existing THEN schedules[s].active_task_id
                            ELSE NULL]

\* One pass over the sources file; what it no longer names is disabled.
ReconcileSources(config) ==
    LET rows == DOMAIN sources \cup DOMAIN config IN
    /\ sources' = [s \in rows |->
           IF s \in DOMAIN config
           THEN [enabled |-> config[s].enabled, spec |-> config[s]]
           ELSE [sources[s] EXCEPT !.enabled = FALSE]]
    /\ schedules' = [s \in rows |->
           IF s \in DOMAIN config THEN ReconciledSchedule(s, config[s])
           ELSE [schedules[s] EXCEPT !.enabled = FALSE, !.next_run_at = NULL]]
    /\ UNCHANGED <<now, workers, last_maintenance, batchVars, taskVars>>

-----------------------------------------------------------------------------
(* Registration *)

\* Mutant: the check forgets the history.
UsedKeysLive == {tasks[t].dedupe_key : t \in DOMAIN tasks}

\* The keys _insert_task refuses: those of live tasks and of their history.
UsedKeys == {tasks[t].dedupe_key : t \in DOMAIN tasks} \cup DOMAIN task_runs

NewTask(key, s, workload, schedule, batch, due) ==
    [dedupe_key |-> key, source_id |-> s, workload |-> workload,
     schedule_id |-> schedule, batch_id |-> batch,
     snapshot |-> sources[s].spec, status |-> "pending", not_before |-> due,
     attempts |-> 0, locked_by |-> NULL, heartbeat_at |-> NULL,
     lease_token |-> NULL]

\* INSERT INTO tasks: n rows, which take the next ids of the sequence.
InsertTasks(n, rows) ==
    /\ task_seq + n <= MaxTasks
    /\ tasks' = [t \in DOMAIN tasks \cup ((task_seq + 1)..(task_seq + n)) |->
                     IF t \in DOMAIN tasks THEN tasks[t] ELSE rows[t - task_seq]]
    /\ task_seq' = task_seq + n
    /\ UNCHANGED <<task_runs, resource_leases, grants>>

\* Mutant: a schedule with a task in flight is due as well.
DueSchedulesInFlight ==
    {s \in DOMAIN schedules :
        /\ schedules[s].enabled /\ sources[s].enabled
        /\ schedules[s].next_run_at # NULL
        /\ schedules[s].next_run_at <= now}

DueSchedules ==
    {s \in DOMAIN schedules :
        /\ schedules[s].enabled /\ sources[s].enabled
        /\ schedules[s].active_task_id = NULL
        /\ schedules[s].next_run_at # NULL
        /\ schedules[s].next_run_at <= now}

\* Registers every due schedule whose key is unused, in order of due time;
\* one whose key was used before is passed over and stays as it is.
RegisterDueSchedules ==
    LET due(s) == schedules[s].next_run_at
        fresh  == {s \in DueSchedules : ScheduleKey(s, due(s)) \notin UsedKeys}
    IN  \E n \in 1..MaxTasks : \E source_of \in Bijection(1..n, fresh) :
          /\ \A i, j \in 1..n : due(source_of[i]) < due(source_of[j]) => i < j
          /\ InsertTasks(n, [i \in 1..n |->
                 LET s == source_of[i]
                 IN  NewTask(ScheduleKey(s, due(s)), s, "scheduled", s, NULL,
                             due(s))])
          /\ schedules' = [s \in DOMAIN schedules |->
                 IF s \in fresh
                 THEN [enabled |-> TRUE, next_run_at |-> NULL,
                       active_task_id |->
                           task_seq + CHOOSE i \in 1..n : source_of[i] = s]
                 ELSE schedules[s]]
          /\ UNCHANGED <<now, sources, workers, last_maintenance, batchVars>>

RegisterManual(s, k) ==
    /\ s \in DOMAIN sources
    /\ ManualKey(k) \notin UsedKeys
    /\ InsertTasks(1, [i \in {1} |->
           NewTask(ManualKey(k), s, "manual", NULL, NULL, ControllerNow)])
    /\ UNCHANGED <<now, sources, schedules, workers, last_maintenance,
                   batchVars>>

-----------------------------------------------------------------------------
(* Batches *)

\* A batch of n windows; its id makes every window's key a new one.
CreateBackfill(s, n) ==
    LET b == batch_seq + 1 IN
    /\ s \in DOMAIN sources /\ sources[s].spec.backfill_enabled
    /\ b <= MaxBatches
    /\ batch_seq' = b
    /\ task_batches' = [i \in DOMAIN task_batches \cup {b} |->
           IF i = b
           THEN [status |-> "running", total_tasks |-> n, completed_tasks |-> 0,
                 failed_tasks |-> 0, completed_at |-> NULL]
           ELSE task_batches[i]]
    /\ InsertTasks(n, [w \in 1..n |->
           NewTask(BackfillKey(b, w), s, "backfill", NULL, b, ControllerNow)])
    /\ UNCHANGED <<now, sources, schedules, workers, last_maintenance>>

BackfillState == [pause |-> "paused", resume |-> "running",
                  cancel |-> "cancelled"]

\* Mutant: cancelling also deletes what is running.
WaitingOrRunning(b) == {t \in DOMAIN tasks : tasks[t].batch_id = b}

\* DELETE FROM tasks WHERE batch_id = b AND status IN ('pending','retry')
Waiting(b) == {t \in DOMAIN tasks : /\ tasks[t].batch_id = b
                                   /\ tasks[t].status \in {"pending", "retry"}}

\* Cancelling also deletes the tasks of the batch that nobody is running.
SetBackfillState(b, action) ==
    /\ task_batches[b].status \in {"running", "paused"}
    /\ task_batches' = [task_batches EXCEPT ![b] =
           [task_batches[b] EXCEPT
              !.status = BackfillState[action],
              !.completed_at = IF action = "cancel" THEN now ELSE @]]
    /\ tasks' = IF action = "cancel"
                THEN [t \in DOMAIN tasks \ Waiting(b) |-> tasks[t]]
                ELSE tasks
    /\ UNCHANGED <<now, sources, schedules, batch_seq, task_seq, task_runs,
                   resource_leases, workers, grants, last_maintenance>>

-----------------------------------------------------------------------------
(* Claims *)

Eligible(n) ==
    {t \in DOMAIN tasks :
        /\ tasks[t].status \in {"pending", "retry"}
        /\ tasks[t].not_before <= now
        /\ tasks[t].snapshot.needs \in Serves[n]
        /\ tasks[t].batch_id # NULL =>
               task_batches[tasks[t].batch_id].status = "running"}

\* ORDER BY priority, not_before, id
Precedes(t, u) ==
    LET p == tasks[t].snapshot.priority
        q == tasks[u].snapshot.priority
    IN  \/ p < q
        \/ p = q /\ tasks[t].not_before < tasks[u].not_before
        \/ p = q /\ tasks[t].not_before = tasks[u].not_before /\ t < u

\* The slots the tasks ts take up, one by one, and how many they are.
SlotsOf(ts) == UNION {{t} \X (1..tasks[t].snapshot.slot_cost) : t \in ts}
Cost(ts) == Cardinality(SlotsOf(ts))

BackfillOf(ts) == {t \in ts : tasks[t].workload = "backfill"}
\* Mutant: the backfill of earlier claims is not counted.
RunningBackfillForgotten(n) == 0

RunningBackfill(n) ==
    Cost({t \in BackfillOf(DOMAIN tasks) :
             tasks[t].status = "running" /\ tasks[t].locked_by = n})

\* The loop's tests on t, the members of ts ahead of it already claimed.
Fits(n, slots, ts, t) ==
    LET ahead == {u \in ts : Precedes(u, t)}
        cost  == tasks[t].snapshot.slot_cost
    IN  /\ Cost(ahead) + cost <= slots
        /\ workers[n].mode = "resident" /\ tasks[t].workload = "backfill" =>
               RunningBackfill(n) + Cost(BackfillOf(ahead)) + cost
                   <= ResidentBackfillSlots

Unexpired == {r \in resource_leases : r.expires_at > now}
Requires(ts) ==
    {p \in ts \X Resources : p[2] \in DOMAIN tasks[p[1]].snapshot.resources}

\* Mutant: the slots the same claim has already taken look free.
FreeSlotsOfOthers(ts, slot_of, t, k) ==
    (1..tasks[t].snapshot.resources[k])
        \ {r.slot : r \in {q \in Unexpired : q.resource_key = k}}

\* The slots of k left for t: neither leased nor taken by a task ahead of it.
FreeSlots(ts, slot_of, t, k) ==
    (1..tasks[t].snapshot.resources[k])
        \ ({r.slot : r \in {q \in Unexpired : q.resource_key = k}}
           \cup {slot_of[p] : p \in {q \in Requires(ts) :
                                       q[2] = k /\ Precedes(q[1], t)}})

\* _acquire_resources takes the lowest free slot of each resource.
Acquires(ts, slot_of) ==
    \A p \in Requires(ts) :
        LET free == FreeSlots(ts, slot_of, p[1], p[2])
        IN  slot_of[p] \in free /\ \A j \in free : slot_of[p] <= j

Claimed(n, ts) ==
    [t \in DOMAIN tasks |->
        IF t \in ts
        THEN [tasks[t] EXCEPT !.status = "running",
                !.attempts = tasks[t].attempts + 1, !.locked_by = n,
                !.heartbeat_at = now, !.lease_token = tasks[t].attempts + 1]
        ELSE tasks[t]]

\* Node n claims the tasks ts.  A candidate that fails a test and one that
\* SKIP LOCKED hides leave the same trace, none, so ts is any set of eligible
\* tasks that pass, the empty one included.  uuid4() draws a token the task
\* never had: the ordinal of the claim.
ClaimTasks(n, ts, slot_of) ==
    /\ workers[n].desired_state = "online"
    /\ ts \subseteq Eligible(n)
    /\ \E slots \in 1..MaxSlots : \A t \in ts : Fits(n, slots, ts, t)
    /\ Acquires(ts, slot_of)
    /\ \A t \in ts : tasks[t].attempts < MaxClaims
    /\ tasks' = Claimed(n, ts)
    /\ resource_leases' = Unexpired \cup
           {[resource_key |-> p[2], slot |-> slot_of[p], task_id |-> p[1],
             lease_token |-> tasks[p[1]].attempts + 1, worker_id |-> n,
             expires_at |-> now + LeaseTtl] : p \in Requires(ts)}
    /\ grants' = grants \cup
           {[task |-> t, token |-> tasks[t].attempts + 1, node |-> n,
             instance |-> workers[n].instance_id] : t \in ts}
    /\ UNCHANGED <<now, sources, schedules, task_seq, task_runs, workers,
                   last_maintenance, batchVars>>

\* A heartbeat of node n lists the grants its live instance still runs.
Heartbeat(n, running) ==
    LET beats(t, token) ==
            \E g \in running : g.task = t /\ g.token = token
    IN  /\ \A g \in running :
               g.node = n /\ g.instance = workers[n].instance_id
        /\ tasks' = [t \in DOMAIN tasks |->
               IF /\ tasks[t].status = "running" /\ tasks[t].locked_by = n
                  /\ beats(t, tasks[t].lease_token)
               THEN [tasks[t] EXCEPT !.heartbeat_at = now] ELSE tasks[t]]
        /\ resource_leases' =
               {IF r.worker_id = n /\ beats(r.task_id, r.lease_token)
                THEN [r EXCEPT !.expires_at = now + LeaseTtl] ELSE r :
                r \in resource_leases}
        /\ UNCHANGED <<now, sources, schedules, task_seq, task_runs, workers,
                       grants, last_maintenance, batchVars>>

-----------------------------------------------------------------------------
(* Reports *)

\* Mutant: the lease token is not compared.
HoldsSomeLease(g) ==
    /\ g.task \in DOMAIN tasks
    /\ tasks[g.task].status = "running"

\* complete_task and fail_task refuse any report but the lease holder's.
HoldsLease(g) ==
    /\ g.task \in DOMAIN tasks
    /\ tasks[g.task].lease_token = g.token
    /\ tasks[g.task].status = "running"

\* Mutant: the leases are left to expire.
LeasesLeftBehind(t) == resource_leases

\* DELETE FROM resource_leases WHERE task_id = t
LeasesWithout(t) == {r \in resource_leases : r.task_id # t}

\* INSERT INTO task_runs ... ON CONFLICT (dedupe_key) DO NOTHING; `report`
\* names the execution that produced the result.
Archive(t, final, report) ==
    LET key == tasks[t].dedupe_key
        run == [task_id |-> t, batch_id |-> tasks[t].batch_id,
                final_status |-> final, attempts |-> tasks[t].attempts,
                lease_token |-> tasks[t].lease_token, result |-> report]
    IN  task_runs' = IF key \in DOMAIN task_runs THEN task_runs
                     ELSE [k \in DOMAIN task_runs \cup {key} |->
                               IF k = key THEN run ELSE task_runs[k]]

\* Mutant: the schedule is freed and not armed again.
FinishScheduleUnarmed(t) ==
    schedules' = IF tasks[t].schedule_id = NULL THEN schedules
                 ELSE [schedules EXCEPT
                         ![tasks[t].schedule_id].active_task_id = NULL]

\* The run after this one follows the snapshot's schedule, not the row's.
FinishSchedule(t) ==
    LET s         == tasks[t].schedule_id
        following == NextRun(tasks[t].snapshot.schedule, ControllerNow)
    IN  schedules' = IF s = NULL THEN schedules
                     ELSE [schedules EXCEPT ![s] =
                             [enabled |-> schedules[s].enabled
                                          /\ following # NULL,
                              next_run_at |-> following,
                              active_task_id |-> NULL]]

\* Mutant: a partial report counts as a success.
IsDead(final) == final = "dead"

\* A dead task and a partial report count as failed.
IsFailure(final) == final \in {"partial", "dead"}

\* Mutant: off by one.
IsPastLast(b) ==
    task_batches[b].completed_tasks + 1 > task_batches[b].total_tasks

IsLast(b) ==
    task_batches[b].completed_tasks + 1 >= task_batches[b].total_tasks

FinishBatch(b, final) ==
    LET row == task_batches[b]
        bad == row.failed_tasks + IF IsFailure(final) THEN 1 ELSE 0
    IN  task_batches' =
            IF b = NULL THEN task_batches
            ELSE [task_batches EXCEPT ![b] =
                    [status |-> IF ~IsLast(b) THEN row.status
                                ELSE IF bad > 0 THEN "partial"
                                ELSE "completed",
                     total_tasks |-> row.total_tasks,
                     completed_tasks |-> row.completed_tasks + 1,
                     failed_tasks |-> bad,
                     completed_at |-> IF IsLast(b) THEN now ELSE NULL]]

\* Archive, then schedule, batch and leases, then the row itself.
Retire(t, final, report) ==
    /\ Archive(t, final, report)
    /\ FinishSchedule(t)
    /\ FinishBatch(tasks[t].batch_id, final)
    /\ resource_leases' = LeasesWithout(t)
    /\ tasks' = [u \in DOMAIN tasks \ {t} |-> tasks[u]]
    /\ UNCHANGED <<now, sources, batch_seq, task_seq, workers, grants,
                   last_maintenance>>

CompleteTask(g, status) ==
    /\ HoldsLease(g)
    /\ Retire(g.task, status, g.token)

Released(t, delay) ==
    [tasks[t] EXCEPT !.status = "retry", !.not_before = now + delay,
        !.locked_by = NULL, !.heartbeat_at = NULL, !.lease_token = NULL]

\* A retryable error with attempts left puts the task back; any other is final.
FailTask(g, retryable_class, delay) ==
    /\ HoldsLease(g)
    /\ IF /\ retryable_class
          /\ tasks[g.task].attempts < tasks[g.task].snapshot.max_attempts
       THEN /\ tasks' = [tasks EXCEPT ![g.task] = Released(g.task, delay)]
            /\ resource_leases' = LeasesWithout(g.task)
            /\ UNCHANGED <<now, sources, schedules, task_seq, task_runs,
                           workers, grants, last_maintenance, batchVars>>
       ELSE Retire(g.task, "dead", g.token)

-----------------------------------------------------------------------------
(* Maintenance, workers and time *)

\* Mutant: a task is stale when its leases are over.
StaleWhenOver(t) == /\ tasks[t].status = "running"
                    /\ tasks[t].heartbeat_at < now - LeaseTtl

Stale(t) == /\ tasks[t].status = "running"
            /\ tasks[t].heartbeat_at < now - TaskStaleSeconds

\* Requeues every stale task whatever its attempts, and drops its leases.
Maintenance ==
    /\ tasks' = [t \in DOMAIN tasks |->
                    IF Stale(t) THEN Released(t, RequeueDelay) ELSE tasks[t]]
    /\ resource_leases' =
           {r \in Unexpired : r.task_id \in DOMAIN tasks /\ ~Stale(r.task_id)}
    /\ last_maintenance' = now
    /\ UNCHANGED <<now, sources, schedules, task_seq, task_runs, workers,
                   grants, batchVars>>

SetWorkerState(n, state) ==
    /\ workers' = [workers EXCEPT ![n].desired_state = state]
    /\ UNCHANGED <<now, sources, schedules, last_maintenance, batchVars,
                   taskVars>>

\* Enrolling a node again replaces its instance and brings it online; its
\* running tasks keep their rows, their tokens and their leases.
EnrollWorker(n, mode) ==
    /\ workers[n].instance_id < MaxInstances
    /\ workers' = [workers EXCEPT ![n] =
           [instance_id |-> workers[n].instance_id + 1, mode |-> mode,
            desired_state |-> "online"]]
    /\ UNCHANGED <<now, sources, schedules, last_maintenance, batchVars,
                   taskVars>>

\* Time passes while no longer than RegistrarGap separates two maintenance
\* passes; a RegistrarGap of MaxTime says nothing about the registrar.
Tick ==
    /\ now < MaxTime
    /\ now < last_maintenance + RegistrarGap
    /\ now' = now + 1
    /\ UNCHANGED <<sources, schedules, workers, last_maintenance, batchVars,
                   taskVars>>

-----------------------------------------------------------------------------
Init ==
    /\ now = 0 /\ last_maintenance = 0 /\ task_seq = 0
    /\ sources = [s \in {} |-> NULL] /\ schedules = [s \in {} |-> NULL]
    /\ batch_seq = 0 /\ task_batches = [b \in {} |-> NULL]
    /\ tasks = [t \in {} |-> NULL] /\ task_runs = [k \in {} |-> NULL]
    /\ resource_leases = {} /\ grants = {}
    /\ workers \in [Nodes -> [instance_id: {1}, mode: Modes,
                              desired_state: {"online"}]]

Next ==
    \/ Tick
    \/ Maintenance
    \/ \E config \in Configs : ReconcileSources(config)
    \/ RegisterDueSchedules
    \/ \E s \in Sources, k \in ManualKeys : RegisterManual(s, k)
    \/ \E s \in Sources, n \in 1..MaxWindows : CreateBackfill(s, n)
    \/ \E b \in DOMAIN task_batches, action \in DOMAIN BackfillState :
           SetBackfillState(b, action)
    \/ \E n \in Nodes, ts \in SUBSET DOMAIN tasks :
           \E slot_of \in [Requires(ts) -> 1..MaxCapacity] :
               ClaimTasks(n, ts, slot_of)
    \/ \E n \in Nodes :
           \E running \in SUBSET {g \in grants : g.node = n} : Heartbeat(n, running)
    \/ \E g \in grants, status \in {"succeeded", "partial"} :
           CompleteTask(g, status)
    \/ \E g \in grants, retryable \in BOOLEAN, delay \in RetryDelays :
           FailTask(g, retryable, delay)
    \/ \E n \in Nodes, state \in DesiredStates : SetWorkerState(n, state)
    \/ \E n \in Nodes, mode \in Modes : EnrollWorker(n, mode)

Spec == Init /\ [][Next]_vars
=============================================================================
