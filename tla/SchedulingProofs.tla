-------------------------- MODULE SchedulingProofs --------------------------
(***************************************************************************)
(* Proofs about the schedules of ControlStore, the resources its tasks     *)
(* share and its batches: who owns which slot, for how long, which run     *)
(* comes next, what a batch counts, and what backfill leaves of a node.    *)
(***************************************************************************)
EXTENDS ControlStoreProofs, WellFoundedInduction

\* A slot lies within the capacity its task declares for the resource.
SlotsFit ==
    \A r \in resource_leases :
        r.task_id \in DOMAIN tasks =>
            /\ r.resource_key \in DOMAIN tasks[r.task_id].snapshot.resources
            /\ r.slot <= tasks[r.task_id].snapshot.resources[r.resource_key]

SlotsInv == LeasesInv /\ LeaseSlotsAreDistinct /\ SlotsFit

\* A lease expires a lease life after the last heartbeat of its task.
LeasesFollowHeartbeats ==
    \A t \in DOMAIN tasks :
        tasks[t].status = "running" =>
            /\ tasks[t].heartbeat_at \in Nat
            /\ \A k \in DOMAIN tasks[t].snapshot.resources :
                   \E r \in resource_leases :
                       /\ r.resource_key = k /\ r.task_id = t
                       /\ r.expires_at = tasks[t].heartbeat_at + LeaseTtl

\* Maintenance left no stale task behind, and is not long ago.
MaintenanceIsRecent ==
    /\ now <= last_maintenance + RegistrarGap
    /\ \A t \in DOMAIN tasks :
           tasks[t].status = "running" =>
               tasks[t].heartbeat_at >= last_maintenance - TaskStaleSeconds

ResourcesInv == SlotsInv /\ LeasesFollowHeartbeats /\ MaintenanceIsRecent

\* The registrar requeues a silent task before the lease of its slots is over.
LeasesOutliveStaleness == TaskStaleSeconds + RegistrarGap < LeaseTtl

-----------------------------------------------------------------------------
(* What a step does to the rows that stay *)

SameOrigin(t) ==
    /\ tasks'[t].snapshot = tasks[t].snapshot
    /\ tasks'[t].schedule_id = tasks[t].schedule_id
    /\ tasks'[t].batch_id = tasks[t].batch_id
    /\ tasks'[t].dedupe_key = tasks[t].dedupe_key

RowsStay == /\ DOMAIN tasks' \subseteq DOMAIN tasks
            /\ \A t \in DOMAIN tasks' : SameOrigin(t)

\* The order in which a claim takes tasks is total.
LEMMA PrecedesIsTotal ==
    ASSUME TypeOK, NEW t \in DOMAIN tasks, NEW u \in DOMAIN tasks, t # u
    PROVE  Precedes(t, u) \/ Precedes(u, t)
<1>1. /\ t \in Int /\ u \in Int
      /\ tasks[t].not_before \in Int /\ tasks[u].not_before \in Int
      /\ tasks[t].snapshot \in Specs /\ tasks[u].snapshot \in Specs
  BY BoundsAssumption DEF TypeOK, TaskTypes, Tasks
<1>2. tasks[t].snapshot.priority \in Nat /\ tasks[u].snapshot.priority \in Nat
  BY <1>1, SpecsAssumption
<1> QED
  BY <1>1, <1>2 DEF Precedes

\* A task put back keeps what it was registered with.
LEMMA ReleasedOrigin ==
    ASSUME TaskTypes, NEW t \in DOMAIN tasks, NEW delay
    PROVE  /\ Released(t, delay).snapshot = tasks[t].snapshot
           /\ Released(t, delay).schedule_id = tasks[t].schedule_id
           /\ Released(t, delay).batch_id = tasks[t].batch_id
           /\ Released(t, delay).dedupe_key = tasks[t].dedupe_key
           /\ Released(t, delay).status = "retry"
BY DEF TaskTypes, Tasks, Released

LEMMA MaintenanceRows ==
    ASSUME TypeOK, Maintenance
    PROVE  RowsStay /\ DOMAIN tasks' = DOMAIN tasks
<1>1. /\ DOMAIN tasks' = DOMAIN tasks
      /\ \A t \in DOMAIN tasks : \/ tasks'[t] = Released(t, RequeueDelay)
                                 \/ tasks'[t] = tasks[t]
  BY DEF Maintenance
<1>2. \A t \in DOMAIN tasks : SameOrigin(t)
  BY <1>1, ReleasedOrigin DEF SameOrigin, TypeOK
<1> QED
  BY <1>1, <1>2 DEF RowsStay

LEMMA ClaimRows ==
    ASSUME TypeOK, NEW n \in Nodes, NEW ts \in SUBSET DOMAIN tasks, NEW slot_of,
           ClaimTasks(n, ts, slot_of)
    PROVE  /\ RowsStay /\ DOMAIN tasks' = DOMAIN tasks
           /\ \A t \in DOMAIN tasks \ ts : tasks'[t] = tasks[t]
           /\ \A t \in ts : /\ tasks[t].status # "running"
                            /\ tasks'[t].status = "running"
                            /\ tasks'[t].heartbeat_at = now
<1>1. /\ DOMAIN tasks' = DOMAIN tasks
      /\ \A t \in DOMAIN tasks \ ts : tasks'[t] = tasks[t]
  BY DEF ClaimTasks, Claimed
<1>2. \A t \in ts : /\ SameOrigin(t) /\ tasks'[t].status = "running"
                    /\ tasks'[t].heartbeat_at = now
  BY DEF ClaimTasks, Claimed, TypeOK, TaskTypes, Tasks, SameOrigin
<1>3. \A t \in ts : tasks[t].status # "running"
  BY DEF ClaimTasks, Eligible
<1> QED
  BY <1>1, <1>2, <1>3 DEF RowsStay, SameOrigin

LEMMA HeartbeatRows ==
    ASSUME TypeOK, NEW n \in Nodes, NEW running, Heartbeat(n, running)
    PROVE  /\ RowsStay /\ DOMAIN tasks' = DOMAIN tasks
           /\ \A t \in DOMAIN tasks :
                  /\ tasks'[t].status = tasks[t].status
                  /\ tasks'[t].heartbeat_at =
                         IF /\ tasks[t].status = "running"
                            /\ tasks[t].locked_by = n
                            /\ \E g \in running :
                                   g.task = t /\ g.token = tasks[t].lease_token
                         THEN now ELSE tasks[t].heartbeat_at
BY DEF Heartbeat, TypeOK, TaskTypes, Tasks, RowsStay, SameOrigin

LEMMA RetireRows ==
    ASSUME NEW t, NEW final, NEW report, Retire(t, final, report)
    PROVE  /\ RowsStay /\ DOMAIN tasks' = DOMAIN tasks \ {t}
           /\ \A u \in DOMAIN tasks' : tasks'[u] = tasks[u]
BY DEF Retire, RowsStay, SameOrigin

LEMMA ReleaseRows ==
    ASSUME TypeOK, NEW t \in DOMAIN tasks, NEW delay,
           tasks' = [tasks EXCEPT ![t] = Released(t, delay)]
    PROVE  /\ RowsStay /\ DOMAIN tasks' = DOMAIN tasks
           /\ \A u \in DOMAIN tasks \ {t} : tasks'[u] = tasks[u]
           /\ tasks'[t].status = "retry"
<1>1. /\ DOMAIN tasks' = DOMAIN tasks
      /\ \A u \in DOMAIN tasks \ {t} : tasks'[u] = tasks[u]
      /\ tasks'[t] = Released(t, delay)
  OBVIOUS
<1>2. SameOrigin(t) /\ tasks'[t].status = "retry"
  BY <1>1, ReleasedOrigin DEF SameOrigin, TypeOK
<1> QED
  BY <1>1, <1>2 DEF RowsStay, SameOrigin

LEMMA InsertRows ==
    ASSUME NEW n, NEW rows, InsertTasks(n, rows)
    PROVE  /\ resource_leases' = resource_leases
           /\ DOMAIN tasks \subseteq DOMAIN tasks'
           /\ \A t \in DOMAIN tasks : tasks'[t] = tasks[t]
BY DEF InsertTasks

-----------------------------------------------------------------------------
(* Slots *)

\* Leases that go, while the tasks of those that stay keep their snapshots,
\* leave the slots as distinct and as small as they were.
LEMMA SlotsKept ==
    ASSUME SlotsInv, LeasesInv', resource_leases' \subseteq resource_leases,
           \A t \in DOMAIN tasks :
               t \in DOMAIN tasks' => tasks'[t].snapshot = tasks[t].snapshot
    PROVE  SlotsInv'
<1>1. LeaseSlotsAreDistinct'
  BY DEF SlotsInv, LeaseSlotsAreDistinct
<1>2. SlotsFit'
  BY DEF SlotsInv, LeasesInv, LeasesBelongToRunningTasks, SlotsFit
<1> QED
  BY <1>1, <1>2 DEF SlotsInv

\* What a claim takes was free, and what it takes of one resource for two
\* tasks differs, for one of them precedes the other.
LEMMA SlotsClaim ==
    ASSUME SlotsInv, LeasesInv', NEW n \in Nodes, NEW ts \in SUBSET DOMAIN tasks,
           NEW slot_of \in [Requires(ts) -> 1..MaxCapacity],
           ClaimTasks(n, ts, slot_of)
    PROVE  SlotsInv'
<1>a. TypeOK /\ LeasesBelongToRunningTasks
  BY DEF SlotsInv, LeasesInv, FencingInv
<1> DEFINE taken(p) == [resource_key |-> p[2], slot |-> slot_of[p],
                        task_id |-> p[1],
                        lease_token |-> tasks[p[1]].attempts + 1,
                        worker_id |-> n, expires_at |-> now + LeaseTtl]
<1>1. resource_leases' = Unexpired \cup {taken(p) : p \in Requires(ts)}
  BY DEF ClaimTasks
<1>2. \A p \in Requires(ts) :
          /\ p = <<p[1], p[2]>> /\ p[1] \in ts
          /\ p[2] \in DOMAIN tasks[p[1]].snapshot.resources
  BY DEF Requires
<1>3. \A p \in Requires(ts) :
          slot_of[p] \in FreeSlots(ts, slot_of, p[1], p[2])
  BY DEF ClaimTasks, Acquires
<1>4. \A p \in Requires(ts) :
          /\ taken(p).resource_key = p[2] /\ taken(p).slot = slot_of[p]
          /\ taken(p).task_id = p[1]
  OBVIOUS
<1>5. \A p \in Requires(ts), r \in Unexpired :
          r.resource_key = p[2] => r.slot # slot_of[p] /\ r.task_id # p[1]
  <2> SUFFICES ASSUME NEW p \in Requires(ts), NEW r \in Unexpired,
                      r.resource_key = p[2]
               PROVE  r.slot # slot_of[p] /\ r.task_id # p[1]
    OBVIOUS
  <2>1. r.slot # slot_of[p]
    BY <1>3 DEF FreeSlots
  <2>2. tasks[p[1]].status # "running" /\ tasks[r.task_id].status = "running"
    BY <1>a, <1>2, ClaimRows DEF Unexpired, LeasesBelongToRunningTasks
  <2> QED
    BY <2>1, <2>2
<1>6. \A p, q \in Requires(ts) :
          p[2] = q[2] /\ (slot_of[p] = slot_of[q] \/ p[1] = q[1]) => p = q
  <2> SUFFICES ASSUME NEW p \in Requires(ts), NEW q \in Requires(ts),
                      p[2] = q[2], slot_of[p] = slot_of[q] \/ p[1] = q[1]
               PROVE  p = q
    OBVIOUS
  <2>1. CASE p[1] = q[1]
    BY <1>2, <2>1
  <2>2. CASE p[1] # q[1]
    <3>1. Precedes(p[1], q[1]) \/ Precedes(q[1], p[1])
      BY <1>a, <1>2, <2>2, PrecedesIsTotal
    <3>2. slot_of[p] # slot_of[q]
      BY <1>3, <3>1 DEF FreeSlots
    <3> QED
      BY <2>2, <3>2
  <2> QED
    BY <2>1, <2>2
<1>7. LeaseSlotsAreDistinct'
  <2> SUFFICES ASSUME NEW r \in resource_leases', NEW q \in resource_leases',
                      r.resource_key = q.resource_key,
                      r.slot = q.slot \/ r.task_id = q.task_id
               PROVE  r = q
    BY DEF LeaseSlotsAreDistinct
  <2>1. CASE r \in Unexpired /\ q \in Unexpired
    BY <2>1 DEF Unexpired, SlotsInv, LeaseSlotsAreDistinct
  <2>2. CASE r \in Unexpired /\ q \notin Unexpired
    <3>1. PICK p \in Requires(ts) : q = taken(p)
      BY <1>1, <2>2
    <3> QED
      BY <1>4, <1>5, <2>2, <3>1
  <2>3. CASE r \notin Unexpired /\ q \in Unexpired
    <3>1. PICK p \in Requires(ts) : r = taken(p)
      BY <1>1, <2>3
    <3> QED
      BY <1>4, <1>5, <2>3, <3>1
  <2>4. CASE r \notin Unexpired /\ q \notin Unexpired
    <3>1. PICK p \in Requires(ts) : r = taken(p)
      BY <1>1, <2>4
    <3>2. PICK m \in Requires(ts) : q = taken(m)
      BY <1>1, <2>4
    <3>3. p = m
      BY <1>4, <1>6, <3>1, <3>2
    <3> QED
      BY <3>1, <3>2, <3>3
  <2> QED
    BY <2>1, <2>2, <2>3, <2>4
<1>8. SlotsFit'
  <2>1. \A t \in DOMAIN tasks' :
            t \in DOMAIN tasks /\ tasks'[t].snapshot = tasks[t].snapshot
    BY <1>a, ClaimRows DEF RowsStay, SameOrigin
  <2> SUFFICES ASSUME NEW r \in resource_leases', r.task_id \in DOMAIN tasks'
               PROVE  LET cap == tasks'[r.task_id].snapshot.resources
                      IN  r.resource_key \in DOMAIN cap
                              /\ r.slot <= cap[r.resource_key]
    BY DEF SlotsFit
  <2>2. CASE r \in Unexpired
    BY <2>1, <2>2 DEF Unexpired, SlotsInv, SlotsFit
  <2>3. CASE r \notin Unexpired
    <3>1. PICK p \in Requires(ts) : r = taken(p)
      BY <1>1, <2>3
    <3>2. slot_of[p] \in 1..tasks[p[1]].snapshot.resources[p[2]]
      BY <1>3 DEF FreeSlots
    <3>3. slot_of[p] <= tasks[p[1]].snapshot.resources[p[2]]
      BY <3>2
    <3> QED
      BY <1>2, <1>4, <2>1, <3>1, <3>3
  <2> QED
    BY <2>2, <2>3
<1> QED
  BY <1>7, <1>8 DEF SlotsInv

\* A heartbeat renews leases; it moves none.
LEMMA SlotsHeartbeat ==
    ASSUME SlotsInv, LeasesInv', NEW n \in Nodes, NEW running, Heartbeat(n, running)
    PROVE  SlotsInv'
<1>a. TypeOK
  BY DEF SlotsInv, LeasesInv, FencingInv
<1> DEFINE beats(r) == r.worker_id = n /\ \E g \in running :
                           g.task = r.task_id /\ g.token = r.lease_token
           renewed(r) == IF beats(r) THEN [r EXCEPT !.expires_at = now + LeaseTtl]
                         ELSE r
<1>1. resource_leases' = {renewed(r) : r \in resource_leases}
  BY DEF Heartbeat
<1>2. \A r \in resource_leases : /\ renewed(r).resource_key = r.resource_key
                                 /\ renewed(r).slot = r.slot
                                 /\ renewed(r).task_id = r.task_id
  BY <1>a DEF TypeOK, WorkerTypes, Leases
<1> HIDE DEF renewed
<1>3. LeaseSlotsAreDistinct'
  BY <1>1, <1>2 DEF SlotsInv, LeaseSlotsAreDistinct
<1>4. DOMAIN tasks' = DOMAIN tasks
      /\ \A t \in DOMAIN tasks : tasks'[t].snapshot = tasks[t].snapshot
  BY <1>a, HeartbeatRows DEF RowsStay, SameOrigin
<1>5. SlotsFit'
  BY <1>1, <1>2, <1>4 DEF SlotsInv, SlotsFit
<1> QED
  BY <1>3, <1>5 DEF SlotsInv

LEMMA SlotsStep == SlotsInv /\ [Next]_vars => SlotsInv'
<1> SUFFICES ASSUME SlotsInv, [Next]_vars
             PROVE  SlotsInv'
  OBVIOUS
<1>a. LeasesInv /\ LeasesInv' /\ TypeOK
  BY LeasesStep DEF SlotsInv, LeasesInv, FencingInv
<1>1. CASE resource_leases' \subseteq resource_leases /\ RowsStay
  BY <1>1, <1>a, SlotsKept DEF RowsStay, SameOrigin
<1>2. CASE \E n \in Nat : \E rows : InsertTasks(n, rows)
  BY <1>2, <1>a, InsertRows, SlotsKept
<1>3. CASE Maintenance
  BY <1>1, <1>3, <1>a, MaintenanceRows DEF Maintenance, Unexpired
<1>4. CASE RegisterDueSchedules
  <2>1. PICK n \in 1..MaxTasks : \E source_of : InsertsDue(n, source_of)
    BY <1>4, <1>a, DueInserts
  <2>2. \E rows : InsertTasks(n, rows)
    BY <2>1 DEF InsertsDue
  <2> QED
    BY <1>2, <2>2, BoundsAssumption
<1>5. ASSUME NEW s \in Sources, NEW k \in ManualKeys, RegisterManual(s, k)
      PROVE  \E n \in Nat : \E rows : InsertTasks(n, rows)
  BY <1>5 DEF RegisterManual
<1>6. ASSUME NEW s \in Sources, NEW n \in 1..MaxWindows, CreateBackfill(s, n)
      PROVE  \E m \in Nat : \E rows : InsertTasks(m, rows)
  BY <1>6, BoundsAssumption DEF CreateBackfill
<1>7. ASSUME NEW b \in DOMAIN task_batches, NEW action \in DOMAIN BackfillState,
             SetBackfillState(b, action)
      PROVE  SlotsInv'
  BY <1>1, <1>7 DEF SetBackfillState, RowsStay, SameOrigin
<1>8. ASSUME NEW n \in Nodes, NEW ts \in SUBSET DOMAIN tasks,
             NEW slot_of \in [Requires(ts) -> 1..MaxCapacity],
             ClaimTasks(n, ts, slot_of)
      PROVE  SlotsInv'
  BY <1>8, <1>a, SlotsClaim
<1>9. ASSUME NEW n \in Nodes, NEW running \in SUBSET {g \in grants : g.node = n},
             Heartbeat(n, running)
      PROVE  SlotsInv'
  BY <1>9, <1>a, SlotsHeartbeat
<1>10. ASSUME NEW g \in grants, NEW final, Retire(g.task, final, g.token)
       PROVE  SlotsInv'
  BY <1>1, <1>10, RetireRows DEF Retire, LeasesWithout
<1>11. ASSUME NEW g \in grants, NEW status \in {"succeeded", "partial"},
              CompleteTask(g, status)
       PROVE  SlotsInv'
  BY <1>10, <1>11 DEF CompleteTask
<1>12. ASSUME NEW g \in grants, NEW retryable \in BOOLEAN,
              NEW delay \in RetryDelays, FailTask(g, retryable, delay)
       PROVE  SlotsInv'
  <2>1. CASE Retire(g.task, "dead", g.token)
    BY <1>10, <2>1
  <2>2. CASE ~Retire(g.task, "dead", g.token)
    <3>1. /\ g.task \in DOMAIN tasks
          /\ tasks' = [tasks EXCEPT ![g.task] = Released(g.task, delay)]
          /\ resource_leases' = LeasesWithout(g.task)
      BY <1>12, <2>2 DEF FailTask, HoldsLease
    <3> QED
      BY <1>1, <1>a, <3>1, ReleaseRows DEF LeasesWithout
  <2> QED
    BY <2>1, <2>2
<1>13. CASE \/ Tick \/ UNCHANGED vars
            \/ \E config \in Configs : ReconcileSources(config)
            \/ \E n \in Nodes, state \in DesiredStates : SetWorkerState(n, state)
            \/ \E n \in Nodes, mode \in Modes : EnrollWorker(n, mode)
  <2>1. UNCHANGED <<tasks, resource_leases>>
    BY <1>13 DEF Tick, ReconcileSources, SetWorkerState, EnrollWorker, vars,
                 taskVars
  <2> QED
    BY <1>1, <2>1 DEF RowsStay, SameOrigin
<1> QED
  BY <1>2, <1>3, <1>4, <1>5, <1>6, <1>7, <1>8, <1>9, <1>11, <1>12, <1>13 DEF Next

LEMMA SlotsHold == Spec => []SlotsInv
<1>1. Init => SlotsInv
  BY FencingInit DEF Init, SlotsInv, LeasesInv, LeasesBelongToRunningTasks,
                     LeaseSlotsAreDistinct, SlotsFit
<1> QED
  BY <1>1, SlotsStep, PTL DEF Spec

\* Two executions never stand on one slot of a resource, and no execution on
\* two slots of one, however many tasks a claim takes at once and however
\* capacities differ: the unique constraints never refuse a claim.
THEOREM SlotsAreDistinct == Spec => []LeaseSlotsAreDistinct
<1>1. SlotsInv => LeaseSlotsAreDistinct
  BY DEF SlotsInv
<1> QED
  BY <1>1, SlotsHold, PTL

-----------------------------------------------------------------------------
(* Resources *)

\* The lease of a running task outlives the last moment at which maintenance
\* may requeue the task.
LEMMA ResourcesAreHeld ==
    ASSUME ResourcesInv, LeasesOutliveStaleness
    PROVE  RunningTasksHoldTheirResources
<1> SUFFICES ASSUME NEW t \in DOMAIN tasks, tasks[t].status = "running",
                    NEW k \in DOMAIN tasks[t].snapshot.resources
             PROVE  \E r \in resource_leases :
                        /\ r.resource_key = k /\ r.task_id = t
                        /\ r.expires_at > now
  BY DEF RunningTasksHoldTheirResources
<1>1. PICK r \in resource_leases :
          /\ r.resource_key = k /\ r.task_id = t
          /\ r.expires_at = tasks[t].heartbeat_at + LeaseTtl
  BY DEF ResourcesInv, LeasesFollowHeartbeats
<1>2. /\ now <= last_maintenance + RegistrarGap
      /\ tasks[t].heartbeat_at >= last_maintenance - TaskStaleSeconds
      /\ tasks[t].heartbeat_at \in Nat
  BY DEF ResourcesInv, MaintenanceIsRecent, LeasesFollowHeartbeats
<1>3. now \in Nat /\ last_maintenance \in Nat
  BY BoundsAssumption DEF ResourcesInv, SlotsInv, LeasesInv, FencingInv, TypeOK,
                          ClockTypes
<1>4. LeaseTtl \in Nat /\ TaskStaleSeconds \in Nat /\ RegistrarGap \in Nat
  BY LeaseTtlType, BoundsAssumption
<1>5. tasks[t].heartbeat_at + LeaseTtl > now
  BY <1>2, <1>3, <1>4 DEF LeasesOutliveStaleness
<1> QED
  BY <1>1, <1>5

\* Running tasks that stay as they were keep the leases that stay.
LEMMA ResourcesKept ==
    ASSUME ResourcesInv, SlotsInv', MaintenanceIsRecent',
           \A t \in DOMAIN tasks' : tasks'[t].status = "running" =>
               /\ t \in DOMAIN tasks /\ tasks'[t] = tasks[t]
               /\ \A r \in resource_leases :
                      r.task_id = t => r \in resource_leases'
    PROVE  ResourcesInv'
<1>1. LeasesFollowHeartbeats'
  <2> SUFFICES ASSUME NEW t \in DOMAIN tasks', tasks'[t].status = "running"
               PROVE  /\ tasks'[t].heartbeat_at \in Nat
                      /\ \A k \in DOMAIN tasks'[t].snapshot.resources :
                             \E r \in resource_leases' :
                                 /\ r.resource_key = k /\ r.task_id = t
                                 /\ r.expires_at = tasks'[t].heartbeat_at + LeaseTtl
    BY DEF LeasesFollowHeartbeats
  <2>1. t \in DOMAIN tasks /\ tasks'[t] = tasks[t]
    OBVIOUS
  <2>2. /\ tasks[t].heartbeat_at \in Nat
        /\ \A k \in DOMAIN tasks[t].snapshot.resources :
               \E r \in resource_leases :
                   /\ r.resource_key = k /\ r.task_id = t
                   /\ r.expires_at = tasks[t].heartbeat_at + LeaseTtl
    BY <2>1 DEF ResourcesInv, LeasesFollowHeartbeats
  <2> QED
    BY <2>1, <2>2
<1> QED
  BY <1>1 DEF ResourcesInv

\* While no pass of maintenance is made, its last one stays recent as long as
\* heartbeats only move forward.
LEMMA StillRecent ==
    ASSUME ResourcesInv, UNCHANGED <<now, last_maintenance>>,
           \A t \in DOMAIN tasks' : tasks'[t].status = "running" =>
               \/ tasks'[t].heartbeat_at = now
               \/ /\ t \in DOMAIN tasks /\ tasks[t].status = "running"
                  /\ tasks'[t].heartbeat_at = tasks[t].heartbeat_at
    PROVE  MaintenanceIsRecent'
<1>1. /\ now \in Nat /\ last_maintenance \in Nat /\ last_maintenance <= now
      /\ TaskStaleSeconds \in Nat
  BY BoundsAssumption DEF ResourcesInv, SlotsInv, LeasesInv, FencingInv, TypeOK,
                          ClockTypes
<1>2. now >= last_maintenance - TaskStaleSeconds
  BY <1>1
<1> QED
  BY <1>2 DEF ResourcesInv, MaintenanceIsRecent

LEMMA ResourcesMaintenance ==
    ASSUME ResourcesInv, LeasesOutliveStaleness, SlotsInv', Maintenance
    PROVE  ResourcesInv'
<1>a. /\ now \in Nat /\ now' = now /\ last_maintenance' = now
      /\ RegistrarGap \in Nat /\ TaskStaleSeconds \in Nat
  BY BoundsAssumption DEF Maintenance, ResourcesInv, SlotsInv, LeasesInv,
                          FencingInv, TypeOK, ClockTypes
<1>b. TypeOK /\ TaskTypes
  BY DEF ResourcesInv, SlotsInv, LeasesInv, FencingInv, TypeOK
<1>1. ASSUME NEW t \in DOMAIN tasks', tasks'[t].status = "running"
      PROVE  /\ t \in DOMAIN tasks /\ tasks'[t] = tasks[t] /\ ~Stale(t)
             /\ tasks[t].status = "running"
  <2>1. t \in DOMAIN tasks
        /\ tasks'[t] = IF Stale(t) THEN Released(t, RequeueDelay) ELSE tasks[t]
    BY <1>1 DEF Maintenance
  <2>2. Released(t, RequeueDelay).status = "retry"
    BY <1>b, <2>1, ReleasedOrigin
  <2> QED
    BY <1>1, <2>1, <2>2
<1>2. MaintenanceIsRecent'
  <2>1. ASSUME NEW t \in DOMAIN tasks', tasks'[t].status = "running"
        PROVE  tasks'[t].heartbeat_at >= now - TaskStaleSeconds
    <3>1. tasks[t].heartbeat_at \in Nat
      BY <1>1, <2>1 DEF ResourcesInv, LeasesFollowHeartbeats
    <3> QED
      BY <1>a, <1>1, <2>1, <3>1 DEF Stale
  <2>2. now <= now + RegistrarGap
    BY <1>a
  <2> QED
    BY <1>a, <2>1, <2>2 DEF MaintenanceIsRecent
<1>3. ASSUME NEW r \in resource_leases, NEW t \in DOMAIN tasks', r.task_id = t,
             tasks'[t].status = "running"
      PROVE  r \in resource_leases'
  <2>1. t \in DOMAIN tasks /\ ~Stale(t) /\ tasks[t].status = "running"
    BY <1>1, <1>3
  <2>2. r.resource_key \in DOMAIN tasks[t].snapshot.resources
    BY <1>3, <2>1 DEF ResourcesInv, SlotsInv, SlotsFit
  <2>3. PICK q \in resource_leases :
            /\ q.resource_key = r.resource_key /\ q.task_id = t
            /\ q.expires_at > now
    BY <2>1, <2>2, ResourcesAreHeld DEF RunningTasksHoldTheirResources
  <2>4. q = r
    BY <1>3, <2>3 DEF ResourcesInv, SlotsInv, LeaseSlotsAreDistinct
  <2> QED
    BY <1>3, <2>1, <2>3, <2>4 DEF Maintenance, Unexpired
<1> QED
  BY <1>1, <1>2, <1>3, ResourcesKept

LEMMA ResourcesClaim ==
    ASSUME ResourcesInv, LeasesOutliveStaleness, SlotsInv',
           NEW n \in Nodes, NEW ts \in SUBSET DOMAIN tasks,
           NEW slot_of \in [Requires(ts) -> 1..MaxCapacity],
           ClaimTasks(n, ts, slot_of)
    PROVE  ResourcesInv'
<1>a. TypeOK /\ now \in Nat
  BY BoundsAssumption DEF ResourcesInv, SlotsInv, LeasesInv, FencingInv, TypeOK,
                          ClockTypes
<1>b. UNCHANGED <<now, last_maintenance>>
  BY DEF ClaimTasks
<1>c. /\ DOMAIN tasks' = DOMAIN tasks
      /\ \A t \in DOMAIN tasks : tasks'[t].snapshot = tasks[t].snapshot
      /\ \A t \in DOMAIN tasks \ ts : tasks'[t] = tasks[t]
      /\ \A t \in ts : tasks'[t].status = "running" /\ tasks'[t].heartbeat_at = now
  BY <1>a, ClaimRows DEF RowsStay, SameOrigin
<1>1. MaintenanceIsRecent'
  BY <1>b, <1>c, StillRecent
<1>2. LeasesFollowHeartbeats'
  <2> SUFFICES ASSUME NEW t \in DOMAIN tasks', tasks'[t].status = "running"
               PROVE  /\ tasks'[t].heartbeat_at \in Nat
                      /\ \A k \in DOMAIN tasks'[t].snapshot.resources :
                             \E r \in resource_leases' :
                                 /\ r.resource_key = k /\ r.task_id = t
                                 /\ r.expires_at = tasks'[t].heartbeat_at + LeaseTtl
    BY DEF LeasesFollowHeartbeats
  <2>1. CASE t \in ts
    <3> SUFFICES ASSUME NEW k \in DOMAIN tasks[t].snapshot.resources
                 PROVE  \E r \in resource_leases' :
                            /\ r.resource_key = k /\ r.task_id = t
                            /\ r.expires_at = now + LeaseTtl
      BY <1>a, <1>c, <2>1
    <3>1. tasks[t].snapshot \in Specs
      BY <1>a, <2>1 DEF TypeOK, TaskTypes, Tasks
    <3>2. k \in Resources
      BY <3>1, SpecsAssumption
    <3>3. <<t, k>> \in Requires(ts)
      BY <2>1, <3>2 DEF Requires
    <3>4. [resource_key |-> k, slot |-> slot_of[<<t, k>>], task_id |-> t,
           lease_token |-> tasks[t].attempts + 1, worker_id |-> n,
           expires_at |-> now + LeaseTtl] \in resource_leases'
      BY <3>3 DEF ClaimTasks
    <3> QED
      BY <3>4
  <2>2. CASE t \notin ts
    <3>1. t \in DOMAIN tasks /\ tasks'[t] = tasks[t] /\ tasks[t].status = "running"
      BY <1>c, <2>2
    <3>2. tasks[t].heartbeat_at \in Nat
      BY <3>1 DEF ResourcesInv, LeasesFollowHeartbeats
    <3> SUFFICES ASSUME NEW k \in DOMAIN tasks[t].snapshot.resources
                 PROVE  \E r \in resource_leases' :
                            /\ r.resource_key = k /\ r.task_id = t
                            /\ r.expires_at = tasks[t].heartbeat_at + LeaseTtl
      BY <3>1, <3>2
    <3>3. PICK r \in resource_leases :
              /\ r.resource_key = k /\ r.task_id = t
              /\ r.expires_at = tasks[t].heartbeat_at + LeaseTtl
      BY <3>1 DEF ResourcesInv, LeasesFollowHeartbeats
    <3>4. PICK q \in resource_leases :
              /\ q.resource_key = k /\ q.task_id = t /\ q.expires_at > now
      BY <3>1, ResourcesAreHeld DEF RunningTasksHoldTheirResources
    <3>5. r = q
      BY <3>3, <3>4 DEF ResourcesInv, SlotsInv, LeaseSlotsAreDistinct
    <3>6. r \in resource_leases'
      BY <3>4, <3>5 DEF ClaimTasks, Unexpired
    <3> QED
      BY <3>3, <3>6
  <2> QED
    BY <2>1, <2>2
<1> QED
  BY <1>1, <1>2 DEF ResourcesInv

\* A heartbeat that moves a task's heartbeat_at moves its leases with it, for
\* they carry its token and its node.
LEMMA ResourcesHeartbeat ==
    ASSUME ResourcesInv, SlotsInv', NEW n \in Nodes, NEW running,
           Heartbeat(n, running)
    PROVE  ResourcesInv'
<1>a. TypeOK /\ now \in Nat
  BY BoundsAssumption DEF ResourcesInv, SlotsInv, LeasesInv, FencingInv, TypeOK,
                          ClockTypes
<1>b. UNCHANGED <<now, last_maintenance>>
  BY DEF Heartbeat
<1> DEFINE beats(t, token) == \E g \in running : g.task = t /\ g.token = token
           moves(t) == /\ tasks[t].status = "running" /\ tasks[t].locked_by = n
                       /\ beats(t, tasks[t].lease_token)
<1>c. /\ DOMAIN tasks' = DOMAIN tasks
      /\ \A t \in DOMAIN tasks :
             /\ tasks'[t].snapshot = tasks[t].snapshot
             /\ tasks'[t].status = tasks[t].status
             /\ tasks'[t].heartbeat_at = IF moves(t) THEN now
                                         ELSE tasks[t].heartbeat_at
  BY <1>a, HeartbeatRows DEF RowsStay, SameOrigin
<1>1. MaintenanceIsRecent'
  BY <1>b, <1>c, StillRecent
<1>2. LeasesFollowHeartbeats'
  <2> SUFFICES ASSUME NEW t \in DOMAIN tasks, tasks[t].status = "running"
               PROVE  /\ tasks'[t].heartbeat_at \in Nat
                      /\ \A k \in DOMAIN tasks[t].snapshot.resources :
                             \E r \in resource_leases' :
                                 /\ r.resource_key = k /\ r.task_id = t
                                 /\ r.expires_at = tasks'[t].heartbeat_at + LeaseTtl
    BY <1>c DEF LeasesFollowHeartbeats
  <2>1. tasks[t].heartbeat_at \in Nat
    BY DEF ResourcesInv, LeasesFollowHeartbeats
  <2>2. ASSUME NEW k \in DOMAIN tasks[t].snapshot.resources
        PROVE  \E r \in resource_leases' :
                   /\ r.resource_key = k /\ r.task_id = t
                   /\ r.expires_at = tasks'[t].heartbeat_at + LeaseTtl
    <3>1. PICK r \in resource_leases :
              /\ r.resource_key = k /\ r.task_id = t
              /\ r.expires_at = tasks[t].heartbeat_at + LeaseTtl
      BY DEF ResourcesInv, LeasesFollowHeartbeats
    <3>2. r.lease_token = tasks[t].lease_token /\ r.worker_id = tasks[t].locked_by
      BY <3>1 DEF ResourcesInv, SlotsInv, LeasesInv, LeasesBelongToRunningTasks
    <3>3. r \in Leases
      BY <1>a DEF TypeOK, WorkerTypes
    <3>4. (r.worker_id = n /\ beats(r.task_id, r.lease_token)) <=> moves(t)
      BY <3>1, <3>2
    <3>5. CASE moves(t)
      <4>1. [r EXCEPT !.expires_at = now + LeaseTtl] \in resource_leases'
        BY <3>4, <3>5 DEF Heartbeat
      <4> QED
        BY <1>c, <3>1, <3>3, <3>5, <4>1 DEF Leases
    <3>6. CASE ~moves(t)
      <4>1. r \in resource_leases'
        BY <3>4, <3>6 DEF Heartbeat
      <4> QED
        BY <1>c, <3>1, <3>6, <4>1
    <3> QED
      BY <3>5, <3>6
  <2> QED
    BY <1>a, <1>c, <2>1, <2>2
<1> QED
  BY <1>1, <1>2 DEF ResourcesInv

\* New tasks are pending, and hold nothing yet.
LEMMA ResourcesInsert ==
    ASSUME ResourcesInv, SlotsInv', NEW n \in Nat, NEW rows, InsertTasks(n, rows),
           \A i \in 1..n : rows[i].status = "pending",
           UNCHANGED <<now, last_maintenance>>
    PROVE  ResourcesInv'
<1>1. task_seq \in Nat /\ DOMAIN tasks \subseteq 1..task_seq
  BY BoundsAssumption DEF ResourcesInv, SlotsInv, LeasesInv, FencingInv, TypeOK,
                          TaskTypes
<1>2. ASSUME NEW t \in DOMAIN tasks', tasks'[t].status = "running"
      PROVE  t \in DOMAIN tasks /\ tasks'[t] = tasks[t]
  <2>1. CASE t \in DOMAIN tasks
    BY <2>1, InsertRows
  <2>2. CASE t \notin DOMAIN tasks
    <3>1. t - task_seq \in 1..n /\ tasks'[t] = rows[t - task_seq]
      BY <1>1, <2>2 DEF InsertTasks
    <3> QED
      BY <1>2, <3>1
  <2> QED
    BY <2>1, <2>2
<1>3. MaintenanceIsRecent'
  BY <1>2, StillRecent
<1> QED
  BY <1>2, <1>3, InsertRows, ResourcesKept

LEMMA ResourcesStep ==
    ASSUME ResourcesInv, LeasesOutliveStaleness, [Next]_vars
    PROVE  ResourcesInv'
<1>a. SlotsInv /\ SlotsInv' /\ TypeOK
  BY SlotsStep DEF ResourcesInv, SlotsInv, LeasesInv, FencingInv
<1>1. ASSUME UNCHANGED <<now, last_maintenance>>,
             \A t \in DOMAIN tasks' : tasks'[t].status = "running" =>
                 /\ t \in DOMAIN tasks /\ tasks'[t] = tasks[t]
                 /\ \A r \in resource_leases :
                        r.task_id = t => r \in resource_leases'
      PROVE  ResourcesInv'
  <2>1. MaintenanceIsRecent'
    BY <1>1, StillRecent
  <2> QED
    BY <1>1, <1>a, <2>1, ResourcesKept
<1>2. CASE Tick
  <2>1. MaintenanceIsRecent'
    <3>1. now' = now + 1 /\ now < last_maintenance + RegistrarGap
          /\ last_maintenance' = last_maintenance /\ tasks' = tasks
      BY <1>2 DEF Tick, taskVars
    <3>2. now \in Int /\ last_maintenance \in Int /\ RegistrarGap \in Int
      BY <1>a, BoundsAssumption DEF TypeOK, ClockTypes
    <3> QED
      BY <3>1, <3>2 DEF ResourcesInv, MaintenanceIsRecent
  <2> QED
    BY <1>2, <1>a, <2>1, ResourcesKept DEF Tick, taskVars
<1>3. CASE Maintenance
  BY <1>3, <1>a, ResourcesMaintenance
<1>4. CASE RegisterDueSchedules
  <2>1. PICK n \in 1..MaxTasks : \E source_of : InsertsDue(n, source_of)
    BY <1>4, <1>a, DueInserts
  <2>2. PICK f : InsertsDue(n, f)
    BY <2>1
  <2>3. InsertTasks(n, [i \in 1..n |-> DueTask(f[i])])
    BY <2>2 DEF InsertsDue
  <2>4. \A i \in 1..n : [j \in 1..n |-> DueTask(f[j])][i].status = "pending"
    BY NewTaskRow DEF DueTask
  <2>5. UNCHANGED <<now, last_maintenance>>
    BY <1>4, Zenon DEF RegisterDueSchedules
  <2>6. n \in Nat
    BY BoundsAssumption
  <2> QED
    BY <1>a, <2>3, <2>4, <2>5, <2>6, ResourcesInsert
<1>5. ASSUME NEW s \in Sources, NEW k \in ManualKeys, RegisterManual(s, k)
      PROVE  ResourcesInv'
  BY <1>5, <1>a, ResourcesInsert, NewTaskRow DEF RegisterManual
<1>6. ASSUME NEW s \in Sources, NEW n \in 1..MaxWindows, CreateBackfill(s, n)
      PROVE  ResourcesInv'
  BY <1>6, <1>a, ResourcesInsert, NewTaskRow, BoundsAssumption DEF CreateBackfill
<1>7. ASSUME NEW b \in DOMAIN task_batches, NEW action \in DOMAIN BackfillState,
             SetBackfillState(b, action)
      PROVE  ResourcesInv'
  BY <1>1, <1>7 DEF SetBackfillState
<1>8. ASSUME NEW n \in Nodes, NEW ts \in SUBSET DOMAIN tasks,
             NEW slot_of \in [Requires(ts) -> 1..MaxCapacity],
             ClaimTasks(n, ts, slot_of)
      PROVE  ResourcesInv'
  BY <1>8, <1>a, ResourcesClaim
<1>9. ASSUME NEW n \in Nodes, NEW running \in SUBSET {g \in grants : g.node = n},
             Heartbeat(n, running)
      PROVE  ResourcesInv'
  BY <1>9, <1>a, ResourcesHeartbeat
<1>10. ASSUME NEW g \in grants, NEW final, Retire(g.task, final, g.token)
       PROVE  ResourcesInv'
  BY <1>1, <1>10 DEF Retire, LeasesWithout
<1>11. ASSUME NEW g \in grants, NEW status \in {"succeeded", "partial"},
              CompleteTask(g, status)
       PROVE  ResourcesInv'
  BY <1>10, <1>11 DEF CompleteTask
<1>12. ASSUME NEW g \in grants, NEW retryable \in BOOLEAN,
              NEW delay \in RetryDelays, FailTask(g, retryable, delay)
       PROVE  ResourcesInv'
  <2>1. CASE Retire(g.task, "dead", g.token)
    BY <1>10, <2>1
  <2>2. CASE ~Retire(g.task, "dead", g.token)
    <3>1. /\ g.task \in DOMAIN tasks /\ UNCHANGED <<now, last_maintenance>>
          /\ tasks' = [tasks EXCEPT ![g.task] = Released(g.task, delay)]
          /\ resource_leases' = LeasesWithout(g.task)
      BY <1>12, <2>2 DEF FailTask, HoldsLease
    <3>2. tasks'[g.task].status = "retry" /\ DOMAIN tasks' = DOMAIN tasks
          /\ \A u \in DOMAIN tasks \ {g.task} : tasks'[u] = tasks[u]
      BY <1>a, <3>1, ReleaseRows
    <3> QED
      BY <1>1, <3>1, <3>2 DEF LeasesWithout
  <2> QED
    BY <2>1, <2>2
<1>13. CASE \/ UNCHANGED vars
            \/ \E config \in Configs : ReconcileSources(config)
            \/ \E n \in Nodes, state \in DesiredStates : SetWorkerState(n, state)
            \/ \E n \in Nodes, mode \in Modes : EnrollWorker(n, mode)
  <2>1. UNCHANGED <<tasks, resource_leases, now, last_maintenance>>
    BY <1>13 DEF ReconcileSources, SetWorkerState, EnrollWorker, vars, taskVars
  <2> QED
    BY <1>1, <2>1
<1> QED
  BY <1>2, <1>3, <1>4, <1>5, <1>6, <1>7, <1>8, <1>9, <1>11, <1>12, <1>13 DEF Next

LEMMA ResourcesInit == Init => ResourcesInv
<1> SUFFICES ASSUME Init PROVE ResourcesInv
  OBVIOUS
<1>1. SlotsInv
  BY FencingInit DEF Init, SlotsInv, LeasesInv, LeasesBelongToRunningTasks,
                     LeaseSlotsAreDistinct, SlotsFit
<1> QED
  BY <1>1, BoundsAssumption DEF Init, ResourcesInv, LeasesFollowHeartbeats,
                                MaintenanceIsRecent

LEMMA ResourcesHold == LeasesOutliveStaleness => (Spec => []ResourcesInv)
<1> SUFFICES ASSUME LeasesOutliveStaleness PROVE Spec => []ResourcesInv
  OBVIOUS
<1>1. ResourcesInv /\ [Next]_vars => ResourcesInv'
  BY ResourcesStep
<1> QED
  BY <1>1, ResourcesInit, PTL DEF Spec

\* While maintenance comes round before a lease can outlive its task's
\* silence, a running task holds everything it was claimed with.
THEOREM ResourcesStayHeld ==
    LeasesOutliveStaleness => (Spec => []RunningTasksHoldTheirResources)
<1> SUFFICES ASSUME LeasesOutliveStaleness
             PROVE  Spec => []RunningTasksHoldTheirResources
  OBVIOUS
<1>1. ResourcesInv => RunningTasksHoldTheirResources
  BY ResourcesAreHeld
<1> QED
  BY <1>1, ResourcesHold, PTL

-----------------------------------------------------------------------------
(* Capacity *)

\* A finite set of users, none of which declares more than MaxCapacity, has
\* one that declares most.
LEMMA LargestCapacity ==
    ASSUME TypeOK, NEW k \in Resources, Users(k) # {}
    PROVE  \E t \in Users(k) : \A u \in Users(k) :
               tasks[u].snapshot.resources[k] <= tasks[t].snapshot.resources[k]
<1> DEFINE cap(t) == tasks[t].snapshot.resources[k]
           T == {MaxCapacity - cap(t) : t \in Users(k)}
<1>1. MaxCapacity \in Nat /\ \A t \in Users(k) : cap(t) \in 1..MaxCapacity
  <2>1. \A t \in Users(k) : /\ tasks[t].snapshot \in Specs
                            /\ k \in DOMAIN tasks[t].snapshot.resources
    BY DEF Users, TypeOK, TaskTypes, Tasks
  <2> QED
    BY <2>1, SpecsAssumption, BoundsAssumption
<1> HIDE DEF cap
<1>2. T \subseteq Nat /\ T # {}
  BY <1>1
<1>3. PICK x \in T : \A y \in T : <<y, x>> \notin OpToRel(<, Nat)
  BY <1>2, NatLessThanWellFounded, WFMin
<1>4. PICK t \in Users(k) : x = MaxCapacity - cap(t)
  BY <1>3
<1>5. ASSUME NEW u \in Users(k)
      PROVE  cap(u) <= cap(t)
  <2>1. ~(MaxCapacity - cap(u) < x)
    BY <1>2, <1>3 DEF OpToRel
  <2> QED
    BY <1>1, <1>4, <2>1
<1> QED
  BY <1>5 DEF cap

\* Users of a resource stand on different slots of it, all within the
\* capacity of the one that declares most.
LEMMA UsersFit ==
    ASSUME SlotsInv, RunningTasksHoldTheirResources
    PROVE  CapacityRespected
<1>a. TypeOK
  BY DEF SlotsInv, LeasesInv, FencingInv
<1> SUFFICES ASSUME NEW k \in Resources, Users(k) # {}
             PROVE  \E t \in Users(k) :
                 Cardinality(Users(k)) <= tasks[t].snapshot.resources[k]
  BY DEF CapacityRespected
<1> DEFINE cap(t) == tasks[t].snapshot.resources[k]
<1>1. PICK t \in Users(k) : \A u \in Users(k) : cap(u) <= cap(t)
  BY <1>a, LargestCapacity
<1>2. \A u \in Users(k) : cap(u) \in Nat
  <2>1. \A u \in Users(k) : /\ tasks[u].snapshot \in Specs
                            /\ k \in DOMAIN tasks[u].snapshot.resources
    BY <1>a DEF Users, TypeOK, TaskTypes, Tasks
  <2> QED
    BY <2>1, SpecsAssumption, BoundsAssumption
<1> HIDE DEF cap
<1> DEFINE on(u, j) == \E r \in resource_leases :
                           r.resource_key = k /\ r.task_id = u /\ r.slot = j
           f == [u \in Users(k) |-> CHOOSE j \in 1..cap(t) : on(u, j)]
<1>3. ASSUME NEW u \in Users(k)
      PROVE  f[u] \in 1..cap(t) /\ on(u, f[u])
  <2>1. /\ u \in DOMAIN tasks /\ tasks[u].status = "running"
        /\ k \in DOMAIN tasks[u].snapshot.resources
    BY DEF Users
  <2>2. PICK r \in resource_leases : r.resource_key = k /\ r.task_id = u
    BY <2>1 DEF RunningTasksHoldTheirResources
  <2>3. r.slot <= cap(u)
    BY <2>1, <2>2 DEF SlotsInv, SlotsFit, cap
  <2>4. r.slot \in Nat /\ 1 <= r.slot
    BY <1>a, BoundsAssumption DEF TypeOK, WorkerTypes, Leases
  <2>5. r.slot \in 1..cap(t)
    BY <1>1, <1>2, <2>3, <2>4
  <2>6. \E j \in 1..cap(t) : on(u, j)
    BY <2>2, <2>5
  <2> QED
    BY <2>6
<1>4. f \in Injection(Users(k), 1..cap(t))
  <2>1. ASSUME NEW u \in Users(k), NEW v \in Users(k), f[u] = f[v]
        PROVE  u = v
    <3>1. PICK r \in resource_leases :
              r.resource_key = k /\ r.task_id = u /\ r.slot = f[u]
      BY <1>3
    <3>2. PICK q \in resource_leases :
              q.resource_key = k /\ q.task_id = v /\ q.slot = f[v]
      BY <1>3
    <3>3. r = q
      BY <2>1, <3>1, <3>2 DEF SlotsInv, LeaseSlotsAreDistinct
    <3> QED
      BY <3>1, <3>2, <3>3
  <2>2. f \in [Users(k) -> 1..cap(t)]
    BY <1>3
  <2> HIDE DEF f
  <2> QED
    BY <2>1, <2>2 DEF Injection, IsInjective
<1> HIDE DEF f
<1>5. IsFiniteSet(1..cap(t)) /\ Cardinality(1..cap(t)) = cap(t)
  BY <1>2, FS_Interval
<1>6. Cardinality(Users(k)) <= Cardinality(1..cap(t))
  BY <1>4, <1>5, FS_Injection
<1> QED
  BY <1>5, <1>6 DEF cap

\* Under the same condition, tasks in execution never outnumber the largest
\* capacity any of them declares for a resource they share.
THEOREM CapacityIsRespected ==
    LeasesOutliveStaleness => (Spec => []CapacityRespected)
<1> SUFFICES ASSUME LeasesOutliveStaleness PROVE Spec => []CapacityRespected
  OBVIOUS
<1>1. ResourcesInv => CapacityRespected
  BY UsersFit, ResourcesAreHeld DEF ResourcesInv
<1> QED
  BY <1>1, ResourcesHold, PTL

-----------------------------------------------------------------------------
(* Steps, as the schedules see them *)

\* Nothing is registered or archived; at most tasks of a batch go.
Quiet ==
    /\ UNCHANGED <<sources, schedules>> /\ now' \in {now, now + 1}
    /\ RowsStay /\ UNCHANGED task_runs
    /\ \A t \in DOMAIN tasks \ DOMAIN tasks' : tasks[t].batch_id # NULL

\* A pass over the due schedules.
Registers(n, f) ==
    /\ InsertsDue(n, f) /\ n \in Nat
    /\ UNCHANGED <<now, sources>>
    /\ DOMAIN schedules' = DOMAIN schedules
    /\ \A i \in 1..n :
           /\ f[i] \in DueSchedules
           /\ schedules'[f[i]] = [enabled |-> TRUE, next_run_at |-> NULL,
                                  active_task_id |-> task_seq + i]
    /\ \A s \in DOMAIN schedules :
           (\A i \in 1..n : f[i] # s) => schedules'[s] = schedules[s]

\* Tasks by hand, or the windows of a batch.
InsertsUnscheduled(n, rows) ==
    /\ InsertTasks(n, rows) /\ n \in Nat
    /\ UNCHANGED <<now, sources, schedules>>
    /\ \A i \in 1..n : /\ rows[i].schedule_id = NULL
                       /\ rows[i].dedupe_key.kind # "schedule"

Shapes ==
    \/ Quiet
    \/ \E config \in Configs : ReconcileSources(config)
    \/ \E n, f : Registers(n, f)
    \/ \E n, rows : InsertsUnscheduled(n, rows)
    \/ \E t \in DOMAIN tasks : \E final, report : Retire(t, final, report)

LEMMA RegistersDue ==
    ASSUME TypeOK, RegisterDueSchedules
    PROVE  \E n, f : Registers(n, f)
<1> DEFINE due(s) == schedules[s].next_run_at
           fresh == {s \in DueSchedules : ScheduleKey(s, due(s)) \notin UsedKeys}
<1> DEFINE Step(n, f) ==
             /\ InsertTasks(n, [i \in 1..n |->
                    LET s == f[i]
                    IN  NewTask(ScheduleKey(s, due(s)), s, "scheduled", s, NULL,
                                due(s))])
             /\ schedules' = [s \in DOMAIN schedules |->
                    IF s \in fresh
                    THEN [enabled |-> TRUE, next_run_at |-> NULL,
                          active_task_id |->
                              task_seq + CHOOSE i \in 1..n : f[i] = s]
                    ELSE schedules[s]]
             /\ UNCHANGED <<now, sources, workers, last_maintenance, batchVars>>
<1>1. PICK n \in 1..MaxTasks : \E f \in Bijection(1..n, fresh) : Step(n, f)
  BY Zenon DEF RegisterDueSchedules
<1>2. PICK f \in Bijection(1..n, fresh) : Step(n, f)
  BY <1>1
<1>3. /\ f \in [1..n -> fresh]
      /\ \A i, j \in 1..n : i # j => f[i] # f[j]
      /\ \A s \in fresh : \E i \in 1..n : f[i] = s
  BY <1>2 DEF Bijection, Injection, Surjection, IsInjective
<1>4. fresh \subseteq Sources /\ fresh \subseteq DueSchedules
      /\ fresh \subseteq DOMAIN schedules
  BY DEF TypeOK, SourceTypes, DueSchedules
<1>5. InsertTasks(n, [i \in 1..n |-> DueTask(f[i])])
  BY <1>2, Zenon DEF DueTask, DueKey
<1>6. \A i \in 1..n : DueKey(f[i]) \notin UsedKeys
  BY <1>3 DEF DueKey
<1>7. f \in [1..n -> Sources] /\ \A i \in 1..n : f[i] \in DueSchedules
  BY <1>3, <1>4
<1>8. /\ DOMAIN schedules' = DOMAIN schedules
      /\ \A s \in fresh : schedules'[s] =
             [enabled |-> TRUE, next_run_at |-> NULL,
              active_task_id |-> task_seq + CHOOSE i \in 1..n : f[i] = s]
      /\ \A s \in DOMAIN schedules \ fresh : schedules'[s] = schedules[s]
      /\ UNCHANGED <<now, sources>>
  BY <1>2, <1>4
<1> HIDE DEF fresh
<1>9. \A i \in 1..n : (CHOOSE j \in 1..n : f[j] = f[i]) = i
  <2> SUFFICES ASSUME NEW i \in 1..n
               PROVE  (CHOOSE j \in 1..n : f[j] = f[i]) = i
    OBVIOUS
  <2>1. \E j \in 1..n : f[j] = f[i]
    OBVIOUS
  <2>2. /\ (CHOOSE j \in 1..n : f[j] = f[i]) \in 1..n
        /\ f[CHOOSE j \in 1..n : f[j] = f[i]] = f[i]
    BY <2>1
  <2> QED
    BY <1>3, <2>2
<1>10. \A i \in 1..n : schedules'[f[i]] =
           [enabled |-> TRUE, next_run_at |-> NULL, active_task_id |-> task_seq + i]
  BY <1>3, <1>8, <1>9
<1>11. \A s \in DOMAIN schedules :
           (\A i \in 1..n : f[i] # s) => schedules'[s] = schedules[s]
  BY <1>3, <1>8
<1>12. n \in Nat
  BY BoundsAssumption
<1>13. InsertsDue(n, f)
  BY <1>3, <1>5, <1>6, <1>7 DEF InsertsDue
<1>14. Registers(n, f)
  BY <1>7, <1>8, <1>10, <1>11, <1>12, <1>13 DEF Registers
<1> QED
  BY <1>14

LEMMA StepsHaveShapes == TypeOK /\ [Next]_vars => Shapes
<1> SUFFICES ASSUME TypeOK, [Next]_vars
             PROVE  Shapes
  OBVIOUS
<1> USE DEF Shapes
<1>1. CASE Maintenance
  BY <1>1, MaintenanceRows DEF Maintenance, Quiet
<1>2. CASE \E config \in Configs : ReconcileSources(config)
  BY <1>2
<1>3. CASE RegisterDueSchedules
  BY <1>3, RegistersDue
<1>4. ASSUME NEW s \in Sources, NEW k \in ManualKeys, RegisterManual(s, k)
      PROVE  Shapes
  <2> DEFINE rows == [i \in {1} |->
                 NewTask(ManualKey(k), s, "manual", NULL, NULL, ControllerNow)]
  <2>1. /\ InsertTasks(1, rows) /\ UNCHANGED <<now, sources, schedules>>
    BY <1>4 DEF RegisterManual
  <2>2. \A i \in 1..1 : /\ rows[i].schedule_id = NULL
                        /\ rows[i].dedupe_key.kind # "schedule"
    BY DEF NewTask, ManualKey
  <2> HIDE DEF rows
  <2>3. InsertsUnscheduled(1, rows)
    BY <2>1, <2>2 DEF InsertsUnscheduled
  <2> QED
    BY <2>3
<1>5. ASSUME NEW s \in Sources, NEW n \in 1..MaxWindows, CreateBackfill(s, n)
      PROVE  Shapes
  <2> DEFINE b == batch_seq + 1
             rows == [w \in 1..n |->
                 NewTask(BackfillKey(b, w), s, "backfill", NULL, b, ControllerNow)]
  <2>1. /\ InsertTasks(n, rows) /\ UNCHANGED <<now, sources, schedules>>
    BY <1>5 DEF CreateBackfill
  <2>2. \A i \in 1..n : /\ rows[i].schedule_id = NULL
                        /\ rows[i].dedupe_key.kind # "schedule"
    BY DEF NewTask, BackfillKey
  <2> HIDE DEF rows
  <2>3. InsertsUnscheduled(n, rows)
    BY <2>1, <2>2, BoundsAssumption DEF InsertsUnscheduled
  <2> QED
    BY <2>3
<1>6. ASSUME NEW b \in DOMAIN task_batches, NEW action \in DOMAIN BackfillState,
             SetBackfillState(b, action)
      PROVE  Quiet
  <2>1. b # NULL
    BY BoundsAssumption, NullAssumption DEF TypeOK, BatchTypes
  <2> QED
    BY <1>6, <2>1 DEF SetBackfillState, Waiting, Quiet, RowsStay, SameOrigin
<1>7. ASSUME NEW n \in Nodes, NEW ts \in SUBSET DOMAIN tasks,
             NEW slot_of \in [Requires(ts) -> 1..MaxCapacity],
             ClaimTasks(n, ts, slot_of)
      PROVE  Quiet
  BY <1>7, ClaimRows DEF ClaimTasks, Quiet
<1>8. ASSUME NEW n \in Nodes, NEW running \in SUBSET {g \in grants : g.node = n},
             Heartbeat(n, running)
      PROVE  Quiet
  BY <1>8, HeartbeatRows DEF Heartbeat, Quiet
<1>9. ASSUME NEW g \in grants, NEW status \in {"succeeded", "partial"},
             CompleteTask(g, status)
      PROVE  Shapes
  BY <1>9 DEF CompleteTask, HoldsLease
<1>10. ASSUME NEW g \in grants, NEW retryable \in BOOLEAN,
              NEW delay \in RetryDelays, FailTask(g, retryable, delay)
       PROVE  Shapes
  <2>1. g.task \in DOMAIN tasks
    BY <1>10 DEF FailTask, HoldsLease
  <2>2. CASE Retire(g.task, "dead", g.token)
    BY <2>1, <2>2
  <2>3. CASE ~Retire(g.task, "dead", g.token)
    <3>1. /\ tasks' = [tasks EXCEPT ![g.task] = Released(g.task, delay)]
          /\ UNCHANGED <<now, sources, schedules, task_runs>>
      BY <1>10, <2>3 DEF FailTask
    <3> QED
      BY <2>1, <3>1, ReleaseRows DEF Quiet
  <2> QED
    BY <2>2, <2>3
<1>11. CASE \/ Tick \/ UNCHANGED vars
            \/ \E n \in Nodes, state \in DesiredStates : SetWorkerState(n, state)
            \/ \E n \in Nodes, mode \in Modes : EnrollWorker(n, mode)
  <2>1. UNCHANGED <<tasks, task_runs, sources, schedules>>
        /\ now' \in {now, now + 1}
    BY <1>11 DEF Tick, SetWorkerState, EnrollWorker, vars, taskVars
  <2> QED
    BY <2>1 DEF Quiet, RowsStay, SameOrigin
<1> QED
  BY <1>1, <1>2, <1>3, <1>4, <1>5, <1>6, <1>7, <1>8, <1>9, <1>10, <1>11 DEF Next

-----------------------------------------------------------------------------
(* Schedules and their tasks *)

\* A task of a schedule has a schedule, and is of no batch.
OwnersExist ==
    \A t \in DOMAIN tasks :
        /\ tasks[t].schedule_id # NULL => tasks[t].schedule_id \in DOMAIN schedules
        /\ tasks[t].batch_id # NULL => tasks[t].schedule_id = NULL

OwnInv == TypeOK /\ OwnersExist /\ ScheduleOwnsItsTask

\* The rows an insert adds.
LEMMA InsertedRows ==
    ASSUME TypeOK, NEW n \in Nat, NEW rows, InsertTasks(n, rows)
    PROVE  /\ \A t \in DOMAIN tasks : t \in DOMAIN tasks' /\ tasks'[t] = tasks[t]
           /\ \A t \in DOMAIN tasks' \ DOMAIN tasks :
                  \E i \in 1..n : t = task_seq + i /\ tasks'[t] = rows[i]
           /\ \A i \in 1..n : /\ task_seq + i \in DOMAIN tasks'
                              /\ task_seq + i \notin DOMAIN tasks
                              /\ tasks'[task_seq + i] = rows[i]
<1>1. task_seq \in Nat /\ DOMAIN tasks \subseteq 1..task_seq
  BY BoundsAssumption DEF TypeOK, TaskTypes
<1>2. DOMAIN tasks' = DOMAIN tasks \cup ((task_seq + 1)..(task_seq + n))
      /\ \A t \in DOMAIN tasks' :
             tasks'[t] = IF t \in DOMAIN tasks THEN tasks[t]
                         ELSE rows[t - task_seq]
  BY DEF InsertTasks
<1>3. \A t \in DOMAIN tasks' \ DOMAIN tasks :
          t - task_seq \in 1..n /\ t = task_seq + (t - task_seq)
  BY <1>1, <1>2
<1>4. \A i \in 1..n : /\ task_seq + i \in (task_seq + 1)..(task_seq + n)
                      /\ task_seq + i \notin 1..task_seq
                      /\ (task_seq + i) - task_seq = i
  BY <1>1
<1> QED
  BY <1>1, <1>2, <1>3, <1>4

LEMMA DueRow ==
    ASSUME NEW s
    PROVE  /\ DueTask(s).schedule_id = s /\ DueTask(s).batch_id = NULL
           /\ DueTask(s).snapshot = sources[s].spec
           /\ DueTask(s).dedupe_key = ScheduleKey(s, schedules[s].next_run_at)
BY DEF DueTask, NewTask, DueKey

\* What a pass over the due schedules adds.
LEMMA RegisteredRows ==
    ASSUME TypeOK, NEW n, NEW f, Registers(n, f)
    PROVE  /\ \A t \in DOMAIN tasks : t \in DOMAIN tasks' /\ tasks'[t] = tasks[t]
           /\ \A t \in DOMAIN tasks' \ DOMAIN tasks :
                  \E i \in 1..n : t = task_seq + i /\ tasks'[t] = DueTask(f[i])
           /\ \A i \in 1..n : /\ task_seq + i \in DOMAIN tasks'
                              /\ task_seq + i \notin DOMAIN tasks
                              /\ tasks'[task_seq + i] = DueTask(f[i])
           /\ \A i \in 1..n : f[i] \in DOMAIN schedules /\ f[i] # NULL
           /\ task_runs' = task_runs
<1> DEFINE rows == [i \in 1..n |-> DueTask(f[i])]
<1>1. n \in Nat /\ InsertTasks(n, rows)
  BY DEF Registers, InsertsDue
<1>2. \A i \in 1..n : rows[i] = DueTask(f[i])
  OBVIOUS
<1>3. \A i \in 1..n : f[i] \in DOMAIN schedules /\ f[i] # NULL
  <2>1. \A i \in 1..n : f[i] \in Sources
    BY DEF Registers, InsertsDue
  <2>2. \A i \in 1..n : f[i] \in DueSchedules
    BY DEF Registers
  <2> QED
    BY <2>1, <2>2, NullAssumption DEF DueSchedules
<1>4. task_runs' = task_runs
  BY <1>1 DEF InsertTasks
<1> HIDE DEF rows
<1> QED
  BY <1>1, <1>2, <1>3, <1>4, InsertedRows

LEMMA OwnQuiet == ASSUME OwnInv, TypeOK', Quiet PROVE OwnInv'
<1>1. OwnersExist'
  BY DEF OwnInv, OwnersExist, Quiet, RowsStay, SameOrigin
<1>2. ScheduleOwnsItsTask'
  <2> SUFFICES ASSUME NEW s \in DOMAIN schedules
               PROVE  /\ schedules[s].active_task_id # NULL =>
                             /\ schedules[s].active_task_id \in DOMAIN tasks'
                             /\ tasks'[schedules[s].active_task_id].schedule_id = s
                      /\ \A t \in DOMAIN tasks' :
                             tasks'[t].schedule_id = s
                                 => schedules[s].active_task_id = t
    BY DEF ScheduleOwnsItsTask, Quiet
  <2>1. ASSUME schedules[s].active_task_id # NULL
        PROVE  /\ schedules[s].active_task_id \in DOMAIN tasks'
               /\ tasks'[schedules[s].active_task_id].schedule_id = s
    <3> DEFINE t == schedules[s].active_task_id
    <3>1. t \in DOMAIN tasks /\ tasks[t].schedule_id = s
      BY <2>1 DEF OwnInv, ScheduleOwnsItsTask
    <3>2. s # NULL
      BY NullAssumption DEF OwnInv, TypeOK, SourceTypes
    <3>3. tasks[t].batch_id = NULL
      BY <3>1, <3>2 DEF OwnInv, OwnersExist
    <3> QED
      BY <3>1, <3>3 DEF Quiet, RowsStay, SameOrigin
  <2> QED
    BY <2>1 DEF OwnInv, ScheduleOwnsItsTask, Quiet, RowsStay, SameOrigin
<1> QED
  BY <1>1, <1>2 DEF OwnInv

LEMMA ReconciledRows ==
    ASSUME TypeOK, NEW config \in Configs, ReconcileSources(config)
    PROVE  /\ tasks' = tasks /\ task_runs' = task_runs /\ now' = now
           /\ DOMAIN schedules \subseteq DOMAIN schedules'
           /\ \A s \in DOMAIN schedules' :
                  /\ s \in DOMAIN config \/ s \in DOMAIN schedules
                  /\ schedules'[s].active_task_id =
                         IF s \in DOMAIN schedules
                         THEN schedules[s].active_task_id ELSE NULL
                  /\ s \in DOMAIN config =>
                         schedules'[s] = ReconciledSchedule(s, config[s])
                  /\ s \notin DOMAIN config =>
                         schedules'[s] = [schedules[s] EXCEPT !.enabled = FALSE,
                                                              !.next_run_at = NULL]
<1>1. /\ DOMAIN schedules' = DOMAIN sources \cup DOMAIN config
      /\ \A s \in DOMAIN schedules' :
             schedules'[s] = IF s \in DOMAIN config
                             THEN ReconciledSchedule(s, config[s])
                             ELSE [schedules[s] EXCEPT !.enabled = FALSE,
                                                       !.next_run_at = NULL]
      /\ tasks' = tasks /\ task_runs' = task_runs /\ now' = now
  BY DEF ReconcileSources, taskVars
<1>2. DOMAIN schedules = DOMAIN sources
  BY DEF TypeOK, SourceTypes
<1>3. ASSUME NEW s \in DOMAIN config
      PROVE  ReconciledSchedule(s, config[s]).active_task_id =
                 IF s \in DOMAIN schedules THEN schedules[s].active_task_id
                 ELSE NULL
  BY DEF ReconciledSchedule
<1>4. ASSUME NEW s \in DOMAIN schedules
      PROVE  [schedules[s] EXCEPT !.enabled = FALSE, !.next_run_at = NULL]
                 .active_task_id = schedules[s].active_task_id
  BY DEF TypeOK, SourceTypes
<1> QED
  BY <1>1, <1>2, <1>3, <1>4

LEMMA OwnReconcile ==
    ASSUME OwnInv, TypeOK', NEW config \in Configs, ReconcileSources(config)
    PROVE  OwnInv'
<1>a. TypeOK
  BY DEF OwnInv
<1>1. /\ tasks' = tasks /\ DOMAIN schedules \subseteq DOMAIN schedules'
      /\ \A s \in DOMAIN schedules' :
             schedules'[s].active_task_id = IF s \in DOMAIN schedules
                                            THEN schedules[s].active_task_id
                                            ELSE NULL
  BY <1>a, ReconciledRows
<1>2. OwnersExist'
  BY <1>1 DEF OwnInv, OwnersExist
<1>3. \A s \in DOMAIN schedules' : s # NULL
  BY NullAssumption DEF TypeOK, SourceTypes
<1>4. ScheduleOwnsItsTask'
  BY <1>1, <1>3 DEF OwnInv, OwnersExist, ScheduleOwnsItsTask
<1> QED
  BY <1>2, <1>4 DEF OwnInv

LEMMA OwnRegisters ==
    ASSUME OwnInv, TypeOK', NEW n, NEW f, Registers(n, f)
    PROVE  OwnInv'
<1>a. TypeOK /\ task_seq \in Nat /\ n \in Nat
  BY BoundsAssumption DEF OwnInv, TypeOK, TaskTypes, Registers
<1>1. /\ \A t \in DOMAIN tasks : t \in DOMAIN tasks' /\ tasks'[t] = tasks[t]
      /\ \A t \in DOMAIN tasks' \ DOMAIN tasks :
             \E i \in 1..n : t = task_seq + i /\ tasks'[t].schedule_id = f[i]
                             /\ tasks'[t].batch_id = NULL
      /\ \A i \in 1..n : /\ task_seq + i \in DOMAIN tasks'
                         /\ tasks'[task_seq + i].schedule_id = f[i]
                         /\ f[i] \in DOMAIN schedules
  BY <1>a, RegisteredRows, DueRow
<1>2. /\ DOMAIN schedules' = DOMAIN schedules
      /\ \A i \in 1..n : /\ schedules[f[i]].active_task_id = NULL
                         /\ schedules'[f[i]].active_task_id = task_seq + i
      /\ \A i, j \in 1..n : f[i] = f[j] => i = j
      /\ \A s \in DOMAIN schedules :
             (\A i \in 1..n : f[i] # s) => schedules'[s] = schedules[s]
  <2>1. \A i \in 1..n : schedules[f[i]].active_task_id = NULL
    BY DEF Registers, DueSchedules
  <2>2. ASSUME NEW i \in 1..n
        PROVE  schedules'[f[i]].active_task_id = task_seq + i
    <3>1. schedules'[f[i]] = [enabled |-> TRUE, next_run_at |-> NULL,
                              active_task_id |-> task_seq + i]
      BY DEF Registers
    <3> QED
      BY <3>1
  <2>3. \A i, j \in 1..n : f[i] = f[j] => i = j
    BY DEF Registers, InsertsDue
  <2> QED
    BY <2>1, <2>2, <2>3 DEF Registers
<1>3. OwnersExist'
  BY <1>1, <1>2 DEF OwnInv, OwnersExist
<1>4. \A t \in DOMAIN tasks : t # NULL
  BY BoundsAssumption, NullAssumption DEF OwnInv, TypeOK, TaskTypes
<1>5. ScheduleOwnsItsTask'
  <2> SUFFICES ASSUME NEW s \in DOMAIN schedules
               PROVE  /\ schedules'[s].active_task_id # NULL =>
                             /\ schedules'[s].active_task_id \in DOMAIN tasks'
                             /\ tasks'[schedules'[s].active_task_id].schedule_id = s
                      /\ \A t \in DOMAIN tasks' :
                             tasks'[t].schedule_id = s
                                 => schedules'[s].active_task_id = t
    BY <1>2 DEF ScheduleOwnsItsTask
  <2>1. ASSUME NEW i \in 1..n, f[i] = s
        PROVE  /\ schedules'[s].active_task_id \in DOMAIN tasks'
               /\ tasks'[schedules'[s].active_task_id].schedule_id = s
               /\ \A t \in DOMAIN tasks' :
                      tasks'[t].schedule_id = s
                          => schedules'[s].active_task_id = t
    <3>1. /\ schedules[s].active_task_id = NULL
          /\ schedules'[s].active_task_id = task_seq + i
      BY <1>2, <2>1
    <3>2. \A t \in DOMAIN tasks : tasks[t].schedule_id # s
      BY <1>4, <3>1 DEF OwnInv, ScheduleOwnsItsTask
    <3> QED
      BY <1>1, <1>2, <2>1, <3>1, <3>2
  <2>2. ASSUME \A i \in 1..n : f[i] # s
        PROVE  /\ schedules'[s].active_task_id # NULL =>
                      /\ schedules'[s].active_task_id \in DOMAIN tasks'
                      /\ tasks'[schedules'[s].active_task_id].schedule_id = s
               /\ \A t \in DOMAIN tasks' :
                      tasks'[t].schedule_id = s
                          => schedules'[s].active_task_id = t
    BY <1>1, <1>2, <2>2 DEF OwnInv, ScheduleOwnsItsTask
  <2> QED
    BY <2>1, <2>2
<1> QED
  BY <1>3, <1>5 DEF OwnInv

LEMMA OwnInserts ==
    ASSUME OwnInv, TypeOK', NEW n, NEW rows, InsertsUnscheduled(n, rows)
    PROVE  OwnInv'
<1>a. TypeOK /\ n \in Nat /\ InsertTasks(n, rows) /\ schedules' = schedules
  BY DEF OwnInv, InsertsUnscheduled
<1>1. /\ \A t \in DOMAIN tasks : t \in DOMAIN tasks' /\ tasks'[t] = tasks[t]
      /\ \A t \in DOMAIN tasks' \ DOMAIN tasks : tasks'[t].schedule_id = NULL
  <2>1. /\ \A t \in DOMAIN tasks : t \in DOMAIN tasks' /\ tasks'[t] = tasks[t]
        /\ \A t \in DOMAIN tasks' \ DOMAIN tasks :
               \E i \in 1..n : tasks'[t] = rows[i]
    BY <1>a, InsertedRows
  <2>2. \A i \in 1..n : rows[i].schedule_id = NULL
    BY DEF InsertsUnscheduled
  <2> QED
    BY <2>1, <2>2
<1>2. \A s \in DOMAIN schedules : s # NULL
  BY NullAssumption DEF OwnInv, TypeOK, SourceTypes
<1>3. OwnersExist'
  BY <1>a, <1>1 DEF OwnInv, OwnersExist
<1>4. ScheduleOwnsItsTask'
  BY <1>a, <1>1, <1>2 DEF OwnInv, ScheduleOwnsItsTask
<1> QED
  BY <1>3, <1>4 DEF OwnInv

\* What the end of a task does to the schedule it belongs to, if any.
LEMMA FinishedRow ==
    ASSUME TypeOK, NEW t \in DOMAIN tasks, NEW final, NEW report,
           Retire(t, final, report)
    PROVE  /\ DOMAIN tasks' = DOMAIN tasks \ {t}
           /\ \A u \in DOMAIN tasks' : tasks'[u] = tasks[u]
           /\ DOMAIN schedules' = DOMAIN schedules
           /\ \A s \in DOMAIN schedules :
                  schedules'[s] =
                      IF s # NULL /\ s = tasks[t].schedule_id
                      THEN LET following ==
                                   NextRun(tasks[t].snapshot.schedule, ControllerNow)
                           IN  [enabled |-> schedules[s].enabled
                                            /\ following # NULL,
                                next_run_at |-> following,
                                active_task_id |-> NULL]
                      ELSE schedules[s]
           /\ UsedKeys' \subseteq UsedKeys
           /\ now' = now /\ sources' = sources
<1>1. /\ DOMAIN tasks' = DOMAIN tasks \ {t} /\ now' = now /\ sources' = sources
      /\ \A u \in DOMAIN tasks' : tasks'[u] = tasks[u]
      /\ DOMAIN task_runs' \subseteq DOMAIN task_runs \cup {tasks[t].dedupe_key}
  BY DEF Retire, Archive
<1>2. UsedKeys' \subseteq UsedKeys
  BY <1>1 DEF UsedKeys
<1>3. \A s \in DOMAIN schedules : s # NULL
  BY NullAssumption DEF TypeOK, SourceTypes
<1>4. FinishSchedule(t)
  BY DEF Retire
<1>5. CASE tasks[t].schedule_id = NULL
  <2>1. schedules' = schedules
    BY <1>4, <1>5 DEF FinishSchedule
  <2> QED
    BY <1>1, <1>2, <1>3, <1>5, <2>1
<1>6. CASE tasks[t].schedule_id # NULL
  <2> DEFINE following == NextRun(tasks[t].snapshot.schedule, ControllerNow)
             s0 == tasks[t].schedule_id
             row == [enabled |-> schedules[s0].enabled /\ following # NULL,
                     next_run_at |-> following, active_task_id |-> NULL]
  <2>1. schedules' = [schedules EXCEPT ![s0] = row]
    BY <1>4, <1>6 DEF FinishSchedule
  <2> HIDE DEF following
  <2>2. /\ DOMAIN schedules' = DOMAIN schedules
        /\ \A s \in DOMAIN schedules :
               schedules'[s] = IF s = s0 THEN row ELSE schedules[s]
    BY <2>1
  <2>3. \A s \in DOMAIN schedules : s = s0 =>
            row = [enabled |-> schedules[s].enabled /\ following # NULL,
                   next_run_at |-> following, active_task_id |-> NULL]
    OBVIOUS
  <2> QED
    BY <1>1, <1>2, <1>3, <2>2, <2>3 DEF following
<1> QED
  BY <1>5, <1>6

LEMMA OwnRetire ==
    ASSUME OwnInv, TypeOK', NEW t \in DOMAIN tasks, NEW final, NEW report,
           Retire(t, final, report)
    PROVE  OwnInv'
<1>a. TypeOK
  BY DEF OwnInv
<1>1. /\ DOMAIN tasks' = DOMAIN tasks \ {t}
      /\ \A u \in DOMAIN tasks' : tasks'[u] = tasks[u]
      /\ DOMAIN schedules' = DOMAIN schedules
      /\ \A s \in DOMAIN schedules :
             schedules'[s].active_task_id =
                 IF s = tasks[t].schedule_id THEN NULL
                 ELSE schedules[s].active_task_id
  <2>1. \A s \in DOMAIN schedules : s # NULL
    BY NullAssumption DEF OwnInv, TypeOK, SourceTypes
  <2> DEFINE following == NextRun(tasks[t].snapshot.schedule, ControllerNow)
  <2>2. \A s \in DOMAIN schedules :
            schedules'[s] =
                IF s # NULL /\ s = tasks[t].schedule_id
                THEN [enabled |-> schedules[s].enabled /\ following # NULL,
                      next_run_at |-> following, active_task_id |-> NULL]
                ELSE schedules[s]
    BY <1>a, FinishedRow
  <2> HIDE DEF following
  <2>3. ASSUME NEW s \in DOMAIN schedules
        PROVE  schedules'[s].active_task_id = IF s = tasks[t].schedule_id THEN NULL
                                              ELSE schedules[s].active_task_id
    <3>1. CASE s = tasks[t].schedule_id
      <4>1. schedules'[s] = [enabled |-> schedules[s].enabled /\ following # NULL,
                             next_run_at |-> following, active_task_id |-> NULL]
        BY <2>1, <2>2, <3>1, Zenon
      <4> QED
        BY <3>1, <4>1
    <3>2. CASE s # tasks[t].schedule_id
      BY <2>2, <3>2
    <3> QED
      BY <3>1, <3>2
  <2>4. /\ DOMAIN tasks' = DOMAIN tasks \ {t}
        /\ \A u \in DOMAIN tasks' : tasks'[u] = tasks[u]
        /\ DOMAIN schedules' = DOMAIN schedules
    BY <1>a, FinishedRow
  <2> QED
    BY <2>3, <2>4
<1>2. OwnersExist'
  BY <1>1 DEF OwnInv, OwnersExist
<1>3. ScheduleOwnsItsTask'
  BY <1>1 DEF OwnInv, ScheduleOwnsItsTask
<1> QED
  BY <1>2, <1>3 DEF OwnInv

LEMMA OwnStep == OwnInv /\ [Next]_vars => OwnInv'
<1> SUFFICES ASSUME OwnInv, [Next]_vars
             PROVE  OwnInv'
  OBVIOUS
<1>1. TypeOK' /\ Shapes
  BY TypesPreserved, StepsHaveShapes DEF OwnInv
<1> QED
  BY <1>1, OwnQuiet, OwnReconcile, OwnRegisters, OwnInserts, OwnRetire DEF Shapes

LEMMA OwnInit == Init => OwnInv
BY InitTypes DEF Init, OwnInv, OwnersExist, ScheduleOwnsItsTask

\* A schedule never has two tasks in flight, nor one it does not know of,
\* whatever is edited, requeued, retried or reported late.
THEOREM ScheduleKnowsItsTask == Spec => []ScheduleOwnsItsTask
<1>1. OwnInv => ScheduleOwnsItsTask
  BY DEF OwnInv
<1> QED
  BY <1>1, OwnInit, OwnStep, PTL DEF Spec

-----------------------------------------------------------------------------
(* Runs to come *)

\* No task of a schedule ends while reconcile_sources, which looks back a
\* moment, could still compute the instant it was due at.
EndsLate ==
    \A t \in DOMAIN tasks \ DOMAIN tasks' :
        tasks[t].schedule_id # NULL
            => tasks[t].dedupe_key.at <= ControllerNow - LookBack

EndsOutlastTheLookBack == [][EndsLate]_vars

\* A key of a schedule is on a task that the schedule registered.
KeysNameTheirSchedule ==
    \A t \in DOMAIN tasks :
        tasks[t].dedupe_key.kind = "schedule"
            => tasks[t].schedule_id = tasks[t].dedupe_key.of

\* The runs of schedules in the history are out of sight of a look back.
OverRunsArePast ==
    \A k \in DOMAIN task_runs :
        k.kind = "schedule" => k.at <= ControllerNow - LookBack

\* The run a schedule waits for is later than any of its that is over.
NextRunsAreLater ==
    \A s \in DOMAIN schedules, k \in DOMAIN task_runs :
        schedules[s].next_run_at # NULL /\ k.kind = "schedule" /\ k.of = s
            => k.at < schedules[s].next_run_at

ArmedInv == OwnInv /\ KeysNameTheirSchedule /\ OverRunsArePast /\ NextRunsAreLater

LEMMA NextRunIsLater ==
    ASSUME NEW p \in Specs, NEW after \in Instants
    PROVE  LET next == NextRun(p.schedule, after)
           IN  next # NULL => next \in Int /\ next > after
<1>0. after \in Int
  BY BoundsAssumption DEF Instants
<1>1. CASE p.schedule.type = "interval"
  BY <1>0, <1>1, SpecsAssumption DEF NextRun
<1>2. CASE p.schedule.type = "cron"
  BY <1>0, <1>2, SpecsAssumption, ScheduleAssumption DEF NextRun
<1>3. CASE p.schedule.type = "once"
  BY <1>0, <1>3, SpecsAssumption DEF NextRun
<1> QED
  BY <1>1, <1>2, <1>3, SpecsAssumption

\* A first run is later than what reconcile_sources looks back to.
LEMMA FirstRunIsLater ==
    ASSUME ClockTypes, NEW s \in Sources, NEW p \in Specs,
           FirstRun(s, p.schedule) # NULL
    PROVE  /\ FirstRun(s, p.schedule) \in Int
           /\ FirstRun(s, p.schedule) > ControllerNow - LookBack
<1>1. /\ ControllerNow - LookBack \in Instants /\ ControllerNow \in Int
      /\ LookBack \in Nat /\ Spread[s] \in Nat \ {0}
  BY ControllerNowType, BoundsAssumption, ScheduleAssumption
<1>2. CASE p.schedule.type = "interval"
  BY <1>1, <1>2 DEF FirstRun
<1>3. CASE p.schedule.type # "interval"
  BY <1>1, <1>3, NextRunIsLater DEF FirstRun
<1> QED
  BY <1>2, <1>3

\* reconcile_sources keeps a next run, computes a first one or clears it.
LEMMA ReconciledNext ==
    ASSUME NEW s, NEW p
    PROVE  LET next == ReconciledSchedule(s, p).next_run_at
           IN  \/ next = NULL
               \/ s \in DOMAIN schedules /\ next = schedules[s].next_run_at
               \/ next = FirstRun(s, p.schedule)
BY DEF ReconciledSchedule, Coalesce

LEMMA RunKeysAreKeys ==
    ASSUME TypeOK
    PROVE  /\ \A k \in DOMAIN task_runs : k.at \in Int
           /\ \A t \in DOMAIN tasks : tasks[t].dedupe_key.at \in Int
<1>1. \A k \in Keys : k.at \in Int
  BY DEF Keys
<1>2. \A t \in DOMAIN tasks : tasks[t].dedupe_key \in Keys
  BY DEF TypeOK, TaskTypes, Tasks
<1> QED
  BY <1>1, <1>2 DEF TypeOK, HistoryTypes

\* What is over stays past as time goes on.
LEMMA PastStays ==
    ASSUME TypeOK, OverRunsArePast, task_runs' = task_runs, now' \in {now, now + 1}
    PROVE  OverRunsArePast'
<1>0. now \in Int /\ ClockSkew \in Int /\ LookBack \in Nat
  BY BoundsAssumption DEF TypeOK, ClockTypes
<1>1. /\ ControllerNow \in Int /\ LookBack \in Nat /\ ControllerNow' \in Int
      /\ ControllerNow' >= ControllerNow
  <2>1. CASE now' = now
    BY <1>0, <2>1 DEF ControllerNow
  <2>2. CASE now' = now + 1
    BY <1>0, <2>2 DEF ControllerNow
  <2> QED
    BY <2>1, <2>2
<1>2. ASSUME NEW k \in DOMAIN task_runs, k.kind = "schedule"
      PROVE  k.at <= ControllerNow' - LookBack
  <2>1. k.at \in Int /\ k.at <= ControllerNow - LookBack
    BY <1>2, RunKeysAreKeys DEF OverRunsArePast
  <2> QED
    BY <1>1, <2>1
<1> QED
  BY <1>2 DEF OverRunsArePast

LEMMA ArmedQuiet ==
    ASSUME ArmedInv, OwnInv', Quiet
    PROVE  ArmedInv'
<1>1. KeysNameTheirSchedule'
  BY DEF ArmedInv, KeysNameTheirSchedule, Quiet, RowsStay, SameOrigin
<1>2. OverRunsArePast'
  BY PastStays DEF ArmedInv, OwnInv, Quiet
<1>3. NextRunsAreLater'
  BY DEF ArmedInv, NextRunsAreLater, Quiet
<1> QED
  BY <1>1, <1>2, <1>3 DEF ArmedInv

LEMMA ArmedInserts ==
    ASSUME ArmedInv, OwnInv', NEW n, NEW rows, InsertsUnscheduled(n, rows)
    PROVE  ArmedInv'
<1>a. TypeOK
  BY DEF ArmedInv, OwnInv
<1>1. /\ n \in Nat /\ InsertTasks(n, rows) /\ now' = now /\ schedules' = schedules
      /\ task_runs' = task_runs
      /\ \A i \in 1..n : rows[i].dedupe_key.kind # "schedule"
  BY DEF InsertsUnscheduled, InsertTasks
<1>2. /\ \A t \in DOMAIN tasks : tasks'[t] = tasks[t]
      /\ \A t \in DOMAIN tasks' \ DOMAIN tasks :
             tasks'[t].dedupe_key.kind # "schedule"
  BY <1>a, <1>1, InsertedRows
<1>3. KeysNameTheirSchedule'
  BY <1>2 DEF ArmedInv, KeysNameTheirSchedule
<1>4. OverRunsArePast'
  BY <1>a, <1>1, PastStays DEF ArmedInv
<1>5. NextRunsAreLater'
  BY <1>1 DEF ArmedInv, NextRunsAreLater
<1> QED
  BY <1>3, <1>4, <1>5 DEF ArmedInv

LEMMA ArmedReconcile ==
    ASSUME ArmedInv, OwnInv', NEW config \in Configs, ReconcileSources(config)
    PROVE  ArmedInv'
<1>a. TypeOK /\ ClockTypes
  BY DEF ArmedInv, OwnInv, TypeOK
<1>1. tasks' = tasks /\ task_runs' = task_runs /\ now' = now
  BY <1>a, ReconciledRows
<1>2. KeysNameTheirSchedule'
  BY <1>1 DEF ArmedInv, KeysNameTheirSchedule
<1>3. OverRunsArePast'
  BY <1>a, <1>1, PastStays DEF ArmedInv
<1>4. NextRunsAreLater'
  <2> SUFFICES ASSUME NEW s \in DOMAIN schedules', NEW k \in DOMAIN task_runs,
                      schedules'[s].next_run_at # NULL,
                      k.kind = "schedule", k.of = s
               PROVE  k.at < schedules'[s].next_run_at
    BY <1>1 DEF NextRunsAreLater
  <2>0. /\ k.at \in Int /\ k.at <= ControllerNow - LookBack
        /\ ControllerNow \in Int /\ LookBack \in Nat
    BY <1>a, RunKeysAreKeys, ControllerNowType, BoundsAssumption
       DEF ArmedInv, OverRunsArePast
  <2>1. s \in DOMAIN config
    <3>1. s \notin DOMAIN config =>
              /\ s \in DOMAIN schedules
              /\ schedules'[s] = [schedules[s] EXCEPT !.enabled = FALSE,
                                                      !.next_run_at = NULL]
      BY <1>a, ReconciledRows
    <3> QED
      BY <1>a, <3>1 DEF TypeOK, SourceTypes
  <2>2. schedules'[s] = ReconciledSchedule(s, config[s])
    BY <1>a, <2>1, ReconciledRows
  <2>3. s \in Sources /\ config[s] \in Specs
    BY <2>1, ConfigsAssumption
  <2>4. CASE s \in DOMAIN schedules
             /\ schedules'[s].next_run_at = schedules[s].next_run_at
    BY <2>4 DEF ArmedInv, NextRunsAreLater
  <2>5. CASE schedules'[s].next_run_at = FirstRun(s, config[s].schedule)
    <3>1. /\ FirstRun(s, config[s].schedule) \in Int
          /\ FirstRun(s, config[s].schedule) > ControllerNow - LookBack
      BY <1>a, <2>3, <2>5, FirstRunIsLater
    <3> QED
      BY <2>0, <2>5, <3>1
  <2> QED
    BY <2>2, <2>4, <2>5, ReconciledNext
<1> QED
  BY <1>2, <1>3, <1>4 DEF ArmedInv

LEMMA ArmedRegisters ==
    ASSUME ArmedInv, OwnInv', NEW n, NEW f, Registers(n, f)
    PROVE  ArmedInv'
<1>a. TypeOK
  BY DEF ArmedInv, OwnInv
<1>1. /\ now' = now /\ DOMAIN schedules' = DOMAIN schedules
      /\ task_runs' = task_runs
  BY <1>a, RegisteredRows DEF Registers
<1>2. KeysNameTheirSchedule'
  <2>1. /\ \A t \in DOMAIN tasks : tasks'[t] = tasks[t]
        /\ \A t \in DOMAIN tasks' \ DOMAIN tasks :
               \E i \in 1..n : /\ tasks'[t].schedule_id = f[i]
                               /\ tasks'[t].dedupe_key.of = f[i]
    <3>1. ASSUME NEW s
          PROVE  DueTask(s).schedule_id = s /\ DueTask(s).dedupe_key.of = s
      <4>1. /\ DueTask(s).schedule_id = s
            /\ DueTask(s).dedupe_key = ScheduleKey(s, schedules[s].next_run_at)
        BY DueRow
      <4>2. ScheduleKey(s, schedules[s].next_run_at).of = s
        BY DEF ScheduleKey
      <4> QED
        BY <4>1, <4>2
    <3> QED
      BY <1>a, <3>1, RegisteredRows
  <2> SUFFICES ASSUME NEW t \in DOMAIN tasks',
                      tasks'[t].dedupe_key.kind = "schedule"
               PROVE  tasks'[t].schedule_id = tasks'[t].dedupe_key.of
    BY DEF KeysNameTheirSchedule
  <2>2. CASE t \in DOMAIN tasks
    BY <2>1, <2>2 DEF ArmedInv, KeysNameTheirSchedule
  <2>3. CASE t \notin DOMAIN tasks
    BY <2>1, <2>3
  <2> QED
    BY <2>2, <2>3
<1>3. OverRunsArePast'
  BY <1>a, <1>1, PastStays DEF ArmedInv
<1>4. NextRunsAreLater'
  <2> SUFFICES ASSUME NEW s \in DOMAIN schedules, NEW k \in DOMAIN task_runs,
                      schedules'[s].next_run_at # NULL,
                      k.kind = "schedule", k.of = s
               PROVE  k.at < schedules'[s].next_run_at
    BY <1>1 DEF NextRunsAreLater
  <2>1. ASSUME NEW i \in 1..n PROVE f[i] # s
    <3>1. schedules'[f[i]] = [enabled |-> TRUE, next_run_at |-> NULL,
                              active_task_id |-> task_seq + i]
      BY DEF Registers
    <3> QED
      BY <3>1
  <2>2. schedules'[s] = schedules[s]
    BY <2>1 DEF Registers
  <2> QED
    BY <2>2 DEF ArmedInv, NextRunsAreLater
<1> QED
  BY <1>2, <1>3, <1>4 DEF ArmedInv

LEMMA ArmedRetire ==
    ASSUME ArmedInv, OwnInv', EndsLate, NEW t \in DOMAIN tasks, NEW final,
           NEW report, Retire(t, final, report)
    PROVE  ArmedInv'
<1>a. TypeOK /\ ClockTypes
  BY DEF ArmedInv, OwnInv, TypeOK
<1> DEFINE following == NextRun(tasks[t].snapshot.schedule, ControllerNow)
           key == tasks[t].dedupe_key
<1>1. /\ DOMAIN tasks' = DOMAIN tasks \ {t} /\ now' = now
      /\ \A u \in DOMAIN tasks' : tasks'[u] = tasks[u]
      /\ DOMAIN schedules' = DOMAIN schedules
      /\ \A s \in DOMAIN schedules :
             schedules'[s] =
                 IF s # NULL /\ s = tasks[t].schedule_id
                 THEN [enabled |-> schedules[s].enabled /\ following # NULL,
                       next_run_at |-> following, active_task_id |-> NULL]
                 ELSE schedules[s]
  BY <1>a, FinishedRow
<1>2. DOMAIN task_runs' \subseteq DOMAIN task_runs \cup {key}
  BY DEF Retire, Archive
<1>3. /\ ControllerNow \in Int /\ ControllerNow \in Instants /\ LookBack \in Nat
      /\ ControllerNow' = ControllerNow
  BY <1>a, <1>1, ControllerNowType, BoundsAssumption DEF ControllerNow
<1>4. following # NULL => following \in Int /\ following > ControllerNow
  <2>1. tasks[t].snapshot \in Specs
    BY <1>a DEF TypeOK, TaskTypes, Tasks
  <2> QED
    BY <1>3, <2>1, NextRunIsLater
<1> HIDE DEF following
\* The key that is archived: of the schedule of the task, and past.
<1>5. key.kind = "schedule" =>
          /\ tasks[t].schedule_id = key.of /\ key.at \in Int
          /\ key.of # NULL => key.at <= ControllerNow - LookBack
  <2>1. t \in DOMAIN tasks \ DOMAIN tasks'
    BY <1>1
  <2> QED
    BY <1>a, <2>1, RunKeysAreKeys DEF ArmedInv, KeysNameTheirSchedule, EndsLate
<1>6. key.kind = "schedule" => key.of # NULL
  <2>1. key \in Keys
    BY <1>a DEF TypeOK, TaskTypes, Tasks
  <2> QED
    BY <2>1, NullAssumption DEF Keys
<1>7. \A k \in DOMAIN task_runs' : k.kind = "schedule" =>
          k.at \in Int /\ k.at <= ControllerNow - LookBack
  BY <1>a, <1>2, <1>5, <1>6, RunKeysAreKeys DEF ArmedInv, OverRunsArePast
<1>8. KeysNameTheirSchedule'
  BY <1>1 DEF ArmedInv, KeysNameTheirSchedule
<1>9. OverRunsArePast'
  BY <1>3, <1>7 DEF OverRunsArePast
<1>10. NextRunsAreLater'
  <2> SUFFICES ASSUME NEW s \in DOMAIN schedules, NEW k \in DOMAIN task_runs',
                      schedules'[s].next_run_at # NULL,
                      k.kind = "schedule", k.of = s
               PROVE  k.at < schedules'[s].next_run_at
    BY <1>1 DEF NextRunsAreLater
  <2>1. s # NULL
    BY <1>a, NullAssumption DEF TypeOK, SourceTypes
  <2>2. CASE s = tasks[t].schedule_id
    <3>1. schedules'[s] = [enabled |-> schedules[s].enabled /\ following # NULL,
                           next_run_at |-> following, active_task_id |-> NULL]
      BY <1>1, <2>1, <2>2, Zenon
    <3>2. schedules'[s].next_run_at = following
      BY <3>1
    <3> QED
      BY <1>3, <1>4, <1>7, <3>2
  <2>3. CASE s # tasks[t].schedule_id
    <3>1. schedules'[s] = schedules[s]
      BY <1>1, <2>3
    <3>2. k \in DOMAIN task_runs
      BY <1>2, <1>5, <2>3
    <3> QED
      BY <3>1, <3>2 DEF ArmedInv, NextRunsAreLater
  <2> QED
    BY <2>2, <2>3
<1> QED
  BY <1>8, <1>9, <1>10 DEF ArmedInv

LEMMA ArmedStep ==
    ASSUME ArmedInv, [Next]_vars, EndsLate
    PROVE  ArmedInv'
<1>1. OwnInv' /\ Shapes
  BY OwnStep, StepsHaveShapes DEF ArmedInv, OwnInv
<1> QED
  BY <1>1, ArmedQuiet, ArmedInserts, ArmedReconcile, ArmedRegisters, ArmedRetire
     DEF Shapes

LEMMA RowsThatGo == UNCHANGED vars => EndsLate
BY DEF vars, taskVars, EndsLate

\* As long as no scheduled task ends within the moment that reconcile_sources
\* looks back (less what the controller's clock is ahead), a schedule never waits
\* for a run that has a key already, which no tick would ever register: however
\* the sources file is edited, tasks requeued and reported late, next_run_at is
\* later than all that is over.
THEOREM RunsToComeAreNew ==
    Spec /\ EndsOutlastTheLookBack => []ArmedRunsAreNew
<1>1. Init => ArmedInv
  BY OwnInit, InitTypes
     DEF Init, ArmedInv, KeysNameTheirSchedule, OverRunsArePast, NextRunsAreLater
<1>2. ArmedInv /\ [Next]_vars /\ [EndsLate]_vars => ArmedInv'
  BY ArmedStep, RowsThatGo
<1>3. ArmedInv => ArmedRunsAreNew
  <2> SUFFICES ASSUME ArmedInv, NEW s \in DOMAIN schedules,
                      schedules[s].active_task_id = NULL,
                      schedules[s].next_run_at # NULL,
                      ScheduleKey(s, schedules[s].next_run_at) \in UsedKeys
               PROVE  FALSE
    BY DEF ArmedRunsAreNew
  <2> DEFINE k == ScheduleKey(s, schedules[s].next_run_at)
  <2>1. k.kind = "schedule" /\ k.of = s /\ k.at = schedules[s].next_run_at
    BY DEF ScheduleKey
  <2>2. schedules[s].next_run_at \in Int
    BY DEF ArmedInv, OwnInv, TypeOK, SourceTypes, Optional
  <2>3. CASE k \in DOMAIN task_runs
    <3>1. k.at < schedules[s].next_run_at
      BY <2>1, <2>3 DEF ArmedInv, NextRunsAreLater
    <3> QED
      BY <2>1, <2>2, <3>1
  <2>4. ASSUME NEW t \in DOMAIN tasks, k = tasks[t].dedupe_key
        PROVE  FALSE
    <3>1. schedules[s].active_task_id = t
      BY <2>1, <2>4
         DEF ArmedInv, OwnInv, KeysNameTheirSchedule, ScheduleOwnsItsTask
    <3>2. t # NULL
      BY BoundsAssumption, NullAssumption DEF ArmedInv, OwnInv, TypeOK, TaskTypes
    <3> QED
      BY <3>1, <3>2
  <2> QED
    BY <2>3, <2>4 DEF UsedKeys
<1> QED
  BY <1>1, <1>2, <1>3, PTL DEF Spec, EndsOutlastTheLookBack

-----------------------------------------------------------------------------
(* Recurring sources *)

\* No edit of the sources file makes a single run of a recurring schedule, or
\* the reverse.
KindsAreFixed ==
    \A c, d \in Configs : \A s \in DOMAIN c \cap DOMAIN d :
        c[s].schedule.type = "once" <=> d[s].schedule.type = "once"

\* Sources and the snapshots of their tasks come from the sources file.
SpecsAreConfigured ==
    /\ \A s \in DOMAIN sources :
           \E c \in Configs : s \in DOMAIN c /\ sources[s].spec = c[s]
    /\ \A t \in DOMAIN tasks :
           tasks[t].schedule_id # NULL =>
               \E c \in Configs : /\ tasks[t].schedule_id \in DOMAIN c
                                  /\ tasks[t].snapshot = c[tasks[t].schedule_id]

RecurInv == TypeOK /\ SpecsAreConfigured /\ RecurringSourcesStayScheduled

\* A recurring schedule always has a run to come.
LEMMA RecurringNext ==
    ASSUME NEW p \in Specs, p.schedule.type # "once"
    PROVE  /\ \A after \in Instants : NextRun(p.schedule, after) # NULL
           /\ \A s \in Sources : ClockTypes => FirstRun(s, p.schedule) # NULL
<1>1. p.schedule.type = "interval" \/ p.schedule.type = "cron"
  BY SpecsAssumption
<1>2. ASSUME NEW after \in Instants
      PROVE  NextRun(p.schedule, after) # NULL
  <2>0. after \in Int
    BY BoundsAssumption DEF Instants
  <2>1. CASE p.schedule.type = "interval"
    BY <2>0, <2>1, SpecsAssumption, NullAssumption DEF NextRun
  <2>2. CASE p.schedule.type = "cron"
    <3>1. /\ CronNext[p.schedule.value][after] \in Int
          /\ NextRun(p.schedule, after) = CronNext[p.schedule.value][after]
      BY <2>2, SpecsAssumption, ScheduleAssumption DEF NextRun
    <3> QED
      BY <3>1, NullAssumption
  <2> QED
    BY <1>1, <2>1, <2>2
<1>3. ASSUME NEW s \in Sources, ClockTypes
      PROVE  FirstRun(s, p.schedule) # NULL
  <2>1. CASE p.schedule.type = "interval"
    <3>1. ControllerNow \in Int /\ Spread[s] \in Int
      BY <1>3, ControllerNowType, ScheduleAssumption
    <3>2. ControllerNow + Spread[s] \in Int
      BY <3>1
    <3> QED
      BY <2>1, <3>2, NullAssumption DEF FirstRun
  <2>2. CASE p.schedule.type # "interval"
    BY <1>2, <1>3, <2>2, ControllerNowType DEF FirstRun
  <2> QED
    BY <2>1, <2>2
<1> QED
  BY <1>2, <1>3

LEMMA RecurReconcile ==
    ASSUME RecurInv, TypeOK', NEW config \in Configs, ReconcileSources(config)
    PROVE  RecurInv'
<1>a. TypeOK /\ ClockTypes
  BY DEF RecurInv, TypeOK
<1>1. /\ \A s \in DOMAIN sources' :
             sources'[s] = IF s \in DOMAIN config
                           THEN [enabled |-> config[s].enabled, spec |-> config[s]]
                           ELSE [sources[s] EXCEPT !.enabled = FALSE]
      /\ DOMAIN sources' = DOMAIN sources \cup DOMAIN config
      /\ DOMAIN schedules' = DOMAIN sources'
  BY DEF ReconcileSources
<1>2. tasks' = tasks
  BY <1>a, ReconciledRows
<1>3. ASSUME NEW s \in DOMAIN sources'
      PROVE  \E c \in Configs : s \in DOMAIN c /\ sources'[s].spec = c[s]
  <2>1. CASE s \in DOMAIN config
    <3>1. sources'[s] = [enabled |-> config[s].enabled, spec |-> config[s]]
      BY <1>1, <2>1
    <3>2. sources'[s].spec = config[s]
      BY <3>1
    <3> QED
      BY <2>1, <3>2
  <2>2. CASE s \notin DOMAIN config
    <3>1. s \in DOMAIN sources /\ sources'[s] = [sources[s] EXCEPT !.enabled = FALSE]
      BY <1>1, <2>2
    <3>2. sources'[s].spec = sources[s].spec
      BY <1>a, <3>1 DEF TypeOK, SourceTypes
    <3> QED
      BY <3>1, <3>2 DEF RecurInv, SpecsAreConfigured
  <2> QED
    BY <2>1, <2>2
<1>4. SpecsAreConfigured'
  BY <1>2, <1>3 DEF RecurInv, SpecsAreConfigured
<1>5. ASSUME NEW s \in DOMAIN sources', sources'[s].enabled,
             sources'[s].spec.schedule.type # "once"
      PROVE  /\ schedules'[s].enabled
             /\ \/ schedules'[s].active_task_id # NULL
                \/ schedules'[s].next_run_at # NULL
  <2>1. s \in DOMAIN config
    <3>1. s \notin DOMAIN config =>
              /\ s \in DOMAIN sources
              /\ sources'[s] = [sources[s] EXCEPT !.enabled = FALSE]
      BY <1>1
    <3>2. s \notin DOMAIN config => sources'[s].enabled = FALSE
      BY <1>a, <3>1 DEF TypeOK, SourceTypes
    <3> QED
      BY <1>5, <3>2
  <2> DEFINE p == config[s]
  <2>2. /\ s \in Sources /\ p \in Specs /\ p.enabled
        /\ p.schedule.type # "once"
    <3>1. sources'[s] = [enabled |-> p.enabled, spec |-> p]
      BY <1>1, <2>1
    <3>2. sources'[s].enabled = p.enabled /\ sources'[s].spec = p
      BY <3>1
    <3> QED
      BY <1>5, <2>1, <3>2, ConfigsAssumption
  <2>3. FirstRun(s, p.schedule) # NULL
    BY <1>a, <2>2, RecurringNext
  <2>4. schedules'[s] = ReconciledSchedule(s, p)
    BY <1>a, <1>1, <2>1, ReconciledRows
  <2> HIDE DEF p
  <2>5. /\ ReconciledSchedule(s, p).enabled = p.enabled
        /\ ReconciledSchedule(s, p).next_run_at # NULL
    BY <2>2, <2>3 DEF ReconciledSchedule, Coalesce
  <2> QED
    BY <2>2, <2>4, <2>5
<1>6. RecurringSourcesStayScheduled'
  BY <1>5 DEF RecurringSourcesStayScheduled
<1> QED
  BY <1>4, <1>6 DEF RecurInv

LEMMA RecurRegisters ==
    ASSUME RecurInv, TypeOK', NEW n, NEW f, Registers(n, f)
    PROVE  RecurInv'
<1>a. TypeOK /\ task_seq \in Nat
  BY BoundsAssumption DEF RecurInv, TypeOK, TaskTypes
<1>1. sources' = sources /\ DOMAIN schedules' = DOMAIN schedules
      /\ DOMAIN schedules = DOMAIN sources
  BY <1>a DEF Registers, TypeOK, SourceTypes
<1>2. ASSUME NEW t \in DOMAIN tasks', tasks'[t].schedule_id # NULL
      PROVE  \E c \in Configs : /\ tasks'[t].schedule_id \in DOMAIN c
                                /\ tasks'[t].snapshot = c[tasks'[t].schedule_id]
  <2>1. CASE t \in DOMAIN tasks
    <3>1. tasks'[t] = tasks[t]
      BY <1>a, <2>1, RegisteredRows
    <3> QED
      BY <1>2, <2>1, <3>1 DEF RecurInv, SpecsAreConfigured
  <2>2. CASE t \notin DOMAIN tasks
    <3>1. PICK i \in 1..n : tasks'[t] = DueTask(f[i])
      BY <1>a, <1>2, <2>2, RegisteredRows
    <3>2. f[i] \in DOMAIN sources
      BY <1>a, <1>1, RegisteredRows
    <3>3. /\ tasks'[t].schedule_id = f[i]
          /\ tasks'[t].snapshot = sources[f[i]].spec
      BY <3>1, DueRow
    <3> QED
      BY <3>2, <3>3 DEF RecurInv, SpecsAreConfigured
  <2> QED
    BY <2>1, <2>2
<1>3. SpecsAreConfigured'
  BY <1>1, <1>2 DEF RecurInv, SpecsAreConfigured
<1>4. ASSUME NEW s \in DOMAIN sources, sources[s].enabled,
             sources[s].spec.schedule.type # "once"
      PROVE  /\ schedules'[s].enabled
             /\ \/ schedules'[s].active_task_id # NULL
                \/ schedules'[s].next_run_at # NULL
  <2>1. ASSUME NEW i \in 1..n, f[i] = s
        PROVE  schedules'[s].enabled /\ schedules'[s].active_task_id # NULL
    <3>1. schedules'[s] = [enabled |-> TRUE, next_run_at |-> NULL,
                           active_task_id |-> task_seq + i]
      BY <2>1 DEF Registers
    <3>2. task_seq + i # NULL
      BY <1>a, NullAssumption
    <3>3. schedules'[s].active_task_id = task_seq + i
          /\ schedules'[s].enabled = TRUE
      BY <3>1
    <3> QED
      BY <3>2, <3>3
  <2>2. CASE \A i \in 1..n : f[i] # s
    <3>1. schedules'[s] = schedules[s]
      BY <1>1, <2>2 DEF Registers
    <3> QED
      BY <1>4, <3>1 DEF RecurInv, RecurringSourcesStayScheduled
  <2> QED
    BY <2>1, <2>2
<1>5. RecurringSourcesStayScheduled'
  BY <1>1, <1>4 DEF RecurringSourcesStayScheduled
<1> QED
  BY <1>3, <1>5 DEF RecurInv

LEMMA RecurRetire ==
    ASSUME RecurInv, KindsAreFixed, TypeOK', NEW t \in DOMAIN tasks, NEW final,
           NEW report, Retire(t, final, report)
    PROVE  RecurInv'
<1>a. TypeOK /\ ClockTypes
  BY DEF RecurInv, TypeOK
<1> DEFINE following == NextRun(tasks[t].snapshot.schedule, ControllerNow)
<1>1. /\ DOMAIN tasks' = DOMAIN tasks \ {t} /\ sources' = sources
      /\ \A u \in DOMAIN tasks' : tasks'[u] = tasks[u]
      /\ \A s \in DOMAIN schedules :
             schedules'[s] =
                 IF s # NULL /\ s = tasks[t].schedule_id
                 THEN [enabled |-> schedules[s].enabled /\ following # NULL,
                       next_run_at |-> following, active_task_id |-> NULL]
                 ELSE schedules[s]
  BY <1>a, FinishedRow
<1>2. ASSUME NEW s \in DOMAIN sources, s = tasks[t].schedule_id, s # NULL,
             sources[s].spec.schedule.type # "once"
      PROVE  following # NULL
  <2>1. PICK c \in Configs : s \in DOMAIN c /\ sources[s].spec = c[s]
    BY DEF RecurInv, SpecsAreConfigured
  <2>2. PICK d \in Configs : s \in DOMAIN d /\ tasks[t].snapshot = d[s]
    BY <1>2 DEF RecurInv, SpecsAreConfigured
  <2>3. d[s].schedule.type # "once"
    BY <1>2, <2>1, <2>2 DEF KindsAreFixed
  <2>4. tasks[t].snapshot \in Specs
    BY <1>a DEF TypeOK, TaskTypes, Tasks
  <2> QED
    BY <1>a, <2>2, <2>3, <2>4, RecurringNext, ControllerNowType
<1> HIDE DEF following
<1>3. SpecsAreConfigured'
  BY <1>1 DEF RecurInv, SpecsAreConfigured
<1>4. ASSUME NEW s \in DOMAIN sources, sources[s].enabled,
             sources[s].spec.schedule.type # "once"
      PROVE  /\ schedules'[s].enabled
             /\ \/ schedules'[s].active_task_id # NULL
                \/ schedules'[s].next_run_at # NULL
  <2>0. s \in DOMAIN schedules
        /\ schedules[s].enabled
        /\ (schedules[s].active_task_id # NULL \/ schedules[s].next_run_at # NULL)
    BY <1>a, <1>4 DEF RecurInv, RecurringSourcesStayScheduled, TypeOK, SourceTypes
  <2>1. CASE schedules'[s] = schedules[s]
    BY <2>0, <2>1
  <2>2. CASE schedules'[s] # schedules[s]
    <3>1. /\ s # NULL /\ s = tasks[t].schedule_id
          /\ schedules'[s] = [enabled |-> schedules[s].enabled /\ following # NULL,
                              next_run_at |-> following, active_task_id |-> NULL]
      BY <1>1, <2>0, <2>2, Zenon
    <3>2. following # NULL
      BY <1>2, <1>4, <3>1
    <3>3. /\ schedules'[s].enabled = (schedules[s].enabled /\ following # NULL)
          /\ schedules'[s].next_run_at = following
      BY <3>1
    <3> QED
      BY <2>0, <3>2, <3>3
  <2> QED
    BY <2>1, <2>2
<1>5. RecurringSourcesStayScheduled'
  BY <1>1, <1>4 DEF RecurringSourcesStayScheduled
<1> QED
  BY <1>3, <1>5 DEF RecurInv

LEMMA RecurStep ==
    ASSUME KindsAreFixed, RecurInv, [Next]_vars
    PROVE  RecurInv'
<1>a. TypeOK /\ TypeOK'
  BY TypesPreserved DEF RecurInv
<1>1. CASE Quiet
  BY <1>1, <1>a DEF Quiet, RowsStay, SameOrigin, RecurInv, SpecsAreConfigured,
                    RecurringSourcesStayScheduled
<1>2. ASSUME NEW n, NEW rows, InsertsUnscheduled(n, rows) PROVE RecurInv'
  <2>1. /\ n \in Nat /\ InsertTasks(n, rows)
        /\ UNCHANGED <<sources, schedules>>
        /\ \A i \in 1..n : rows[i].schedule_id = NULL
    BY <1>2 DEF InsertsUnscheduled
  <2>2. /\ \A t \in DOMAIN tasks : tasks'[t] = tasks[t]
        /\ \A t \in DOMAIN tasks' \ DOMAIN tasks : tasks'[t].schedule_id = NULL
    BY <1>a, <2>1, InsertedRows
  <2> QED
    BY <1>a, <2>1, <2>2 DEF RecurInv, SpecsAreConfigured,
                            RecurringSourcesStayScheduled
<1> QED
  BY <1>a, <1>1, <1>2, StepsHaveShapes, RecurReconcile, RecurRegisters, RecurRetire
     DEF Shapes

\* While no edit of the sources file turns a single run into a recurring
\* schedule, a recurring source never falls asleep: the condition that the edit
\* of MCEditedSchedule breaks.
THEOREM RecurringSourcesRecur ==
    KindsAreFixed => (Spec => []RecurringSourcesStayScheduled)
<1> SUFFICES ASSUME KindsAreFixed PROVE Spec => []RecurringSourcesStayScheduled
  OBVIOUS
<1>1. Init => RecurInv
  BY InitTypes DEF Init, RecurInv, SpecsAreConfigured, RecurringSourcesStayScheduled
<1>2. RecurInv /\ [Next]_vars => RecurInv'
  BY RecurStep
<1>3. RecurInv => RecurringSourcesStayScheduled
  BY DEF RecurInv
<1> QED
  BY <1>1, <1>2, <1>3, PTL DEF Spec

-----------------------------------------------------------------------------
(* Batches *)

\* A task or a run is of a batch that was created.
BatchesExist ==
    /\ \A t \in DOMAIN tasks :
           tasks[t].batch_id # NULL => tasks[t].batch_id \in DOMAIN task_batches
    /\ \A k \in DOMAIN task_runs :
           task_runs[k].batch_id # NULL =>
               task_runs[k].batch_id \in DOMAIN task_batches

\* Cancelled or not, a batch never has more left than its total allows.
BatchesFitTheirTotal ==
    \A b \in DOMAIN task_batches :
        task_batches[b].completed_tasks + Cardinality(BatchTasks(b))
            <= task_batches[b].total_tasks

BatchInv ==
    /\ KeysInv /\ IsFiniteSet(DOMAIN task_runs)
    /\ BatchesExist /\ BatchesFitTheirTotal
    /\ BatchCountsItsRuns /\ BatchEndsWithItsLastTask

FailedRuns(b) ==
    {k \in BatchRuns(b) : task_runs[k].final_status \in {"partial", "dead"}}

\* What BatchInv says of one batch, its counters being c and f.
BatchIs(b, status, total, c, f) ==
    LET left == Cardinality(BatchTasks(b)) IN
    /\ c = Cardinality(BatchRuns(b)) /\ f = Cardinality(FailedRuns(b))
    /\ status # "cancelled" => total = c + left
    /\ c + left <= total
    /\ status \in {"running", "paused"} => BatchTasks(b) # {}
    /\ status \in {"completed", "partial"} => BatchTasks(b) = {}
    /\ status = "completed" => f = 0
    /\ status = "partial" => f > 0

BatchIsCounted(b) ==
    BatchIs(b, task_batches[b].status, task_batches[b].total_tasks,
            task_batches[b].completed_tasks, task_batches[b].failed_tasks)

BatchesAreCounted == \A b \in DOMAIN task_batches : BatchIsCounted(b)

LEMMA BatchByBatch ==
    (BatchesFitTheirTotal /\ BatchCountsItsRuns /\ BatchEndsWithItsLastTask)
        <=> BatchesAreCounted
BY DEF BatchesFitTheirTotal, BatchCountsItsRuns, BatchEndsWithItsLastTask,
       BatchesAreCounted, BatchIsCounted, BatchIs, FailedRuns

\* The tasks and the runs of a batch are finitely many.
LEMMA BatchesAreFinite ==
    ASSUME TypeOK, IsFiniteSet(DOMAIN task_runs), NEW b
    PROVE  /\ IsFiniteSet(BatchTasks(b)) /\ IsFiniteSet(BatchRuns(b))
           /\ IsFiniteSet(FailedRuns(b))
           /\ Cardinality(BatchTasks(b)) \in Nat
           /\ Cardinality(BatchRuns(b)) \in Nat
           /\ Cardinality(FailedRuns(b)) \in Nat
<1>1. IsFiniteSet(1..task_seq)
  BY BoundsAssumption, FS_Interval DEF TypeOK, TaskTypes
<1>2. BatchTasks(b) \subseteq 1..task_seq
  BY DEF TypeOK, TaskTypes, BatchTasks
<1>3. BatchRuns(b) \subseteq DOMAIN task_runs /\ FailedRuns(b) \subseteq DOMAIN task_runs
  BY DEF BatchRuns, FailedRuns
<1> QED
  BY <1>1, <1>2, <1>3, FS_Subset, FS_CardinalityType

\* Batches are numbered, so none has the number NULL.
LEMMA BatchIdsAreIds ==
    ASSUME TypeOK, NEW b \in DOMAIN task_batches
    PROVE  b \in 1..batch_seq /\ b # NULL /\ task_batches[b] \in Batches
BY BoundsAssumption, NullAssumption DEF TypeOK, BatchTypes

\* How a step moves the tasks of batches.
BatchesRest == /\ UNCHANGED <<batchVars, task_runs>>
               /\ RowsStay /\ DOMAIN tasks' = DOMAIN tasks

InsertsLoose(n, rows) ==
    /\ InsertTasks(n, rows) /\ n \in Nat /\ UNCHANGED batchVars
    /\ \A i \in 1..n : rows[i].batch_id = NULL

BatchMoves ==
    \/ BatchesRest
    \/ \E n, rows : InsertsLoose(n, rows)
    \/ \E s \in Sources, n \in 1..MaxWindows : CreateBackfill(s, n)
    \/ \E b \in DOMAIN task_batches, action \in DOMAIN BackfillState :
           SetBackfillState(b, action)
    \/ \E t \in DOMAIN tasks, final \in {"succeeded", "partial", "dead"} :
           \E report : Retire(t, final, report)

LEMMA StepsMoveBatches == TypeOK /\ [Next]_vars => BatchMoves
<1> SUFFICES ASSUME TypeOK, [Next]_vars
             PROVE  BatchMoves
  OBVIOUS
<1> USE DEF BatchMoves
<1>1. CASE UNCHANGED taskVars /\ UNCHANGED batchVars
  BY <1>1 DEF taskVars, BatchesRest, RowsStay, SameOrigin
<1>2. CASE Maintenance
  BY <1>2, MaintenanceRows DEF Maintenance, BatchesRest
<1>3. CASE RegisterDueSchedules
  <2>1. PICK n \in 1..MaxTasks : \E source_of : InsertsDue(n, source_of)
    BY <1>3, DueInserts
  <2>2. PICK source_of : InsertsDue(n, source_of)
    BY <2>1
  <2> DEFINE rows == [i \in 1..n |-> DueTask(source_of[i])]
  <2>3. InsertTasks(n, rows) /\ n \in Nat
    BY <2>2, BoundsAssumption DEF InsertsDue
  <2>4. \A i \in 1..n : rows[i].batch_id = NULL
    BY NewTaskRow DEF DueTask
  <2>5. UNCHANGED batchVars
    BY <1>3, Zenon DEF RegisterDueSchedules
  <2> HIDE DEF rows
  <2> QED
    BY <2>3, <2>4, <2>5 DEF InsertsLoose
<1>4. ASSUME NEW s \in Sources, NEW k \in ManualKeys, RegisterManual(s, k)
      PROVE  BatchMoves
  <2> DEFINE rows == [i \in {1} |->
                 NewTask(ManualKey(k), s, "manual", NULL, NULL, ControllerNow)]
  <2>1. InsertTasks(1, rows) /\ UNCHANGED batchVars
    BY <1>4 DEF RegisterManual
  <2>2. \A i \in 1..1 : rows[i].batch_id = NULL
    BY NewTaskRow
  <2> HIDE DEF rows
  <2>3. InsertsLoose(1, rows)
    BY <2>1, <2>2 DEF InsertsLoose
  <2> QED
    BY <2>3
<1>5. CASE \E s \in Sources, n \in 1..MaxWindows : CreateBackfill(s, n)
  BY <1>5
<1>6. CASE \E b \in DOMAIN task_batches, action \in DOMAIN BackfillState :
             SetBackfillState(b, action)
  BY <1>6
<1>7. ASSUME NEW n \in Nodes, NEW ts \in SUBSET DOMAIN tasks,
             NEW slot_of \in [Requires(ts) -> 1..MaxCapacity],
             ClaimTasks(n, ts, slot_of)
      PROVE  BatchesRest
  BY <1>7, ClaimRows DEF ClaimTasks, BatchesRest
<1>8. ASSUME NEW n \in Nodes, NEW running \in SUBSET {g \in grants : g.node = n},
             Heartbeat(n, running)
      PROVE  BatchesRest
  BY <1>8, HeartbeatRows DEF Heartbeat, BatchesRest
<1>9. ASSUME NEW g \in grants, NEW status \in {"succeeded", "partial"},
             CompleteTask(g, status)
      PROVE  BatchMoves
  BY <1>9 DEF CompleteTask, HoldsLease
<1>10. ASSUME NEW g \in grants, NEW retryable \in BOOLEAN,
              NEW delay \in RetryDelays, FailTask(g, retryable, delay)
       PROVE  BatchMoves
  <2>1. g.task \in DOMAIN tasks
    BY <1>10 DEF FailTask, HoldsLease
  <2>2. CASE Retire(g.task, "dead", g.token)
    BY <2>1, <2>2
  <2>3. CASE ~Retire(g.task, "dead", g.token)
    <3>1. /\ tasks' = [tasks EXCEPT ![g.task] = Released(g.task, delay)]
          /\ UNCHANGED <<batchVars, task_runs>>
      BY <1>10, <2>3 DEF FailTask
    <3> QED
      BY <2>1, <3>1, ReleaseRows DEF BatchesRest
  <2> QED
    BY <2>2, <2>3
<1>11. CASE \/ Tick \/ UNCHANGED vars
            \/ \E config \in Configs : ReconcileSources(config)
            \/ \E n \in Nodes, state \in DesiredStates : SetWorkerState(n, state)
            \/ \E n \in Nodes, mode \in Modes : EnrollWorker(n, mode)
  BY <1>1, <1>11 DEF Tick, ReconcileSources, SetWorkerState, EnrollWorker, vars
<1> QED
  BY <1>1, <1>2, <1>3, <1>4, <1>5, <1>6, <1>7, <1>8, <1>9, <1>10, <1>11 DEF Next

\* A batch whose row, tasks and runs stay is counted as it was.
LEMMA BatchStays ==
    ASSUME NEW b, BatchIsCounted(b),
           task_batches'[b] = task_batches[b], BatchTasks(b)' = BatchTasks(b),
           BatchRuns(b)' = BatchRuns(b),
           \A k \in BatchRuns(b) : task_runs'[k] = task_runs[k]
    PROVE  BatchIsCounted(b)'
<1>1. FailedRuns(b)' = FailedRuns(b)
  BY DEF FailedRuns
<1> QED
  BY <1>1 DEF BatchIsCounted, BatchIs

LEMMA BatchesAtRest ==
    ASSUME BatchInv, BatchesRest
    PROVE  BatchesExist' /\ BatchesAreCounted'
<1>1. UNCHANGED <<task_batches, task_runs>> /\ DOMAIN tasks' = DOMAIN tasks
      /\ \A t \in DOMAIN tasks : tasks'[t].batch_id = tasks[t].batch_id
  BY DEF BatchesRest, batchVars, RowsStay, SameOrigin
<1>2. \A b : BatchTasks(b)' = BatchTasks(b) /\ BatchRuns(b)' = BatchRuns(b)
  BY <1>1 DEF BatchTasks, BatchRuns
<1>3. BatchesAreCounted
  BY BatchByBatch DEF BatchInv
<1>4. BatchesAreCounted'
  BY <1>1, <1>2, <1>3, BatchStays DEF BatchesAreCounted
<1>5. BatchesExist'
  BY <1>1 DEF BatchInv, BatchesExist
<1> QED
  BY <1>4, <1>5

LEMMA BatchesInsertLoose ==
    ASSUME BatchInv, NEW n, NEW rows, InsertsLoose(n, rows)
    PROVE  BatchesExist' /\ BatchesAreCounted'
<1>a. TypeOK
  BY DEF BatchInv, KeysInv
<1>1. /\ UNCHANGED <<task_batches, task_runs>>
      /\ \A t \in DOMAIN tasks : t \in DOMAIN tasks' /\ tasks'[t] = tasks[t]
      /\ \A t \in DOMAIN tasks' \ DOMAIN tasks : tasks'[t].batch_id = NULL
  <2>1. InsertTasks(n, rows) /\ n \in Nat /\ UNCHANGED batchVars
    BY DEF InsertsLoose
  <2>2. /\ \A t \in DOMAIN tasks : t \in DOMAIN tasks' /\ tasks'[t] = tasks[t]
        /\ \A t \in DOMAIN tasks' \ DOMAIN tasks : \E i \in 1..n : tasks'[t] = rows[i]
    BY <1>a, <2>1, InsertedRows
  <2>3. \A i \in 1..n : rows[i].batch_id = NULL
    BY DEF InsertsLoose
  <2> QED
    BY <2>1, <2>2, <2>3 DEF InsertTasks, batchVars
<1>2. \A b \in DOMAIN task_batches :
          BatchTasks(b)' = BatchTasks(b) /\ BatchRuns(b)' = BatchRuns(b)
  BY <1>a, <1>1, BatchIdsAreIds DEF BatchTasks, BatchRuns
<1>3. BatchesAreCounted
  BY BatchByBatch DEF BatchInv
<1>4. BatchesAreCounted'
  BY <1>1, <1>2, <1>3, BatchStays DEF BatchesAreCounted
<1>5. BatchesExist'
  BY <1>1 DEF BatchInv, BatchesExist
<1> QED
  BY <1>4, <1>5

\* The id of a new batch is new: nothing was of that batch before.
LEMMA BatchesCreate ==
    ASSUME BatchInv, NEW s \in Sources, NEW n \in 1..MaxWindows, CreateBackfill(s, n)
    PROVE  BatchesExist' /\ BatchesAreCounted'
<1>0. PICK b : b = batch_seq + 1
  OBVIOUS
<1> DEFINE rows == [w \in 1..n |->
               NewTask(BackfillKey(b, w), s, "backfill", NULL, b, ControllerNow)]
           new == (task_seq + 1)..(task_seq + n)
<1>a. TypeOK /\ BatchesAreCounted
  BY BatchByBatch DEF BatchInv, KeysInv
<1>b. /\ batch_seq \in Nat /\ b \in Nat /\ DOMAIN task_batches = 1..batch_seq
      /\ task_seq \in Nat /\ n \in Nat /\ n >= 1
      /\ b \notin DOMAIN task_batches /\ b # NULL
  BY <1>0, <1>a, BoundsAssumption, NullAssumption DEF TypeOK, BatchTypes, TaskTypes
<1>1. InsertTasks(n, rows)
  BY <1>0 DEF CreateBackfill
<1>2. \A i \in 1..n : rows[i].batch_id = b
  BY NewTaskRow
<1> HIDE DEF rows
<1>3. /\ \A t \in DOMAIN tasks : t \in DOMAIN tasks' /\ tasks'[t] = tasks[t]
      /\ \A t \in DOMAIN tasks' \ DOMAIN tasks : tasks'[t].batch_id = b
      /\ DOMAIN tasks' = DOMAIN tasks \cup new
      /\ \A t \in new : t \notin DOMAIN tasks
  <2>1. /\ \A t \in DOMAIN tasks : t \in DOMAIN tasks' /\ tasks'[t] = tasks[t]
        /\ \A t \in DOMAIN tasks' \ DOMAIN tasks :
               \E i \in 1..n : t = task_seq + i /\ tasks'[t] = rows[i]
    BY <1>a, <1>b, <1>1, InsertedRows
  <2>2. DOMAIN tasks' = DOMAIN tasks \cup new
    BY <1>1 DEF InsertTasks
  <2>3. DOMAIN tasks \subseteq 1..task_seq
    BY <1>a DEF TypeOK, TaskTypes
  <2> QED
    BY <1>b, <1>2, <2>1, <2>2, <2>3
<1>4. /\ DOMAIN task_batches' = DOMAIN task_batches \cup {b}
      /\ \A i \in DOMAIN task_batches : task_batches'[i] = task_batches[i]
      /\ task_batches'[b] =
             [status |-> "running", total_tasks |-> n, completed_tasks |-> 0,
              failed_tasks |-> 0, completed_at |-> NULL]
      /\ task_runs' = task_runs
  BY <1>0, <1>b, <1>1 DEF CreateBackfill, InsertTasks
<1>5. \A i \in DOMAIN task_batches :
          BatchTasks(i)' = BatchTasks(i) /\ BatchRuns(i)' = BatchRuns(i)
  BY <1>b, <1>3, <1>4 DEF BatchTasks, BatchRuns
<1>6. ASSUME NEW i \in DOMAIN task_batches PROVE BatchIsCounted(i)'
  BY <1>a, <1>4, <1>5, BatchStays DEF BatchesAreCounted
<1>7. BatchIsCounted(b)'
  <2>1. BatchTasks(b)' = new
    <3>1. \A t \in DOMAIN tasks : tasks[t].batch_id # b
      BY <1>b DEF BatchInv, BatchesExist
    <3> QED
      BY <1>3, <3>1 DEF BatchTasks
  <2>2. BatchRuns(b)' = {} /\ FailedRuns(b)' = {}
    BY <1>b, <1>4 DEF BatchInv, BatchesExist, BatchRuns, FailedRuns
  <2>3. Cardinality(new) = n /\ Cardinality({}) = 0
    <3>1. PICK x, y \in Int : x = task_seq + 1 /\ y = task_seq + n
      BY <1>b
    <3>2. Cardinality(x..y) = IF x > y THEN 0 ELSE y - x + 1
      BY FS_Interval
    <3> QED
      BY <1>b, <3>1, <3>2, FS_EmptySet
  <2>4. BatchTasks(b)' # {}
    <3>1. task_seq + 1 \in new
      BY <1>b
    <3> QED
      BY <2>1, <3>1
  <2>5. /\ Cardinality(BatchTasks(b)') = n /\ Cardinality(BatchRuns(b)') = 0
        /\ Cardinality(FailedRuns(b)') = 0
    BY <2>1, <2>2, <2>3
  <2>6. /\ task_batches'[b].status = "running" /\ task_batches'[b].total_tasks = n
        /\ task_batches'[b].completed_tasks = 0 /\ task_batches'[b].failed_tasks = 0
    BY <1>4
  <2> QED
    BY <1>b, <2>4, <2>5, <2>6 DEF BatchIsCounted, BatchIs
<1>8. BatchesAreCounted'
  BY <1>4, <1>6, <1>7 DEF BatchesAreCounted
<1>9. BatchesExist'
  BY <1>3, <1>4 DEF BatchInv, BatchesExist
<1> QED
  BY <1>8, <1>9

\* Pausing and resuming leave the tasks; cancelling takes some of them.
LEMMA BatchesSet ==
    ASSUME BatchInv, NEW b \in DOMAIN task_batches,
           NEW action \in DOMAIN BackfillState, SetBackfillState(b, action)
    PROVE  BatchesExist' /\ BatchesAreCounted'
<1>a. TypeOK /\ BatchesAreCounted
  BY BatchByBatch DEF BatchInv, KeysInv
<1> DEFINE row == task_batches[b]
<1>1. /\ DOMAIN task_batches' = DOMAIN task_batches /\ task_runs' = task_runs
      /\ \A i \in DOMAIN task_batches \ {b} : task_batches'[i] = task_batches[i]
      /\ DOMAIN tasks' \subseteq DOMAIN tasks
      /\ \A t \in DOMAIN tasks' : tasks'[t] = tasks[t]
      /\ \A t \in DOMAIN tasks \ DOMAIN tasks' : tasks[t].batch_id = b
      /\ action # "cancel" => tasks' = tasks
  BY DEF SetBackfillState, Waiting
<1>2. /\ row.status \in {"running", "paused"} /\ row \in Batches
      /\ task_batches'[b].status = BackfillState[action]
      /\ task_batches'[b].total_tasks = row.total_tasks
      /\ task_batches'[b].completed_tasks = row.completed_tasks
      /\ task_batches'[b].failed_tasks = row.failed_tasks
  <2>1. row \in Batches
    BY <1>a, BatchIdsAreIds
  <2> QED
    BY <2>1 DEF SetBackfillState, Batches
<1>3. ASSUME NEW i \in DOMAIN task_batches \ {b} PROVE BatchIsCounted(i)'
  <2>1. BatchTasks(i)' = BatchTasks(i) /\ BatchRuns(i)' = BatchRuns(i)
    BY <1>1 DEF BatchTasks, BatchRuns
  <2> QED
    BY <1>a, <1>1, <2>1, BatchStays DEF BatchesAreCounted
<1>4. BatchIsCounted(b)'
  <2>1. /\ BatchRuns(b)' = BatchRuns(b) /\ FailedRuns(b)' = FailedRuns(b)
        /\ BatchTasks(b)' \subseteq BatchTasks(b)
        /\ action # "cancel" => BatchTasks(b)' = BatchTasks(b)
    BY <1>1 DEF BatchRuns, FailedRuns, BatchTasks
  <2>2. /\ Cardinality(BatchTasks(b)') <= Cardinality(BatchTasks(b))
        /\ Cardinality(BatchTasks(b)') \in Nat /\ Cardinality(BatchTasks(b)) \in Nat
    BY <1>a, <2>1, BatchesAreFinite, FS_Subset, FS_CardinalityType DEF BatchInv
  <2>3. BatchIsCounted(b)
    BY <1>a DEF BatchesAreCounted
  <2>4. row.completed_tasks \in Nat /\ row.total_tasks \in Nat
    BY <1>2 DEF Batches
  <2>5. CASE action = "cancel"
    <3>1. task_batches'[b].status = "cancelled"
      BY <1>2, <2>5 DEF BackfillState
    <3> QED
      BY <1>2, <2>1, <2>2, <2>3, <2>4, <3>1 DEF BatchIsCounted, BatchIs
  <2>6. CASE action # "cancel"
    <3>1. task_batches'[b].status \in {"running", "paused"}
      BY <1>2, <2>6 DEF BackfillState
    <3>2. BatchTasks(b)' = BatchTasks(b)
      BY <2>1, <2>6
    <3> QED
      BY <1>2, <2>1, <2>3, <3>1, <3>2 DEF BatchIsCounted, BatchIs
  <2> QED
    BY <2>5, <2>6
<1>5. BatchesAreCounted'
  BY <1>1, <1>3, <1>4 DEF BatchesAreCounted
<1>6. BatchesExist'
  BY <1>1 DEF BatchInv, BatchesExist
<1> QED
  BY <1>5, <1>6

\* What finish_batch leaves of the row of batch b.
LEMMA FinishedBatchRow ==
    ASSUME TypeOK, NEW b \in DOMAIN task_batches, NEW final, FinishBatch(b, final)
    PROVE  LET row == task_batches[b]
               row2 == task_batches'[b]
           IN  /\ DOMAIN task_batches' = DOMAIN task_batches
               /\ \A i \in DOMAIN task_batches \ {b} : task_batches'[i] = task_batches[i]
               /\ row2.total_tasks = row.total_tasks
               /\ row2.completed_tasks = row.completed_tasks + 1
               /\ row2.failed_tasks = row.failed_tasks + IF IsFailure(final) THEN 1 ELSE 0
               /\ row.completed_tasks + 1 < row.total_tasks => row2.status = row.status
               /\ row.completed_tasks + 1 >= row.total_tasks =>
                      row2.status = IF row2.failed_tasks > 0 THEN "partial"
                                    ELSE "completed"
<1>1. b # NULL /\ task_batches[b] \in Batches
  BY BatchIdsAreIds
<1> DEFINE row == task_batches[b]
           bad == row.failed_tasks + IF IsFailure(final) THEN 1 ELSE 0
           new == [status |-> IF ~IsLast(b) THEN row.status
                              ELSE IF bad > 0 THEN "partial" ELSE "completed",
                   total_tasks |-> row.total_tasks,
                   completed_tasks |-> row.completed_tasks + 1,
                   failed_tasks |-> bad,
                   completed_at |-> IF IsLast(b) THEN now ELSE NULL]
<1>2. task_batches' = [task_batches EXCEPT ![b] = new]
  BY <1>1 DEF FinishBatch
<1>3. /\ new.total_tasks = row.total_tasks
      /\ new.completed_tasks = row.completed_tasks + 1 /\ new.failed_tasks = bad
      /\ new.status = IF ~IsLast(b) THEN row.status
                      ELSE IF bad > 0 THEN "partial" ELSE "completed"
  OBVIOUS
<1> HIDE DEF new
<1>4. /\ DOMAIN task_batches' = DOMAIN task_batches /\ task_batches'[b] = new
      /\ \A i \in DOMAIN task_batches \ {b} : task_batches'[i] = task_batches[i]
  BY <1>2
<1>5. row.completed_tasks \in Nat /\ row.total_tasks \in Nat
  BY <1>1 DEF Batches
<1> QED
  BY <1>3, <1>4, <1>5 DEF IsLast

\* The end of a task of batch b takes it from the tasks of b to its runs.
LEMMA BatchRetires ==
    ASSUME BatchInv, NEW t \in DOMAIN tasks, NEW b \in DOMAIN task_batches,
           tasks[t].batch_id = b,
           NEW final \in {"succeeded", "partial", "dead"}, NEW report,
           Retire(t, final, report)
    PROVE  BatchIsCounted(b)'
<1>a. TypeOK /\ BatchIsCounted(b)
  BY BatchByBatch DEF BatchInv, KeysInv, BatchesAreCounted
<1> DEFINE row == task_batches[b]
           row2 == task_batches'[b]
           key == tasks[t].dedupe_key
<1>1. key \notin DOMAIN task_runs
  BY DEF BatchInv, KeysInv, KeyNamesOneTask
<1>2. /\ DOMAIN task_runs' = DOMAIN task_runs \cup {key}
      /\ \A k \in DOMAIN task_runs : task_runs'[k] = task_runs[k]
      /\ task_runs'[key].batch_id = b /\ task_runs'[key].final_status = final
  BY <1>1 DEF Retire, Archive
<1>3. /\ DOMAIN tasks' = DOMAIN tasks \ {t}
      /\ \A u \in DOMAIN tasks' : tasks'[u] = tasks[u]
  BY DEF Retire
<1>4. /\ BatchTasks(b)' = BatchTasks(b) \ {t} /\ t \in BatchTasks(b)
      /\ BatchRuns(b)' = BatchRuns(b) \cup {key} /\ key \notin BatchRuns(b)
      /\ FailedRuns(b)' = IF IsFailure(final) THEN FailedRuns(b) \cup {key}
                          ELSE FailedRuns(b)
      /\ key \notin FailedRuns(b)
  <2>1. BatchTasks(b)' = BatchTasks(b) \ {t} /\ t \in BatchTasks(b)
    BY <1>3 DEF BatchTasks
  <2>2. BatchRuns(b)' = BatchRuns(b) \cup {key} /\ key \notin BatchRuns(b)
    BY <1>1, <1>2 DEF BatchRuns
  <2>3. key \notin FailedRuns(b)
    BY <1>1 DEF FailedRuns, BatchRuns
  <2>4. FailedRuns(b)' = {k \in BatchRuns(b) \cup {key} :
                              task_runs'[k].final_status \in {"partial", "dead"}}
    BY <2>2 DEF FailedRuns
  <2>5. \A k \in BatchRuns(b) : task_runs'[k] = task_runs[k]
    BY <1>2 DEF BatchRuns
  <2>6. FailedRuns(b)' = IF IsFailure(final) THEN FailedRuns(b) \cup {key}
                         ELSE FailedRuns(b)
    BY <1>2, <2>4, <2>5 DEF FailedRuns, IsFailure
  <2> QED
    BY <2>1, <2>2, <2>3, <2>6
<1> DEFINE left == Cardinality(BatchTasks(b))
           c == Cardinality(BatchRuns(b))
           f == Cardinality(FailedRuns(b))
           bad == IF IsFailure(final) THEN 1 ELSE 0
<1>5. /\ left \in Nat /\ c \in Nat /\ f \in Nat
      /\ Cardinality(BatchTasks(b)') = left - 1 /\ left - 1 \in Nat
      /\ left - 1 = 0 <=> BatchTasks(b)' = {}
      /\ Cardinality(BatchRuns(b)') = c + 1
      /\ Cardinality(FailedRuns(b)') = f + bad
  <2>1. /\ IsFiniteSet(BatchTasks(b)) /\ IsFiniteSet(BatchRuns(b))
        /\ IsFiniteSet(FailedRuns(b)) /\ left \in Nat /\ c \in Nat /\ f \in Nat
    BY <1>a, BatchesAreFinite DEF BatchInv
  <2>2. /\ IsFiniteSet(BatchTasks(b)')
        /\ Cardinality(BatchTasks(b)') = left - 1
    BY <1>4, <2>1, FS_RemoveElement
  <2>3. /\ Cardinality(BatchTasks(b)') \in Nat
        /\ Cardinality(BatchTasks(b)') = 0 <=> BatchTasks(b)' = {}
    BY <2>2, FS_CardinalityType, FS_EmptySet
  <2>4. Cardinality(BatchRuns(b)') = c + 1
    BY <1>4, <2>1, FS_AddElement
  <2>5. Cardinality(FailedRuns(b)') = f + bad
    <3>1. CASE IsFailure(final)
      BY <1>4, <2>1, <3>1, FS_AddElement
    <3>2. CASE ~IsFailure(final)
      BY <1>4, <2>1, <3>2
    <3> QED
      BY <3>1, <3>2
  <2> QED
    BY <2>1, <2>2, <2>3, <2>4, <2>5
<1>6. /\ row2.total_tasks = row.total_tasks
      /\ row2.completed_tasks = row.completed_tasks + 1
      /\ row2.failed_tasks = row.failed_tasks + bad
      /\ row.completed_tasks + 1 < row.total_tasks => row2.status = row.status
      /\ row.completed_tasks + 1 >= row.total_tasks =>
             row2.status = IF row2.failed_tasks > 0 THEN "partial" ELSE "completed"
  BY <1>a, FinishedBatchRow DEF Retire
<1>7. /\ row.completed_tasks = c /\ row.failed_tasks = f /\ row.total_tasks \in Nat
      /\ c + left <= row.total_tasks
      /\ row.status # "cancelled" => row.total_tasks = c + left
      /\ row.status \in {"running", "paused", "cancelled"}
  <2>1. row \in Batches
    BY <1>a, BatchIdsAreIds
  <2>2. row.status \notin {"completed", "partial"}
    BY <1>a, <1>4 DEF BatchIsCounted, BatchIs
  <2> QED
    BY <1>a, <2>1, <2>2 DEF BatchIsCounted, BatchIs, Batches
<1> HIDE DEF left, c, f, bad, row, row2
<1>8. bad \in {0, 1}
  BY DEF bad
<1>9. CASE c + 1 < row.total_tasks
  <2>1. row2.status = row.status
    BY <1>6, <1>7, <1>9
  <2>2. row2.status # "cancelled" => left - 1 > 0
    BY <1>5, <1>7, <1>9, <2>1
  <2> QED
    BY <1>5, <1>6, <1>7, <1>8, <1>9, <2>1, <2>2 DEF BatchIsCounted, BatchIs, row2
<1>10. CASE ~(c + 1 < row.total_tasks)
  <2>1. row2.status = IF row2.failed_tasks > 0 THEN "partial" ELSE "completed"
    BY <1>5, <1>6, <1>7, <1>10
  <2>2. left - 1 = 0 /\ row.total_tasks = c + 1
    BY <1>5, <1>7, <1>10
  <2>3. row2.failed_tasks \in Nat
    BY <1>5, <1>6, <1>7, <1>8
  <2> QED
    BY <1>5, <1>6, <1>7, <1>8, <2>1, <2>2, <2>3 DEF BatchIsCounted, BatchIs, row2
<1> QED
  BY <1>9, <1>10

LEMMA BatchesRetire ==
    ASSUME BatchInv, NEW t \in DOMAIN tasks,
           NEW final \in {"succeeded", "partial", "dead"}, NEW report,
           Retire(t, final, report)
    PROVE  BatchesExist' /\ BatchesAreCounted'
<1>a. TypeOK /\ BatchesAreCounted
  BY BatchByBatch DEF BatchInv, KeysInv
<1> DEFINE b == tasks[t].batch_id
           key == tasks[t].dedupe_key
<1>1. key \notin DOMAIN task_runs
  BY DEF BatchInv, KeysInv, KeyNamesOneTask
<1>2. /\ DOMAIN task_runs' = DOMAIN task_runs \cup {key}
      /\ \A k \in DOMAIN task_runs : task_runs'[k] = task_runs[k]
      /\ task_runs'[key].batch_id = b
      /\ DOMAIN tasks' = DOMAIN tasks \ {t}
      /\ \A u \in DOMAIN tasks' : tasks'[u] = tasks[u]
  BY <1>1 DEF Retire, Archive
<1>3. b = NULL \/ b \in DOMAIN task_batches
  BY DEF BatchInv, BatchesExist
<1>4. /\ DOMAIN task_batches' = DOMAIN task_batches
      /\ \A i \in DOMAIN task_batches : i # b => task_batches'[i] = task_batches[i]
  <2>1. FinishBatch(b, final)
    BY DEF Retire
  <2>2. CASE b = NULL
    BY <2>1, <2>2 DEF FinishBatch
  <2>3. CASE b \in DOMAIN task_batches
    BY <1>a, <2>1, <2>3, FinishedBatchRow
  <2> QED
    BY <1>3, <2>2, <2>3
<1>5. ASSUME NEW i \in DOMAIN task_batches PROVE BatchIsCounted(i)'
  <2>1. CASE i = b
    BY <2>1, BatchRetires
  <2>2. CASE i # b
    <3>1. BatchTasks(i)' = BatchTasks(i) /\ BatchRuns(i)' = BatchRuns(i)
      BY <1>2, <2>2 DEF BatchTasks, BatchRuns
    <3>2. \A k \in BatchRuns(i) : task_runs'[k] = task_runs[k]
      BY <1>2 DEF BatchRuns
    <3> QED
      BY <1>a, <1>4, <2>2, <3>1, <3>2, BatchStays DEF BatchesAreCounted
  <2> QED
    BY <2>1, <2>2
<1>6. BatchesAreCounted'
  BY <1>4, <1>5 DEF BatchesAreCounted
<1>7. BatchesExist'
  BY <1>2, <1>3, <1>4 DEF BatchInv, BatchesExist
<1> QED
  BY <1>6, <1>7

\* A step adds at most one run.
LEMMA HistoryIsFinite ==
    ASSUME IsFiniteSet(DOMAIN task_runs), BatchMoves
    PROVE  IsFiniteSet(DOMAIN task_runs')
<1>1. CASE task_runs' = task_runs
  BY <1>1
<1>2. ASSUME NEW t, NEW final, NEW report, Retire(t, final, report)
      PROVE  IsFiniteSet(DOMAIN task_runs')
  <2>1. \/ task_runs' = task_runs
        \/ DOMAIN task_runs' = DOMAIN task_runs \cup {tasks[t].dedupe_key}
    BY <1>2 DEF Retire, Archive
  <2> QED
    BY <2>1, FS_AddElement
<1> QED
  BY <1>1, <1>2 DEF BatchMoves, BatchesRest, InsertsLoose, CreateBackfill,
                    SetBackfillState, InsertTasks

LEMMA BatchStep == BatchInv /\ [Next]_vars => BatchInv'
<1> SUFFICES ASSUME BatchInv, [Next]_vars
             PROVE  BatchInv'
  OBVIOUS
<1>1. BatchMoves
  BY StepsMoveBatches DEF BatchInv, KeysInv
<1>2. IsFiniteSet(DOMAIN task_runs')
  BY <1>1, HistoryIsFinite DEF BatchInv
<1>3. BatchesExist' /\ BatchesAreCounted'
  BY <1>1, BatchesAtRest, BatchesInsertLoose, BatchesCreate, BatchesSet, BatchesRetire
     DEF BatchMoves
<1>4. (BatchesFitTheirTotal /\ BatchCountsItsRuns /\ BatchEndsWithItsLastTask)'
  BY <1>3 DEF BatchesFitTheirTotal, BatchCountsItsRuns, BatchEndsWithItsLastTask,
             BatchesAreCounted, BatchIsCounted, BatchIs, FailedRuns
<1>5. KeysInv'
  BY KeysStep DEF BatchInv
<1> QED
  BY <1>2, <1>3, <1>4, <1>5 DEF BatchInv

LEMMA BatchesHold == Spec => []BatchInv
<1>1. Init => BatchInv
  <2>1. Init => KeysInv
    BY InitTypes DEF Init, KeysInv, KeyNamesOneTask, BatchKeysAreOld, UsedKeys
  <2>2. Init => /\ IsFiniteSet(DOMAIN task_runs) /\ BatchesExist
                /\ BatchesFitTheirTotal /\ BatchCountsItsRuns /\ BatchEndsWithItsLastTask
    BY FS_EmptySet DEF Init, BatchesExist, BatchesFitTheirTotal, BatchCountsItsRuns,
                       BatchEndsWithItsLastTask
  <2> QED
    BY <2>1, <2>2 DEF BatchInv
<1> QED
  BY <1>1, BatchStep, PTL DEF Spec

\* Whatever is claimed, requeued, retried, paused or cancelled, the counters of
\* a batch are its history, and with what is left they make its total.
THEOREM BatchesCountTheirRuns == Spec => []BatchCountsItsRuns
<1>1. BatchInv => BatchCountsItsRuns
  BY DEF BatchInv
<1> QED
  BY <1>1, BatchesHold, PTL

\* A batch is open exactly while it has work left, unless it was cancelled,
\* and ends as completed or as partial by what its runs reported.
THEOREM BatchesEndWithTheirLastTask == Spec => []BatchEndsWithItsLastTask
<1>1. BatchInv => BatchEndsWithItsLastTask
  BY DEF BatchInv
<1> QED
  BY <1>1, BatchesHold, PTL

-----------------------------------------------------------------------------
(* Room for backfill *)

\* The backfill node n runs.
BackfillOn(n) == {t \in BackfillOf(DOMAIN tasks) :
                      tasks[t].status = "running" /\ tasks[t].locked_by = n}

RoomInv == TypeOK /\ BackfillLeavesRoom

\* No node enrolls again in another mode.
ModesAreKept == [][\A n \in Nodes : workers'[n].mode = workers[n].mode]_vars

\* A family of finite sets over a finite set has a finite union.
LEMMA FiniteFamily ==
    ASSUME NEW D, IsFiniteSet(D), NEW f, \A x \in D : IsFiniteSet(f[x])
    PROVE  IsFiniteSet(UNION {f[x] : x \in D})
<1> DEFINE T == {f[x] : x \in D}
           g == [x \in D |-> f[x]]
<1>1. g \in Surjection(D, T)
  BY DEF Surjection
<1> HIDE DEF g
<1>2. IsFiniteSet(T)
  BY <1>1, FS_Surjection
<1> QED
  BY <1>2, FS_UNION

LEMMA CountsUpTo ==
    ASSUME NEW n \in Nat
    PROVE  IsFiniteSet(1..n) /\ Cardinality(1..n) = n
<1>1. 1 \in Int /\ n \in Int
  OBVIOUS
<1>2. Cardinality(1..n) = IF 1 > n THEN 0 ELSE n - 1 + 1
  BY <1>1, FS_Interval
<1> QED
  BY <1>1, <1>2, FS_Interval

LEMMA TasksAreFinite == TypeOK => IsFiniteSet(DOMAIN tasks)
<1> SUFFICES ASSUME TypeOK PROVE IsFiniteSet(DOMAIN tasks)
  OBVIOUS
<1>1. DOMAIN tasks \subseteq 1..task_seq /\ task_seq \in Nat
  BY BoundsAssumption DEF TypeOK, TaskTypes
<1> QED
  BY <1>1, CountsUpTo, FS_Subset

\* Slots are counted as a sum counts them: a part costs no more than the
\* whole, two parts no more than both together, and one task its slot_cost.
LEMMA SlotsAreFinite ==
    ASSUME TypeOK, NEW ts \in SUBSET DOMAIN tasks
    PROVE  IsFiniteSet(SlotsOf(ts)) /\ Cost(ts) \in Nat
<1> DEFINE f == [t \in ts |-> {t} \X (1..tasks[t].snapshot.slot_cost)]
<1>1. IsFiniteSet(ts)
  BY TasksAreFinite, FS_Subset
<1>2. ASSUME NEW t \in ts
      PROVE  IsFiniteSet(f[t])
  <2>1. tasks[t].snapshot.slot_cost \in Nat
    BY SpecsAssumption DEF TypeOK, TaskTypes, Tasks
  <2>2. IsFiniteSet({t}) /\ IsFiniteSet(1..tasks[t].snapshot.slot_cost)
    BY <2>1, CountsUpTo, FS_Singleton
  <2> QED
    BY <2>2, FS_Product
<1>3. SlotsOf(ts) = UNION {f[t] : t \in ts}
  BY DEF SlotsOf
<1> HIDE DEF f
<1>4. IsFiniteSet(SlotsOf(ts))
  BY <1>1, <1>2, <1>3, FiniteFamily
<1> QED
  BY <1>4, FS_CardinalityType DEF Cost

LEMMA CostOfOne ==
    ASSUME TypeOK, NEW t \in DOMAIN tasks
    PROVE  Cost({t}) = tasks[t].snapshot.slot_cost
<1> DEFINE c == tasks[t].snapshot.slot_cost
<1>1. c \in Nat \ {0}
  BY SpecsAssumption DEF TypeOK, TaskTypes, Tasks
<1>2. SlotsOf({t}) = {t} \X (1..c)
  BY DEF SlotsOf
<1> HIDE DEF c
<1>c. c \in Nat
  BY <1>1
<1>3. /\ IsFiniteSet({t}) /\ Cardinality({t}) = 1
      /\ IsFiniteSet(1..c) /\ Cardinality(1..c) = c
  BY <1>c, CountsUpTo, FS_Singleton
<1>4. Cardinality({t} \X (1..c)) = 1 * c
  BY <1>3, FS_Product
<1>5. 1 * c = c
  BY <1>c
<1>6. Cost({t}) = Cardinality({t} \X (1..c))
  BY <1>2 DEF Cost
<1>7. Cost({t}) = c
  BY <1>4, <1>5, <1>6
<1> QED
  BY <1>7 DEF c

LEMMA CostsOfParts ==
    ASSUME TypeOK, NEW ts \in SUBSET DOMAIN tasks, NEW us \in SUBSET ts
    PROVE  Cost(us) <= Cost(ts)
<1>1. SlotsOf(us) \subseteq SlotsOf(ts)
  BY DEF SlotsOf
<1> QED
  BY <1>1, SlotsAreFinite, FS_Subset DEF Cost

LEMMA CostsAddUp ==
    ASSUME TypeOK, NEW ts \in SUBSET DOMAIN tasks, NEW us \in SUBSET DOMAIN tasks
    PROVE  Cost(ts \cup us) <= Cost(ts) + Cost(us)
<1>1. SlotsOf(ts \cup us) = SlotsOf(ts) \cup SlotsOf(us)
  BY DEF SlotsOf
<1>2. IsFiniteSet(SlotsOf(ts)) /\ IsFiniteSet(SlotsOf(us))
  BY SlotsAreFinite
<1>3. Cardinality(SlotsOf(ts) \cap SlotsOf(us)) \in Nat
  BY <1>2, FS_Intersection, FS_CardinalityType
<1>4. Cost(ts \cup us) = Cost(ts) + Cost(us)
                            - Cardinality(SlotsOf(ts) \cap SlotsOf(us))
  BY <1>1, <1>2, FS_Union DEF Cost
<1>5. Cost(ts) \in Nat /\ Cost(us) \in Nat
  BY SlotsAreFinite
<1> QED
  BY <1>3, <1>4, <1>5

\* Of some tasks a claim takes, one is taken after all the others.
LEMMA LastTaken ==
    ASSUME TypeOK, NEW ts \in SUBSET DOMAIN tasks, ts # {}
    PROVE  \E t \in ts : \A u \in ts : u # t => Precedes(u, t)
<1> DEFINE Behind(t) == {u \in ts : Precedes(t, u)}
           T == {Cardinality(Behind(t)) : t \in ts}
<1>1. /\ \A t \in ts : ~Precedes(t, t)
      /\ \A t, u, v \in ts : Precedes(t, u) /\ Precedes(u, v) => Precedes(t, v)
  <2>1. \A t \in ts : /\ t \in Int /\ tasks[t].not_before \in Int
                      /\ tasks[t].snapshot.priority \in Nat
    BY BoundsAssumption, SpecsAssumption DEF TypeOK, TaskTypes, Tasks
  <2> QED
    BY <2>1 DEF Precedes
<1>2. ASSUME NEW t \in ts
      PROVE  IsFiniteSet(Behind(t)) /\ Cardinality(Behind(t)) \in Nat
  <2>1. IsFiniteSet(ts)
    BY TasksAreFinite, FS_Subset
  <2> QED
    BY <2>1, FS_Subset, FS_CardinalityType
<1>3. T \subseteq Nat /\ T # {}
  BY <1>2
<1>4. PICK x \in T : \A y \in T : <<y, x>> \notin OpToRel(<, Nat)
  BY <1>3, NatLessThanWellFounded, WFMin
<1>5. PICK t \in ts : x = Cardinality(Behind(t))
  BY <1>4
<1>6. ASSUME NEW u \in ts, u # t, ~Precedes(u, t)
      PROVE  FALSE
  <2>1. Precedes(t, u)
    BY <1>6, PrecedesIsTotal
  <2>2. Behind(u) \subseteq Behind(t) /\ Behind(u) # Behind(t)
    BY <1>1, <2>1
  <2> HIDE DEF Behind
  <2>3. Cardinality(Behind(u)) < Cardinality(Behind(t))
    BY <1>2, <2>2, FS_Subset
  <2>4. ~(Cardinality(Behind(u)) < x)
    BY <1>2, <1>3, <1>4 DEF OpToRel
  <2> QED
    BY <1>5, <2>3, <2>4
<1> QED
  BY <1>6

\* The last backfill task of a claim found room for all those before it.
LEMMA RoomClaim ==
    ASSUME TypeOK, NEW n \in Nodes, NEW ts \in SUBSET DOMAIN tasks,
           NEW slot_of, ClaimTasks(n, ts, slot_of),
           workers[n].mode = "resident",
           Cost(BackfillOn(n)) <= ResidentBackfillSlots
    PROVE  Cost(BackfillOn(n) \cup BackfillOf(ts)) <= ResidentBackfillSlots
<1>a. /\ BackfillOn(n) \subseteq DOMAIN tasks /\ BackfillOf(ts) \subseteq DOMAIN tasks
      /\ RunningBackfill(n) = Cost(BackfillOn(n))
  BY DEF BackfillOn, BackfillOf, RunningBackfill
<1>1. CASE BackfillOf(ts) = {}
  <2>1. BackfillOn(n) \cup BackfillOf(ts) = BackfillOn(n)
    BY <1>1
  <2> QED
    BY <2>1
<1>2. CASE BackfillOf(ts) # {}
  <2>1. PICK t \in BackfillOf(ts) :
            \A u \in BackfillOf(ts) : u # t => Precedes(u, t)
    BY <1>a, <1>2, LastTaken
  <2>2. /\ t \in ts /\ t \in DOMAIN tasks /\ tasks[t].workload = "backfill"
    BY <1>a, <2>1 DEF BackfillOf
  <2> DEFINE ahead == {u \in ts : Precedes(u, t)}
  <2>3. RunningBackfill(n) + Cost(BackfillOf(ahead)) + tasks[t].snapshot.slot_cost
            <= ResidentBackfillSlots
    BY <2>2 DEF ClaimTasks, Fits
  <2>4. BackfillOf(ts) \subseteq BackfillOf(ahead) \cup {t}
    BY <2>1 DEF BackfillOf
  <2>5. BackfillOf(ahead) \subseteq DOMAIN tasks
    BY DEF BackfillOf
  <2> HIDE DEF ahead
  <2> DEFINE on == BackfillOn(n)
             before == BackfillOf(ahead)
             all == on \cup (before \cup {t})
  <2> SUFFICES Cost(all) <= ResidentBackfillSlots
               /\ Cost(on \cup BackfillOf(ts)) <= Cost(all)
    <3>1. /\ Cost(all) \in Nat /\ Cost(on \cup BackfillOf(ts)) \in Nat
      BY <1>a, <2>2, <2>5, SlotsAreFinite
    <3> QED
      BY <3>1, BoundsAssumption
  <2>6. Cost(on \cup BackfillOf(ts)) <= Cost(all)
    BY <1>a, <2>2, <2>4, <2>5, CostsOfParts
  <2>7. Cost(all) <= Cost(on) + Cost(before \cup {t})
    BY <1>a, <2>2, <2>5, CostsAddUp
  <2>8. Cost(before \cup {t}) <= Cost(before) + tasks[t].snapshot.slot_cost
    BY <2>2, <2>5, CostsAddUp, CostOfOne
  <2>9. /\ Cost(all) \in Nat /\ Cost(on) \in Nat /\ Cost(before) \in Nat
        /\ Cost(before \cup {t}) \in Nat /\ tasks[t].snapshot.slot_cost \in Nat
    <3>1. tasks[t].snapshot.slot_cost \in Nat
      BY <2>2, SpecsAssumption DEF TypeOK, TaskTypes, Tasks
    <3> QED
      BY <1>a, <2>2, <2>5, <3>1, SlotsAreFinite
  <2> HIDE DEF on, before, all
  <2>10. RunningBackfill(n) = Cost(on) /\ Cost(BackfillOf(ahead)) = Cost(before)
    BY <1>a DEF on, before
  <2> QED
    BY <2>3, <2>6, <2>7, <2>8, <2>9, <2>10, BoundsAssumption
<1> QED
  BY <1>1, <1>2

\* What a step leaves running was running on the same node.
NoneStarts ==
    \A t \in DOMAIN tasks' : tasks'[t].status = "running" =>
        /\ t \in DOMAIN tasks /\ tasks[t].status = "running"
        /\ tasks'[t].snapshot = tasks[t].snapshot
        /\ tasks'[t].workload = tasks[t].workload
        /\ tasks'[t].locked_by = tasks[t].locked_by

LEMMA StepsStartNone ==
    ASSUME TypeOK, [Next]_vars
    PROVE  \/ NoneStarts
           \/ \E n \in Nodes, ts \in SUBSET DOMAIN tasks : \E slot_of :
                  ClaimTasks(n, ts, slot_of)
<1>a. TaskTypes
  BY DEF TypeOK
<1>1. CASE UNCHANGED tasks
  BY <1>1 DEF NoneStarts
<1>2. CASE Maintenance
  BY <1>2, <1>a, ReleasedOrigin DEF Maintenance, NoneStarts
<1>3. ASSUME NEW n \in Nat, NEW rows, InsertTasks(n, rows),
             \A i \in 1..n : rows[i].status = "pending"
      PROVE  NoneStarts
  <2>1. task_seq \in Nat
    BY <1>a, BoundsAssumption DEF TaskTypes
  <2>2. ASSUME NEW t \in DOMAIN tasks' \ DOMAIN tasks
        PROVE  tasks'[t].status = "pending"
    <3>1. t - task_seq \in 1..n /\ tasks'[t] = rows[t - task_seq]
      BY <1>3, <2>1 DEF InsertTasks
    <3> QED
      BY <1>3, <3>1
  <2> QED
    BY <1>3, <2>2, InsertRows DEF NoneStarts
<1>4. CASE RegisterDueSchedules
  <2>1. PICK n \in 1..MaxTasks : \E source_of : InsertsDue(n, source_of)
    BY <1>4, DueInserts
  <2>2. PICK source_of : InsertsDue(n, source_of)
    BY <2>1
  <2>3. \A i \in 1..n : [j \in 1..n |-> DueTask(source_of[j])][i].status = "pending"
    BY NewTaskRow DEF DueTask
  <2>4. n \in Nat /\ InsertTasks(n, [j \in 1..n |-> DueTask(source_of[j])])
    BY <2>2, BoundsAssumption DEF InsertsDue
  <2> QED
    BY <1>3, <2>3, <2>4
<1>5. ASSUME NEW s \in Sources, NEW k \in ManualKeys, RegisterManual(s, k)
      PROVE  NoneStarts
  BY <1>3, <1>5, NewTaskRow DEF RegisterManual
<1>6. ASSUME NEW s \in Sources, NEW n \in 1..MaxWindows, CreateBackfill(s, n)
      PROVE  NoneStarts
  BY <1>3, <1>6, NewTaskRow, BoundsAssumption DEF CreateBackfill
<1>7. ASSUME NEW b \in DOMAIN task_batches, NEW action \in DOMAIN BackfillState,
             SetBackfillState(b, action)
      PROVE  NoneStarts
  BY <1>7 DEF SetBackfillState, NoneStarts
<1>8. ASSUME NEW n \in Nodes, NEW beating, Heartbeat(n, beating)
      PROVE  NoneStarts
  BY <1>8, <1>a DEF Heartbeat, NoneStarts, TaskTypes, Tasks
<1>9. ASSUME NEW t, NEW final, NEW report, Retire(t, final, report)
      PROVE  NoneStarts
  BY <1>9, RetireRows DEF NoneStarts
<1>10. ASSUME NEW t \in DOMAIN tasks, NEW delay,
              tasks' = [tasks EXCEPT ![t] = Released(t, delay)]
       PROVE  NoneStarts
  BY <1>10, <1>a, ReleasedOrigin DEF NoneStarts
<1>11. ASSUME NEW g \in grants, NEW retryable \in BOOLEAN, NEW delay \in RetryDelays,
              FailTask(g, retryable, delay)
       PROVE  NoneStarts
  BY <1>9, <1>10, <1>11 DEF FailTask, HoldsLease
<1>12. CASE \/ Tick \/ UNCHANGED vars
            \/ \E config \in Configs : ReconcileSources(config)
            \/ \E n \in Nodes, state \in DesiredStates : SetWorkerState(n, state)
            \/ \E n \in Nodes, mode \in Modes : EnrollWorker(n, mode)
  BY <1>1, <1>12 DEF Tick, ReconcileSources, SetWorkerState, EnrollWorker, vars, taskVars
<1> QED
  BY <1>2, <1>4, <1>5, <1>6, <1>7, <1>8, <1>9, <1>11, <1>12 DEF Next, CompleteTask

LEMMA RoomStep ==
    ASSUME RoomInv, [Next]_vars,
           [\A n \in Nodes : workers'[n].mode = workers[n].mode]_vars
    PROVE  RoomInv'
<1>1. TypeOK /\ TypeOK'
  BY TypesPreserved DEF RoomInv
<1> SUFFICES ASSUME NEW n \in Nodes, workers'[n].mode = "resident"
             PROVE  Cost(BackfillOn(n))' <= ResidentBackfillSlots
  BY <1>1 DEF RoomInv, BackfillLeavesRoom, BackfillOn
<1>2. /\ workers[n].mode = "resident"
      /\ Cost(BackfillOn(n)) <= ResidentBackfillSlots
  BY DEF RoomInv, BackfillLeavesRoom, BackfillOn, vars
<1>3. ASSUME NEW us \in SUBSET DOMAIN tasks, BackfillOn(n)' \subseteq us,
             \A t \in BackfillOn(n)' : tasks'[t].snapshot = tasks[t].snapshot,
             Cost(us) <= ResidentBackfillSlots
      PROVE  Cost(BackfillOn(n))' <= ResidentBackfillSlots
  <2>1. SlotsOf(BackfillOn(n))' \subseteq SlotsOf(us)
    BY <1>3 DEF SlotsOf
  <2>2. IsFiniteSet(SlotsOf(us)) /\ Cost(us) \in Nat
    BY <1>1, SlotsAreFinite
  <2>3. /\ Cardinality(SlotsOf(BackfillOn(n))') <= Cost(us)
        /\ Cardinality(SlotsOf(BackfillOn(n))') \in Nat
    BY <2>1, <2>2, FS_Subset, FS_CardinalityType DEF Cost
  <2> QED
    BY <1>3, <2>2, <2>3, BoundsAssumption DEF Cost
<1>4. BackfillOn(n) \subseteq DOMAIN tasks
  BY DEF BackfillOn, BackfillOf
<1>5. CASE NoneStarts
  <2>1. \A t \in BackfillOn(n)' : /\ t \in BackfillOn(n)
                                 /\ tasks'[t].snapshot = tasks[t].snapshot
    BY <1>5 DEF NoneStarts, BackfillOn, BackfillOf
  <2> QED
    BY <1>2, <1>3, <1>4, <2>1
<1>6. ASSUME NEW m \in Nodes, NEW ts \in SUBSET DOMAIN tasks, NEW slot_of,
             ClaimTasks(m, ts, slot_of)
      PROVE  Cost(BackfillOn(n))' <= ResidentBackfillSlots
  <2>1. \A t \in DOMAIN tasks :
            tasks'[t] = IF t \in ts
                        THEN [tasks[t] EXCEPT !.status = "running",
                                !.attempts = tasks[t].attempts + 1, !.locked_by = m,
                                !.heartbeat_at = now,
                                !.lease_token = tasks[t].attempts + 1]
                        ELSE tasks[t]
    BY <1>6 DEF ClaimTasks, Claimed
  <2>2. DOMAIN tasks' = DOMAIN tasks /\ \A t \in DOMAIN tasks : tasks[t] \in Tasks
    BY <1>1, <1>6 DEF ClaimTasks, Claimed, TypeOK, TaskTypes
  <2>3. \A t \in DOMAIN tasks : /\ tasks'[t].snapshot = tasks[t].snapshot
                                /\ tasks'[t].workload = tasks[t].workload
    BY <2>1, <2>2 DEF Tasks
  <2>4. \A t \in ts : tasks'[t].locked_by = m
    BY <2>1, <2>2 DEF Tasks
  <2>5. BackfillOn(n)' \subseteq DOMAIN tasks
    BY <2>2 DEF BackfillOn, BackfillOf
  <2>6. CASE m = n
    <3>1. BackfillOn(n)' \subseteq BackfillOn(n) \cup BackfillOf(ts)
      BY <2>1, <2>2, <2>3 DEF BackfillOn, BackfillOf
    <3>2. BackfillOn(n) \cup BackfillOf(ts) \subseteq DOMAIN tasks
      BY <1>4 DEF BackfillOf
    <3>3. Cost(BackfillOn(n) \cup BackfillOf(ts)) <= ResidentBackfillSlots
      BY <1>1, <1>2, <1>6, <2>6, RoomClaim
    <3> QED
      BY <1>3, <2>3, <2>5, <3>1, <3>2, <3>3
  <2>7. CASE m # n
    <3>1. BackfillOn(n)' \subseteq BackfillOn(n)
      BY <2>1, <2>2, <2>3, <2>4, <2>7 DEF BackfillOn, BackfillOf
    <3> QED
      BY <1>2, <1>3, <1>4, <2>3, <2>5, <3>1
  <2> QED
    BY <2>6, <2>7
<1> QED
  BY <1>5, <1>6, <1>1, StepsStartNone

LEMMA RoomInit == Init => RoomInv
<1> SUFFICES ASSUME Init PROVE RoomInv
  OBVIOUS
<1>1. TypeOK /\ DOMAIN tasks = {}
  BY InitTypes DEF Init
<1>2. \A n \in Nodes : SlotsOf(BackfillOn(n)) = {}
  BY <1>1 DEF SlotsOf, BackfillOn, BackfillOf
<1>3. \A n \in Nodes : Cost(BackfillOn(n)) = 0
  BY <1>2, FS_EmptySet DEF Cost
<1> QED
  BY <1>1, <1>3, BoundsAssumption DEF RoomInv, BackfillLeavesRoom, BackfillOn

\* As long as no node enrolls again in another mode, a resident worker never
\* runs more backfill than resident_backfill_slots, however many claims,
\* requeues and late reports come in between: claim_tasks counts what the
\* node runs already and what the same claim has taken.
THEOREM BackfillLeavesWorkersRoom ==
    Spec /\ ModesAreKept => []BackfillLeavesRoom
<1>1. RoomInv => BackfillLeavesRoom
  BY DEF RoomInv
<1> QED
  BY <1>1, RoomInit, RoomStep, PTL DEF Spec, ModesAreKept
=============================================================================
