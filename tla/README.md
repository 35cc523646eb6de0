# Formal model of the AllFeeds collector

TLA+ specifications of the collector in this repository, the TLC configurations
that check them on small instances, and proofs of their most important safety
properties that hold for every instance. `PROJECT.json` lists the components,
the runs, the mutants that show that each property can fail, the source lines
behind every definition, the hazards the properties were chosen for, the
findings and the theorems.

    tlc -workers 2 -config MCFencing.cfg MCControlStore    # any run
    tlapm WorkerProofs.tla                                 # any proof module

## 1. The system

A *controller* decides who may execute what, *workers* execute plugins in child
processes, and PostgreSQL holds everything they share.

| Component (source) | State | Operations |
| --- | --- | --- |
| ControlStore (`controller/store.py`, `alembic/versions/0001_initial.py`) | tables `sources`, `schedules`, `tasks`, `task_runs`, `task_batches`, `resource_leases`, `workers`, `worker_enrollments`, `worker_credentials` | one transaction per method: reconcile, register, claim, heartbeat, complete, fail, maintenance, batches, enrollment |
| Schedule arithmetic (`controller/scheduling.py`) | none | `next_run` |
| Registrar (`controller/registrar.py`, `config.py`) | a thread, the version of the sources file | every tick: reconcile if the file changed, register what is due, maintain |
| Controller API (`controller/api.py`) | none of its own | authenticates, calls one transaction, long-polls on claims |
| TaskSignal (`controller/signals.py`) | a bounded queue of wake tokens, a LISTEN thread | notify, listen, reconnect, wake waiting claims |
| WorkerRuntime (`worker/runtime.py`, `client.py`) | `self.running`, child processes, `stop`, `desired_state` | poll children, heartbeat, claim, leave |
| Worker start (`worker/main.py`) | the state file with the worker's identity | enroll, save, start |
| TaskExecutor, PostgresSink (`worker/executor.py`, `sink.py`) | tables `resources`, `resource_versions`, `resource_assets`, `fetch_states`; a buffer | load the checkpoint, fetch, download assets, write batches, save the checkpoint |
| Asset store (`worker/assets.py`) | a file per source, external id and asset key, overwritten in place | put |
| SafeHttpClient (`builtin/http.py`) | last request per host, robots cache; a client lives for one execution | get with retries, backoff, Retry-After and rate limit |
| Built-in fetchers (`builtin/fetchers.py`) | the loop over pages, what it has seen, found and counted | RSS, web page, list, JSON API, sitemap |
| Contracts, SDK | none | validated values, exceptions with a class and a retry flag |

How they interact. Workers call the API over HTTP: a request or its answer may
be lost, and a request outlives a sender that gave up. The controller never
calls a worker: a worker learns its `desired_state` from the answers to claims
and heartbeats. The registrar, the API's threads and several controllers meet in
the database only, where row locks and advisory locks serialise them.
Children of a worker talk to it through one queue each, and to the
database directly; nothing ties what they write to the lease of their task.

What is hard, and what makes each component correct:

- *Control store.* Late and repeated reports, requeues of tasks that are still
  being executed, claims of several tasks at once, configuration edits and
  operators in the middle of everything. Correct: a key names one task for good,
  a task ends once by its last holder, a resource slot belongs to the present
  execution and is never given twice, a schedule has one task in flight and
  never gets stuck, a batch counts exactly its runs.
- *Worker.* A loop of blocking requests with children that end, hang or vanish,
  and signals in between. Correct: every child is supervised, a task is never
  executed twice at a time, a stop ends, no lease is for ever.
- *Delivery.* Several transactions per execution with failures between any two,
  conditional requests that trust the checkpoint. Correct: the checkpoint never
  runs ahead of the records, and every shown content is a kept version.
- *Signal.* Tokens that any waiter may take, a thread that listens and loses its
  connection, notifications that PostgreSQL folds into one, claims that hide rows from
  each other, tasks that become due unannounced. Correct: no worker sleeps beside a
  task that was announced, every task is served and every long poll answered all the same.
- *HTTP client and fetchers.* A retry loop with three kinds of waits inside a walk
  through pages that link where they like, inside executions that are retried
  themselves. Correct: requests keep their distance and respect Retry-After, also
  across executions; a walk ends, and a walk that met no limit is complete; a task is
  given up for a final error or after all the attempts the two retry loops have.
- *Enrollment.* A chain of database row, answer, state file and two
  authenticated requests, broken at any link. Correct: tokens are not overspent,
  replaced credentials stay dead, a process with the live one gets its node.

## 2. Modules

| Module | Contents |
| --- | --- |
| `ControlStore` | the task tables and every transaction on them, with the arithmetic of schedules |
| `ControlStoreProperties` | its type invariant and what the transactions promise together |
| `LeaseProtocol` | the abstract life of a task: handed out under a fresh token to one execution at a time, ended once |
| `ControlStoreRefinement` | the refinement mapping from `ControlStore` to `LeaseProtocol` |
| `Transactions` | registration, claim, report and requeue again, statement by statement under READ COMMITTED with their locks |
| `Worker` | one node's runtime, composed with `LeaseProtocol` in place of the whole store |
| `Signal` | wake tokens, the listener, the long poll of a claim and every transaction that notifies or does not |
| `Delivery` | executor, sink, checkpoint, asset store and the conditional request for one source |
| `HttpClient` | one `get` at a time: its checks, attempts, waits and errors |
| `Fetchers` | the loops of the built-in fetchers over `HttpClient`, and the retries of `fail_task` over both |
| `Enrollment` | tokens, credentials, instances, state files |
| `MCControlStore`, `MCTransactions`, `MCWorker`, `MCSignal`, `MCDelivery`, `MCFetchers`, `MCEnrollment` | constants of the small instances |
| `ControlStoreProofs`, `SchedulingProofs` | theorems about `ControlStore`: keys, fencing and the refinement; schedules, resources and batches |
| `TransactionsProofs`, `WorkerProofs`, `SignalProofs`, `DeliveryProofs`, `FetchersProofs`, `EnrollmentProofs` | theorems about the module they are named after |

`LeaseProtocol` is the seam: `StoreImplementsLeases` proves that the
store implements it with each transaction one step, `Transactions` that
it still does when the statements of the transactions interleave, and `Worker` EXTENDS it and, by construction, moves tasks
only by its actions, so what holds of `Worker` rests on what the store really does.
`ControlStore` sees the workers only as `grants`, the envelopes claims have
handed out, and lets anyone who received one use it at any later time, once,
often or never: any worker at all is one of its behaviours. `Fetchers` EXTENDS `HttpClient` and
makes its steps between those of the fetcher; the row of its task is the part of
the store that `claim_tasks` and `fail_task` decide by. `Signal` has of the store
what is visible to a claim: which tasks are due and which rows are locked.

### How definitions correspond to the code

`map` in `PROJECT.json` gives the lines of each definition. In general: a variable of
`ControlStore` is the table of the same name, an action is the method of the
same name in CamelCase, and one action is one transaction. An early return of a
method that changes nothing is a guard. In `Worker` an action is the code
between two points at which another process can interfere: one visit of
`poll_children`, the sending of a request, the controller's answer, the
receipt. In `Delivery` and `Enrollment` an action is one transaction, one
request or one write to a file.

Abstractions of `ControlStore`:

- `now` is the database clock. The controller's `datetime.now` differs from it
  by the constant `ClockSkew`.
- `uuid4()` draws a token that no other claim has; the model names it by the
  ordinal of the claim (`attempts + 1`). `instance_id` is a counter per node.
- A candidate that fails a test in the claim loop, one that `SKIP LOCKED` hides
  and one beyond the `LIMIT` of 200 leave no trace, so a claim takes any set of
  eligible tasks that pass in the order of the query. The limit of 500 due
  schedules is beyond the bounds.
- Reading the spec of a source and inserting its task (`register_manual`,
  `create_backfill`) are one action. The snapshot is what counts afterwards.
- A report with status `skipped` takes the path of `succeeded` and is not a
  value of its own.
- `effective_state`, `last_*`, metadata, reports and texts decide nothing and
  are left out. Routing (queue, capabilities, tags, egress, region) is one constant: the
  requirements each node `Serves`.
- The authentication of a worker is an earlier transaction (see `Enrollment`);
  claims and heartbeats read the worker's row in their own one, as the code does.
- `RegistrarGap` bounds the time between two maintenance passes. It is the
  registrar's period and its failures in one number: `MaxTime` says nothing.
- Sources start empty; nodes start enrolled.

Abstractions of `Transactions`. An action is one statement, or a commit with the
last statements before it that can wait for nobody; what a transaction has written
shows from its commit on, what it has locked at once. `SELECT ... FOR UPDATE`
waits for the row and then looks at it again, `SKIP LOCKED` passes it by, the
`INSERT` waits for an uncommitted row with its key, and a rollback may come
between any two statements. Further:

- Each transaction works on one task and one key. A claim or a maintenance pass
  skips what is locked, so several rows add nothing it could wait for. A
  registration of several due schedules takes several keys, each of a schedule
  whose row it has locked; an archival that holds such a key and waits for such a
  row would need a due run whose task exists, which `ArmedRunsAreNew` rules out.
- An id is given at the commit, not by the sequence at the insertion.
- A final failure takes the path of a completion, as in `_archive`.
- Schedules, batches, leases of resources, the `DELETE` of a cancelled batch and
  the statements of `reconcile_sources` are left to `ControlStore`. Two claims for
  the same free slot can collide there, and the later one is rolled back whole: here
  that is an `Abort`.

Abstractions of `Worker`: the three tasks are registered from the start; metadata, the
length of waits and the queue of a child are left out; a claim whose request was
given up may be answered later (`LeaseElsewhere`) and so may a report
(`ReportElsewhere`). `HeartbeatsArrive` says that no heartbeat is missing for
`task_stale_seconds`, so that maintenance never requeues what the node lists.

Abstractions of `Signal`: one controller process; a worker has one claim request at
a time, which it does not give up; the routing (queues, capabilities, resources) is
chosen once from `Routings`. A claim is two steps, because what matters is that it
locks every candidate and takes only some. Between them nothing that changes a
task can happen to a locked row, except that its batch is paused: the
claim goes on, as under READ COMMITTED. The two seconds before a reconnection are any time.
A pass of the registrar registers, maintains and only then calls `notify_local`; `pass` keeps
what it has registered, and it may break off in between (`PassFails`).

Abstractions of `Delivery`: one source; an item's content is all that
`_content_hash` covers; an item has at most one enclosure, whose URL never changes, so
that the file's name is the item's, and whose bytes stand for their checksum; they are
downloaded as the server has them at that time, which may be later than the
feed was read. Repeated ids within a fetch are left out; an
insert that meets the unique constraint is `Fail`. A version without an ETag is
always fetched. `MCDelivery` gives each version an ETag of its own:
if a feed goes back to an earlier ETag after an interrupted execution, the code
keeps the withdrawn records, see the hazard at `fetchers.py:120`.

Abstractions of `HttpClient`: time is relative (what is left of a sleep, the age of
the last request up to `Rate`), so no clock bounds a behaviour; the addresses
`validate_url` blocks are left out, their errors are not. A hop of a redirect is a step of its own
(`Redirect`) that moves the call to another host (`call.at`), which may then answer, break or ask for
patience; as in the code it changes nothing of `since`, the client's `_last_request`.
`heard`, `asked`, `unheeded` and `spent` are there for the properties: when a host was last asked for
a page by `_respect_rate`'s rule, what is left of a Retry-After it sent, which of these came with
robots.txt (the code reads no header there), and how many attempts the troubles of the task have used up.

Abstractions of `Fetchers`: a page is what the fetcher extracts of it, the links or
items and the pages to be listed next; a site does not change during a task; parsing is left
out, and so are its errors except that a page may be `Unreadable`. An execution that
fails forgets what the client knew. `web_page` and full-text RSS are the
same loop with one page. `asked` is cut to what survives: `max_seconds` after a failed
execution, nothing after a killed child.

Abstractions of `Enrollment`: an enrollment's instance id and its credential
always change together, so one ordinal names both; each process has its own
state file; the row lock lasts from `LockEnrollment` to the end of the request;
the descriptor and timestamps are left out; a heartbeat that is lost or refused
changes nothing.

## 3. Runs

One unit of the clock of `ControlStore` is the stale threshold. A lease lives
three of them (300 s against a threshold of 100 s); a requeued task is due at
once. With `TaskStaleSeconds = 1` a task goes stale two ticks after its
heartbeat, so `MaxTime = 3` lets a task be claimed, go stale, be requeued,
claimed again and reported on, with the first holder still talking and its
first lease running out. `MaxClaims = 2` is one claim more than a first holder needs to become
a late one; a third would repeat the second.

In `schedules` nothing can be claimed before the first tick and the question is whether a lease ends under
its execution, so its unit is half the life of a lease (150 s): `LeaseFloor = 2`, a heartbeat of the tick before is stale
(`TaskStaleSeconds = 0`), and `MaxTime = 3` is where the lease of a first claim expires. The registrar's gap of one
unit is the longest at which it requeues the task in time: with a gap of two the run violates `RunningTasksHoldTheirResources`.

| Run | Question | Bounds |
| --- | --- | --- |
| `fencing` | Do late, repeated and foreign reports and heartbeats ever harm the present execution? | two nodes, two manual tasks on one resource of capacity one, two instances per node, two claims per task |
| `batches` | Are the counters, the end and the slots of a batch right through pause, cancel, retry and requeue? | one batch of one or two windows, a resident or burst node with one backfill slot |
| `schedules` | Can editing the sources file under a task in flight make a schedule lose its task, stick or stop? Does a claim of several tasks take distinct slots, and does a lease outlive its execution when the registrar is prompt? | an interval, cron, disabled or dropped source beside a single run, up to three tasks, resources of capacity one and two, `RegistrarGap` 1 |
| `transactions` | Do the locks make the transactions atomic, and does none wait for ever? | one key, two tasks that may get it, two claims each, four connections |
| `worker` | Is every child supervised, and does everything end, whatever is lost or dies? | three tasks, one of which fills the node's two slots |
| `signal` | Does a worker sleep beside a task it could run, and is every task served and every poll answered when it does? | two tasks, two workers of one slot, two tokens, a wait of one tick, one trouble, two routings |
| `delivery` | Does the checkpoint ever claim more than was written, in rows, asset rows and files, and does the store catch up with the feed? | three versions of three items, one without ETag, enclosures that change under their URL, batches of two |
| `fetching` | Does every walk end, complete and within its limits, and are servers treated as they ask? | twelve sites of up to six URLs on two hosts, every kind of fetcher, two attempts in each of two executions, rate 2, Retry-After 1 or 4 against a cap of 3, five troubles, at most three pages and items |
| `enrollment` | Are tokens, credentials and instances safe under races and crashes, and does a node settle? | two processes with one node id, one token with a limit of 1 or 3, two requests per process in flight, one crash |
| `edited_schedule`, `forgotten_child`, `overlapping_executions` | the findings below | as the run of the same component |

`fencing` also checks `ImplementsLeaseProtocol`, the refinement. `fencing` has no operator and `batches` no second node: the dimensions the
properties of a run do not mention are left out of it, and together the runs
fire every action. Deadlock is not checked in the runs of the store, whose bounded
clock ends every behaviour, of the worker, whose process may exit for good, and of
the fetchers, whose task ends.

In `transactions` one key is enough because a lock concerns one key; with four
connections a registration, an archival, a second report and a claim or a requeue
of the same task are open together.

In `signal` two workers and two tasks are enough for a token to wake the wrong
worker, for two claims to meet and for two notifications to be folded; one trouble
is one pause, lost connection, restart, failure, broken pass or vain wake between them.
In `fetching` five troubles are enough for a `get` to use its two attempts in both of the task's
executions with one left to mix in, a redirect or a page that cannot be read. The twelve sites
have each shape the loops treat differently: repeated, self-linking, diverging and empty pages,
items on both hosts, and limits that fall on the last page, inside a page and beyond the site.

Symmetry is used over nodes and manual keys, in runs without liveness
properties only.

### Fairness

- `ControlStore` has none: its properties are safety properties.
- `Transactions`: `WF(Proceed(b))`, a connection sends its next statement, and
  `SF(LockKey(b) \/ FindTask(b))`, PostgreSQL grants a lock in the order of the
  requests. Weak fairness would not do: others may take the lock in between,
  and do so again and again. No transaction has to begin.
- `Worker`: `WF(Loop)`, because every request has a timeout and every wait of
  the loop is short; `WF(TimePasses)` for each child, because its time limit
  runs whatever the child does; `WF(Requeue(t))`, because the registrar passes
  again and again. Nothing is assumed of children, of requests, of operators or
  of other nodes.
- `Signal`: `WF(Proceed(w))`, a worker asks again and the handler of its request goes
  on; `WF(Tick)`; `WF(End(t))`, an execution ends, if only by its time limit or
  by maintenance. Nothing is assumed of notifications, tokens, the
  listener or the time at which a delayed task is looked at: a wait that expires is all that
  `TaskIsServed` needs.
- `Fetchers`: `WF(Step)`, since every request has a timeout and every other step is the
  program's own, and `WF(Tick)`. `Kill` and `Unreadable` are not fair.
- `Enrollment`: `WF(Run(p))` for each process. `docker-compose.yml` restarts a
  container unless it was stopped, and requests have timeouts. Nothing is
  assumed of enrollment requests.
- `Delivery` has none. `EventuallyUpToDate` has its assumption inside: *if*
  executions keep coming to their end, the store catches up.

### Findings

Each is a run whose property TLC refutes; `PROJECT.json` quotes the documents.

- `edited_schedule`: a single-run source that is edited to recur while its task
  is in flight is switched off by the end of that task, which computes the
  following run from its snapshot. Nothing arms it again until the file changes
  once more or the controller restarts.
- `forgotten_child`: after a gap in its heartbeats a node can claim the task it
  is still executing; `self.running[task.id]` is overwritten and the first child
  loses its time limit, its slot and its reader.
- `overlapping_executions`: two executions of a source that overlap may write
  in the wrong order, older contents under a newer ETag, and every later fetch
  is answered 304.

Seen while modelling, with no document that promises otherwise and so without a
property:

- *Store.* Maintenance requeues a stale task without regard to `max_attempts`. A claim frees
  a slot whose lease has expired without looking at the task that holds it: if no
  maintenance pass comes for longer than a lease lives, two tasks that are alive share
  the slot. A claim locks up to 200 candidates and takes a few: a second claim at the
  same time sees none and waits. A burst node that enrolls again as resident keeps the backfill it
  runs, which may be more than `resident_backfill_slots`; in the run `batches` a node keeps its mode.
- *Schedules.* A schedule is armed for an instant the controller's clock, less a
  look-back of one second, has not passed; the tasks are due by the database's. If the
  controller's clock is behind by more than that allows (a task ends within the skew, or
  the source is enabled again within the look-back), the instant is armed a
  second time, its key is used, and the schedule is stuck until it is disabled and
  enabled again. The run has `ClockSkew = 0` and `LookBack = 0`; `RunsToComeAreNew` has the condition.
- *Signal.* A resume notifies of one task, whatever waits in the batch; `fail_task` notifies when
  the delay starts and not when it ends; maintenance does not notify; a pass of the registrar that
  breaks off in maintenance has registered tasks and tells the process of none. In each case a
  worker may sleep to the end of its wait, at most 25 seconds.
- *Worker.* A state file torn by a crash stops every later start of its worker. A worker whose
  credential was revoked is refused its heartbeats, never hears the state `disabled`, and
  goes on asking. A failure with a message beyond 16,000 characters is refused by the API
  (`api.py:103`; the cut in `fail_task` comes later), is dropped by the worker, and its task is
  requeued as stale and executed again.
- *HTTP.* A Retry-After longer than what is left of the execution's time limit dies with the
  child; one longer than `max_seconds` is shortened to it; one sent in answer to robots.txt is not read.
  Requests for robots.txt, the hops of redirects and the requests of successive executions are neither paced nor
  remembered: `rate_limit_seconds` holds between the URLs `get` is called with. JSON or XML that
  cannot be parsed has no error class and is fetched again, though it may stay as it is. A page of a list that links back uses up
  `max_pages`. One detail page that fails ends the execution, and the records in the buffer are lost.

## 4. Proofs

The theorems hold for every value of the constants that satisfies the named
assumptions of the modules (`BoundsAssumption`, `ScheduleAssumption`,
`SpecsAssumption`, `ConfigsAssumption`, `NullAssumption`,
`TransactionsAssumption`, `WorkerAssumption`, `SignalAssumption`,
`DeliveryAssumption`, `HttpAssumption`, `WebsAssumption`, `FetchersAssumption`,
`EnrollmentAssumption`), which say what the contracts
validate and that the markers are no data; `WebsAssumption` that a list is the only kind of
source configured with several URLs, and a sitemap the only page that names several next ones.
Where a theorem needs more, its
statement says so, and the condition has a name.
TLC evaluates the assumptions in every run.

Sums are counted in the model as cardinalities of sets of slots (`SlotsOf` of `ControlStore`,
`Slots` of `Worker`), and the links of a page that are new as the subsequence of the
indices that qualify (`Unseen` of `Fetchers`): the provers reason about sets and cannot unfold a fold.

`ControlStoreProofs`

- `TypeCorrect`: `TypeOK` is inductive. `ReconcileSources` is the hard
  step (the schedule type decides the range of the next run), and `Retire`,
  which writes four tables.
- `HistoryIsFenced` (`HistoryIsOfTheLastClaim`). The property alone is not
  inductive: a report must also be known to carry the newest token. `FencingInv` adds that a
  running task's token counts its claims (`TokensAreClaims`), that no envelope
  is newer than the claims of its task (`GrantsAreClaims`), and that a task in
  history has no row any more (`HistoryIsOver`), so that its claims are final.
- `LeasesAreOfTheRunning` (`LeasesBelongToRunningTasks`), inductive together
  with the types (`LeasesInv`): each action that ends or changes an execution
  drops the leases of its task in the same transaction.
- `KeysAreIdempotent` (`KeyNamesOneTask`). `KeysInv` adds that the keys of
  windows name batches that exist (`BatchKeysAreOld`): `create_backfill` does not look
  up its keys, and its new batch id makes them new.
- `TasksAreAccountedFor` (`NoTaskVanishes`), an action property, from `KeysInv`:
  a row that goes is recorded, because its key is not in the history yet and
  the `ON CONFLICT DO NOTHING` of `_archive` has nothing to ignore.
- `StoreImplementsLeases` (`ImplementsLeaseProtocol`), the refinement, transaction by transaction. The
  mapping reads the claims of a task from the envelopes handed out for it, so `CountedInv` adds that
  these are finitely many, as many as the attempts of its row (`GrantsAreCounted`): then a claim of several
  tasks adds one to each, and one that ends a task by its last token is the protocol's `End`.

`SchedulingProofs`, all properties of the run `schedules`, and those of `batches` about batches and backfill

- `SlotsAreDistinct` (`LeaseSlotsAreDistinct`). `SlotsInv` adds that a slot lies within the
  capacity its task declares (`SlotsFit`). The hard step is a claim of several tasks: its order is total, so of
  two tasks that take slots of one resource, one saw the other's.
- `ResourcesStayHeld` (`RunningTasksHoldTheirResources`) under `LeasesOutliveStaleness`,
  that the stale threshold and the gap between two maintenance passes are together shorter than a lease.
  `ResourcesInv` adds that a lease expires one lease life after the last heartbeat of its
  task (`LeasesFollowHeartbeats`) and that the last maintenance left no stale task and
  is not long ago (`MaintenanceIsRecent`).
- `CapacityIsRespected` (`CapacityRespected`) under the same condition: running tasks hold their
  slots, slots are distinct and fit, so the users of a resource inject into the slots of
  its largest declared capacity.
- `ScheduleKnowsItsTask` (`ScheduleOwnsItsTask`), `RunsToComeAreNew` (`ArmedRunsAreNew`, under
  `EndsOutlastTheLookBack`: by the controller's clock no scheduled task ends within the look-back of its due instant; the
  look-back is one second, in which a task would have to be registered, claimed and executed) and
  `RecurringSourcesRecur` (`RecurringSourcesStayScheduled`, under `KindsAreFixed`: no edit turns a
  single run into a recurring schedule or back; the run `edited_schedule` shows that this is needed).
  `StepsHaveShapes` first reduces every step to five shapes in which it can touch
  a schedule, so that each invariant needs five cases. `ArmedInv` says that a run in the
  history is past what a look back can see (`OverRunsArePast`) and earlier than the one its schedule waits
  for (`NextRunsAreLater`), and that the key of a live task is of the schedule it occupies (`KeysNameTheirSchedule`),
  which then waits for none; `RecurInv` that sources and snapshots
  have schedules of the kind the file has (`SpecsAreConfigured`).
- `BatchesCountTheirRuns` (`BatchCountsItsRuns`) and `BatchesEndWithTheirLastTask`
  (`BatchEndsWithItsLastTask`) from one invariant, `BatchInv`. The properties say nothing of the tasks a cancelled batch still
  runs, but the end of such a task counts as well: `BatchesFitTheirTotal` covers them. `BatchesExist`
  says that tasks and runs are of batches that were created, so that a new one starts with none.
- `BackfillLeavesWorkersRoom` (`BackfillLeavesRoom`) under `ModesAreKept`, that no node enrolls again in
  another mode. Without it the property would be false: a burst node may run more backfill than a
  resident one has room for, and keeps its tasks when it comes back as resident. The hard step is a claim of
  several tasks by a node that runs some: what it takes last saw all the others in the budget.

`WorkerProofs`

- `TypeCorrect`.
- Under `HeartbeatsArrive`, which is a constant of the module,
  `NoChildIsForgotten` (`ChildrenAreSupervised`) and `ExecutionsAreExclusive`
  (`ExecutionsHoldTheirLeases`). The runs' own invariants are not inductive: `HoldInv` follows each
  lease from the answer in the inbox (`AnswersHold`) to the entry in `self.running`
  (`EntriesHold`) and its child (`Supervised`). The run `forgotten_child` shows that
  `HeartbeatsArrive` is needed.
- `SlotsAreNotOverdrawn` (`ConcurrencyRespected`), under the same condition. `RoomInv` counts the slots of the entries together
  with those of an answer on its way, which was asked for by what was free; as every child is
  supervised, the slots of the children inject into them.

`SignalProofs`

- `TypeCorrect`, with the slots of workers and the locks of rows, and `NoWakeIsLost` (`NoLostWakeup`),
  as long as nothing is `missed`.
  `EachHasItsWake` is the induction: nobody waits, or each that waits has its token, or
  each task on offer has its wake, where a claim that locked a row of a batch that was
  paused since does not count (`Keen`), for it may take that row and leave another. A worker that asks has a
  free slot (`AskersHaveRoom`), so that a claim that sees a task takes one. At a pause the
  claims that stop counting inject into the tasks that are no longer on offer. Between its
  registration and its end a pass owes its wakes (`Owed`), unless its notification stands for its only task.

`TransactionsProofs`

- `TypeCorrect`, `KeysAreRegisteredOnce` (`KeyIsRegisteredOnce`) and
  `Implements` (`ImplementsLeaseProtocol`), the refinement, step by step.
- `IInv` says what each open transaction relies on (`TransactionInv`: after the check its
  key stays neither live nor recorded, a row it holds keeps status and token)
  and what is committed (`DatabaseInv`: every registered key is live or
  recorded, history is of tasks that have no row). `StaysTrue` is the argument in one lemma: a step
  that respects the locks of others (`Undisturbed`) leaves what they rely on.

`DeliveryProofs`

- `TypeCorrect`, `Traceable` (`VersionsAreTraceable`, also for overlapping
  executions), and `Honesty` (`NotModifiedIsHonest`), under the assumptions that
  executions exclude each other and that validators are distinct; the run
  `overlapping_executions` shows that the first one is needed. The invariant
  `HonestInv` follows the one active execution through its batches: what it no longer
  has before it is in the buffer or recorded (`Recorded`), and its enclosures are in
  their files with their checksums (`Kept`) unless the server has moved on since.

`FetchersProofs`, all properties of `Fetchers` but its liveness

- `TypeCorrect`. The types have to say which loop a `get` belongs to (`CallOfTheLoop`): its
  answer is a page to list or an item, as the loop stood when it was sent.
- `RequestsToAHostAreSpaced` (`RequestsAreSpaced`). `SpacingInv` ties the client's memory to the server's: it never
  believes its last request older than it is, and a pause it sleeps ends no earlier than the rate allows.
- `RetryAfterIsSleptOut` (`RetryAfterIsHonoured`). `WaitInv` says where a Retry-After is at any time (`Waits`): in
  the backoff of the call, in the error it raised, or in the delay of the waiting task; or it is over or
  came with robots.txt (`Quiet`). It covers the hops of redirects as well as the requests of `get`.
- `NoTaskIsLostToFewTroubles` (`TroublesAreSurvived`). `SurvivalInv` counts: every execution that failed has
  used up all attempts of a `get` (`Lost`), and the call under way as many as it has made.
- `NoSiteExceedsTheLimits` (`LimitsHold`). `LimitInv` adds that the loop's own counter is what was emitted and what is still on
  the list of the page, over all pages: `WithinRest` counts with it.
- `FetchesAreComplete` (`FetchIsComplete`). Nothing in the state says which pages were read. `Walk` says that
  there is a set `D` of pages that *covers* (`Covers`): the first pages, and all that follows a page of `D`, are in `D` or
  still to be read, and the items of `D` were taken unless the limit was met. When nothing is left to be read `D` is
  closed, so it has every page that can be reached. A page that a sitemap has visited, and a page
  that a list leaves at an empty or repeated one, are the steps that need an argument; `EachOnce` keeps a
  list's items apart.

`EnrollmentProofs`

- `TypeCorrect`, `UsesAreBounded` (`UsesBounded`) and `RevocationsAreFinal`
  (`RevocationIsFinal`). `IInv` adds that at most one transaction holds a token,
  which has a use left as long as it does (`LocksHold`), and that every identity in a
  row was issued (`IdentitiesAreKnown`), so that a new one is new.

A type invariant that is proved is not checked by a run of its own, except
where the type says more than a type (`Worker`, `Signal`, `Fetchers`).

Every invariant and every action property of the passing runs is stated by a theorem. Model-checked
only is what is out of the prover's reach: liveness (`EveryTransactionEnds`,
`StopsWhenAsked`, `NoLeaseIsForever`, `TaskIsServed`, `PollsAreAnswered`, `EventuallyUpToDate`,
`TaskSettles`, `NodeSettles`), which needs ENABLED of the fair actions. No module here declares a RECURSIVE
operator.

## 5. Not modelled

- Parsing of feeds, pages and documents, and the fields of records: pure conversions, on which
  no decision of the system rests except the content hash.
- The addresses `validate_url` blocks, and the object store for assets (the same
  operation on an object).
- Settings, database pool, metrics, command line, plugin discovery and deployment:
  configuration, pure input and output, or reports that only read.
- The descriptor of a worker beyond its slots, mode and state, the `last_*` columns and the read-only
  endpoints.

## 6. Plan

Done, in the order of importance: `ControlStore` with its properties and its proofs of
fencing, scheduling, batches and the refinement; `Worker` over `LeaseProtocol`, `Delivery`, `Enrollment`, `Transactions`,
`Signal` and `Fetchers` over `HttpClient`, each with its proofs.

Left:

1. Theorems that use the proofs of two modules at once: what `ExecutionsAreExclusive` says of a worker, for
   several nodes over the leases of the store.
2. Shorter proofs where several modules repeat a lemma (sums over sets, sequences as sets), in a module of
   their own.
