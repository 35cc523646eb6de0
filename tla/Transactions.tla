---------------------------- MODULE Transactions ----------------------------
(***************************************************************************)
(* The transactions of ControlStore that register, claim, end and requeue  *)
(* a task, statement by statement, as PostgreSQL interleaves them at READ  *)
(* COMMITTED: a statement sees what is committed when it runs, and waits   *)
(* for the locks of the others or skips what they hold.                    *)
(*                                                                         *)
(* ControlStore takes these transactions for atomic; this module checks    *)
(* that their locks make them so: committed states move as LeaseProtocol   *)
(* allows.  What a statement writes is visible from the commit on, which   *)
(* is one step with the last statement that needs no lock.                 *)
(***************************************************************************)
EXTENDS Integers

CONSTANTS
    Keys,           \* idempotency keys
    Backends,       \* database connections, one transaction at a time each
    MaxTasks, MaxClaims,    \* bounds
    NULL

VARIABLES
    tasks, task_runs,   \* committed rows, by id and by dedupe_key
    registered,         \* the key each id was committed with
    task_seq,           \* ids committed so far
    claims,             \* how often each task was claimed: tokens handed out
    row_lock,           \* FOR UPDATE locks on rows of tasks
    key_lock,           \* pg_advisory_xact_lock of each key
    new_row,            \* who has inserted a row with this key, uncommitted
    txn                 \* the transaction of each backend, or NULL

database == <<tasks, task_runs, registered, task_seq, claims>>
locks == <<row_lock, key_lock, new_row>>
vars == <<database, locks, txn>>

TaskIds == 1..MaxTasks
Optional(S) == S \cup {NULL}

Row == [key: Keys, status: {"waiting", "running"}, token: Nat]
Run == [task: TaskIds, token: Nat]
\* What a transaction does, the statement it is at, and what it is about.
Transaction ==
    [op: {"register", "claim", "complete", "retry", "requeue"},
     at: {"lock", "check", "insert", "find", "commit"},
     key: Optional(Keys), task: Optional(TaskIds), token: Nat]

ASSUME TransactionsAssumption ==
    /\ MaxTasks \in Nat /\ MaxClaims \in Nat
    /\ NULL \notin Keys /\ NULL \notin Backends /\ NULL \notin TaskIds
    /\ NULL \notin Row \cup Run \cup Transaction

-----------------------------------------------------------------------------
(* Transactions and their locks *)

Begin(b, op, at, key, task, token) ==
    /\ txn[b] = NULL
    /\ txn' = [txn EXCEPT ![b] =
           [op |-> op, at |-> at, key |-> key, task |-> task, token |-> token]]

Goto(b, at) ==
    txn' = [txn EXCEPT ![b] =
        [op |-> txn[b].op, at |-> at, key |-> txn[b].key,
         task |-> txn[b].task, token |-> txn[b].token]]

IsAt(b, ops, at) == txn[b] # NULL /\ txn[b].op \in ops /\ txn[b].at = at

\* Mutant: pg_advisory_lock, which its session keeps.
KeysKeptBy(b) == key_lock

\* pg_advisory_xact_lock is given up at the end of the transaction.
KeysWithout(b) == [k \in Keys |-> IF key_lock[k] = b THEN NULL ELSE key_lock[k]]

\* COMMIT or ROLLBACK: every lock goes.
Finish(b) ==
    /\ txn' = [txn EXCEPT ![b] = NULL]
    /\ key_lock' = KeysWithout(b)
    /\ row_lock' = [t \in TaskIds |-> IF row_lock[t] = b THEN NULL ELSE row_lock[t]]
    /\ new_row' = [k \in Keys |-> IF new_row[k] = b THEN NULL ELSE new_row[k]]

\* A connection is lost, or a statement fails.
Abort(b) ==
    /\ txn[b] # NULL
    /\ Finish(b)
    /\ UNCHANGED database

\* Mutant: the lock is not taken.
KeyIsFree(k) == TRUE

Lockable(k) == key_lock[k] = NULL

\* Registration and archival lock the key; the lock is waited for.
LockKey(b) ==
    /\ IsAt(b, {"register", "complete"}, "lock")
    /\ Lockable(txn[b].key)
    /\ key_lock' = [key_lock EXCEPT ![txn[b].key] = b]
    /\ Goto(b, IF txn[b].op = "register" THEN "check" ELSE "commit")
    /\ UNCHANGED <<database, row_lock, new_row>>

-----------------------------------------------------------------------------
(* Registration *)

\* _insert_task for a key that a schedule or an operator gives it.
BeginRegistration(b, k) ==
    /\ Begin(b, "register", "lock", k, NULL, 0)
    /\ UNCHANGED <<database, locks>>

KeyIsLive(k) == \E t \in TaskIds : tasks[t] # NULL /\ tasks[t].key = k

\* SELECT 1 FROM tasks ... UNION ALL SELECT 1 FROM task_runs ...
CheckKey(b) ==
    /\ IsAt(b, {"register"}, "check")
    /\ IF KeyIsLive(txn[b].key) \/ task_runs[txn[b].key] # NULL
       THEN Finish(b) ELSE Goto(b, "insert") /\ UNCHANGED locks
    /\ UNCHANGED database

\* INSERT ... ON CONFLICT DO NOTHING waits for an uncommitted row of the key.
InsertTask(b) ==
    /\ IsAt(b, {"register"}, "insert")
    /\ new_row[txn[b].key] = NULL
    /\ IF KeyIsLive(txn[b].key) THEN Finish(b)
       ELSE /\ new_row' = [new_row EXCEPT ![txn[b].key] = b]
            /\ Goto(b, "commit")
            /\ UNCHANGED <<row_lock, key_lock>>
    /\ UNCHANGED database

CommitTask(b) ==
    LET t == task_seq + 1 IN
    /\ IsAt(b, {"register"}, "commit")
    /\ task_seq < MaxTasks
    /\ task_seq' = t
    /\ tasks' = [tasks EXCEPT ![t] =
           [key |-> txn[b].key, status |-> "waiting", token |-> 0]]
    /\ registered' = [registered EXCEPT ![t] = txn[b].key]
    /\ Finish(b)
    /\ UNCHANGED <<task_runs, claims>>

-----------------------------------------------------------------------------
(* Claims and maintenance *)

\* Mutant: a candidate that another transaction holds is taken as well.
AnyCandidate(t) == tasks[t] # NULL /\ tasks[t].status = "waiting"

\* SELECT ... FOR UPDATE SKIP LOCKED
Candidate(t) ==
    tasks[t] # NULL /\ tasks[t].status = "waiting" /\ row_lock[t] = NULL

LockRow(b, t) == row_lock' = [row_lock EXCEPT ![t] = b]

\* A claim locks its candidates and has passed its tests for task t.
LockCandidate(b, t) ==
    /\ Candidate(t) /\ claims[t] < MaxClaims
    /\ LockRow(b, t)
    /\ Begin(b, "claim", "commit", NULL, t, 0)
    /\ UNCHANGED <<database, key_lock, new_row>>

CommitClaim(b) ==
    LET t == txn[b].task IN
    /\ IsAt(b, {"claim"}, "commit")
    /\ claims' = [claims EXCEPT ![t] = claims[t] + 1]
    /\ tasks' = [tasks EXCEPT ![t] =
           [key |-> tasks[t].key, status |-> "running", token |-> claims[t] + 1]]
    /\ Finish(b)
    /\ UNCHANGED <<task_runs, registered, task_seq>>

\* maintenance finds a stale task that nobody holds.
LockStale(b, t) ==
    /\ tasks[t] # NULL /\ tasks[t].status = "running" /\ row_lock[t] = NULL
    /\ LockRow(b, t)
    /\ Begin(b, "requeue", "commit", NULL, t, 0)
    /\ UNCHANGED <<database, key_lock, new_row>>

ReleasedRow(t) == [key |-> tasks[t].key, status |-> "waiting", token |-> 0]

\* A stale task, or one that failed and may be tried again, goes back.
CommitRelease(b) ==
    /\ IsAt(b, {"requeue", "retry"}, "commit")
    /\ tasks' = [tasks EXCEPT ![txn[b].task] = ReleasedRow(txn[b].task)]
    /\ Finish(b)
    /\ UNCHANGED <<task_runs, registered, task_seq, claims>>

-----------------------------------------------------------------------------
(* Reports *)

\* Any claim that was ever handed out may be reported on, more than once.
BeginReport(b, op, t, token) ==
    /\ token \in 1..claims[t]
    /\ Begin(b, op, "find", NULL, t, token)
    /\ UNCHANGED <<database, locks>>

\* SELECT ... FOR UPDATE waits for the row, then compares the lease.
FindTask(b) ==
    LET t == txn[b].task IN
    /\ IsAt(b, {"complete", "retry"}, "find")
    /\ row_lock[t] = NULL
    /\ IF tasks[t] # NULL /\ tasks[t].status = "running"
           /\ tasks[t].token = txn[b].token
       THEN /\ LockRow(b, t)
            /\ txn' = [txn EXCEPT ![b] =
                   [op |-> txn[b].op, key |-> tasks[t].key, task |-> t,
                    at |-> IF txn[b].op = "complete" THEN "lock" ELSE "commit",
                    token |-> txn[b].token]]
            /\ UNCHANGED <<key_lock, new_row>>
       ELSE Finish(b)
    /\ UNCHANGED database

\* INSERT INTO task_runs ... ON CONFLICT DO NOTHING, then DELETE FROM tasks
CommitArchive(b) ==
    LET t == txn[b].task
        k == txn[b].key
    IN
    /\ IsAt(b, {"complete"}, "commit")
    /\ task_runs' = [task_runs EXCEPT ![k] =
           IF task_runs[k] # NULL THEN task_runs[k]
           ELSE [task |-> t, token |-> txn[b].token]]
    /\ tasks' = [tasks EXCEPT ![t] = NULL]
    /\ Finish(b)
    /\ UNCHANGED <<registered, task_seq, claims>>

-----------------------------------------------------------------------------
Init ==
    /\ tasks = [t \in TaskIds |-> NULL]
    /\ task_runs = [k \in Keys |-> NULL]
    /\ registered = [t \in TaskIds |-> NULL]
    /\ task_seq = 0
    /\ claims = [t \in TaskIds |-> 0]
    /\ row_lock = [t \in TaskIds |-> NULL]
    /\ key_lock = [k \in Keys |-> NULL]
    /\ new_row = [k \in Keys |-> NULL]
    /\ txn = [b \in Backends |-> NULL]

\* The statements that never wait for another transaction that waits.
Proceed(b) ==
    \/ CheckKey(b) \/ InsertTask(b) \/ CommitTask(b) \/ CommitClaim(b)
    \/ CommitRelease(b) \/ CommitArchive(b)

Next ==
    \E b \in Backends :
        \/ Proceed(b) \/ LockKey(b) \/ FindTask(b) \/ Abort(b)
        \/ \E k \in Keys : BeginRegistration(b, k)
        \/ \E t \in TaskIds :
               \/ LockCandidate(b, t) \/ LockStale(b, t)
               \/ \E op \in {"complete", "retry"}, token \in 1..MaxClaims :
                      BeginReport(b, op, t, token)

\* Statements run to their end, and PostgreSQL grants locks in the order of
\* the requests, so that nobody who waits is passed over for ever.
Fairness ==
    \A b \in Backends : WF_vars(Proceed(b)) /\ SF_vars(LockKey(b) \/ FindTask(b))

Spec == Init /\ [][Next]_vars /\ Fairness

-----------------------------------------------------------------------------
(* What the locks are for *)

\* Every variable keeps its type; only a transaction that runs holds locks.
TypeOK ==
    /\ tasks \in [TaskIds -> Optional(Row)]
    /\ task_runs \in [Keys -> Optional(Run)]
    /\ registered \in [TaskIds -> Optional(Keys)]
    /\ task_seq \in 0..MaxTasks
    /\ claims \in [TaskIds -> Nat]
    /\ row_lock \in [TaskIds -> Optional(Backends)]
    /\ key_lock \in [Keys -> Optional(Backends)]
    /\ new_row \in [Keys -> Optional(Backends)]
    /\ txn \in [Backends -> Optional(Transaction)]

\* No key is registered a second time, not even by a registration that looked
\* before the first task was committed and inserts after it was archived (the
\* comment at the head of _insert_task).
KeyIsRegisteredOnce ==
    \A t, u \in 1..task_seq : registered[t] = registered[u] => t = u

RunOf(t) == IF registered[t] = NULL THEN NULL ELSE task_runs[registered[t]]
IsRecorded(t) == RunOf(t) # NULL /\ RunOf(t).task = t

PhaseOf(t) ==
    IF tasks[t] # NULL
    THEN IF tasks[t].status = "running" THEN "leased" ELSE "waiting"
    ELSE IF t > task_seq THEN "unknown"
    ELSE IF IsRecorded(t) THEN "ended" ELSE "withdrawn"

Leasing == INSTANCE LeaseProtocol WITH
    phase    <- [t \in TaskIds |-> PhaseOf(t)],
    ended_by <- [t \in TaskIds |-> IF IsRecorded(t) THEN RunOf(t).token ELSE 0]

\* What is committed moves as if the transactions were atomic: a task is handed
\* to one execution at a time and ended once, by the report of the last one,
\* and no report is lost to the ON CONFLICT of _archive.
ImplementsLeaseProtocol == Leasing!Protocol

\* No transaction waits for ever: neither for one that waits for it, nor for
\* a lock that outlives its owner.
EveryTransactionEnds == \A b \in Backends : txn[b] # NULL ~> txn[b] = NULL
=============================================================================
