------------------------- MODULE TransactionsProofs -------------------------
(***************************************************************************)
(* The locks of the store's transactions make them atomic, for any number  *)
(* of keys, tasks and connections.                                         *)
(***************************************************************************)
EXTENDS Transactions, TLAPS

(* What each transaction relies on while it runs: the locks it has taken    *)
(* and what they keep true.                                                *)

Fresh(k) == ~KeyIsLive(k) /\ task_runs[k] = NULL

HoldsRow(b) ==
    /\ txn[b].task \in TaskIds
    /\ row_lock[txn[b].task] = b
    /\ tasks[txn[b].task] # NULL

HoldsRunning(b) == HoldsRow(b) /\ tasks[txn[b].task].status = "running"

Registers(b) ==
    /\ txn[b].key \in Keys
    /\ txn[b].at \in {"lock", "check", "insert", "commit"}
    /\ txn[b].at # "lock" => key_lock[txn[b].key] = b
    /\ txn[b].at \in {"insert", "commit"} => Fresh(txn[b].key)

ClaimsWaiting(b) ==
    /\ txn[b].at = "commit"
    /\ HoldsRow(b) /\ tasks[txn[b].task].status = "waiting"

Reports(b) ==
    /\ txn[b].task \in TaskIds
    /\ txn[b].at # "find" =>
           HoldsRunning(b) /\ tasks[txn[b].task].token = txn[b].token

Archives(b) ==
    /\ txn[b].at \in {"find", "lock", "commit"}
    /\ txn[b].at # "find" => txn[b].key = tasks[txn[b].task].key
    /\ txn[b].at = "commit" => key_lock[txn[b].key] = b

TransactionInv(b) ==
    txn[b] # NULL =>
        /\ txn[b].op = "register" => Registers(b)
        /\ txn[b].op = "claim" => ClaimsWaiting(b)
        /\ txn[b].op = "requeue" => txn[b].at = "commit" /\ HoldsRunning(b)
        /\ txn[b].op = "retry" => txn[b].at \in {"find", "commit"} /\ Reports(b)
        /\ txn[b].op = "complete" => Reports(b) /\ Archives(b)

(* What is committed. *)

IdsAreGiven == \A t \in TaskIds : registered[t] # NULL <=> t <= task_seq

RowsAreRegistered ==
    \A t \in TaskIds : tasks[t] # NULL =>
        /\ t <= task_seq
        /\ tasks[t].key = registered[t]
        /\ tasks[t].status = "running" => tasks[t].token = claims[t]

KeysAreLiveOrRecorded ==
    \A t \in 1..task_seq : tasks[t] # NULL \/ task_runs[registered[t]] # NULL

RunsAreOfTheArchived ==
    \A k \in Keys : task_runs[k] # NULL =>
        /\ task_runs[k].task <= task_seq
        /\ registered[task_runs[k].task] = k
        /\ tasks[task_runs[k].task] = NULL

DatabaseInv ==
    /\ IdsAreGiven /\ RowsAreRegistered /\ KeysAreLiveOrRecorded
    /\ RunsAreOfTheArchived /\ KeyIsRegisteredOnce

IInv == TypeOK /\ DatabaseInv /\ \A b \in Backends : TransactionInv(b)

-----------------------------------------------------------------------------
(* Steps that leave another transaction alone *)

\* A step of somebody else takes nothing from c that c relies on.
Undisturbed(c) ==
    /\ txn'[c] = txn[c]
    /\ \A t \in TaskIds : row_lock[t] = c /\ tasks[t] # NULL =>
           row_lock'[t] = c /\ tasks'[t] = tasks[t]
    /\ \A k \in Keys : key_lock[k] = c =>
           key_lock'[k] = c /\ (Fresh(k) => Fresh(k)')

LEMMA StaysTrue ==
    ASSUME TypeOK, NEW c \in Backends, TransactionInv(c), Undisturbed(c)
    PROVE  TransactionInv(c)'
<1> SUFFICES ASSUME txn[c] # NULL PROVE TransactionInv(c)'
  BY DEF TransactionInv, Undisturbed
<1> DEFINE t == txn[c].task
           k == txn[c].key
<1>1. txn'[c] = txn[c]
  BY DEF Undisturbed
<1>2. HoldsRow(c) => HoldsRow(c)' /\ tasks'[t] = tasks[t]
  BY <1>1 DEF HoldsRow, Undisturbed
<1>3. HoldsRunning(c) => HoldsRunning(c)' /\ tasks'[t] = tasks[t]
  BY <1>1, <1>2 DEF HoldsRunning
<1>4. k \in Keys /\ key_lock[k] = c => key_lock'[k] = c /\ (Fresh(k) => Fresh(k)')
  BY DEF Undisturbed
<1>5. Registers(c) => Registers(c)'
  <2> SUFFICES ASSUME Registers(c) PROVE Registers(c)'
    OBVIOUS
  <2>1. k \in Keys
    BY DEF Registers
  <2>2. CASE txn[c].at = "lock"
    BY <1>1, <2>1, <2>2 DEF Registers
  <2>3. CASE txn[c].at # "lock"
    <3>1. key_lock[k] = c
      BY <2>3 DEF Registers
    <3>2. key_lock'[k] = c /\ (Fresh(k) => Fresh(k)')
      BY <1>4, <2>1, <3>1
    <3>3. k = txn'[c].key /\ (Fresh(k)' <=> Fresh(txn[c].key)')
      BY <1>1
    <3> QED
      BY <1>1, <2>1, <2>3, <3>2, <3>3 DEF Registers
  <2> QED
    BY <2>2, <2>3
<1>6. ClaimsWaiting(c) => ClaimsWaiting(c)'
  BY <1>1, <1>2 DEF ClaimsWaiting
<1>7. Reports(c) => Reports(c)'
  BY <1>1, <1>3 DEF Reports
<1>8. Reports(c) /\ Archives(c) => Archives(c)'
  <2> SUFFICES ASSUME Reports(c), Archives(c) PROVE Archives(c)'
    OBVIOUS
  <2>1. CASE txn[c].at = "find"
    BY <1>1, <2>1 DEF Archives
  <2>2. CASE txn[c].at # "find"
    <3>1. HoldsRunning(c) /\ k = tasks[t].key
      BY <2>2 DEF Reports, Archives
    <3>2. tasks'[t] = tasks[t] /\ tasks[t] \in Row
      BY <1>3, <3>1 DEF HoldsRunning, HoldsRow, TypeOK, Optional
    <3>3. k \in Keys
      BY <3>1, <3>2 DEF Row
    <3>4. txn[c].at = "commit" => key_lock'[k] = c
      BY <1>4, <3>3 DEF Archives
    <3> QED
      BY <1>1, <2>2, <3>1, <3>2, <3>4 DEF Archives
  <2> QED
    BY <2>1, <2>2
<1> QED
  BY <1>1, <1>3, <1>5, <1>6, <1>7, <1>8 DEF TransactionInv

\* The end of a transaction takes locks from nobody else.
LEMMA FinishStep ==
    ASSUME TypeOK, NEW b \in Backends, Finish(b)
    PROVE  /\ txn' \in [Backends -> Optional(Transaction)]
           /\ key_lock' \in [Keys -> Optional(Backends)]
           /\ row_lock' \in [TaskIds -> Optional(Backends)]
           /\ new_row' \in [Keys -> Optional(Backends)]
           /\ txn'[b] = NULL
           /\ \A c \in Backends \ {b} :
                  /\ txn'[c] = txn[c]
                  /\ \A t \in TaskIds : row_lock[t] = c => row_lock'[t] = c
                  /\ \A k \in Keys : key_lock[k] = c => key_lock'[k] = c
  BY DEF TypeOK, Finish, KeysWithout, Optional

\* A transaction that ends without a trace.
LEMMA RollbackStep ==
    ASSUME IInv, NEW b \in Backends, Finish(b), UNCHANGED database
    PROVE  IInv'
<1> USE DEF IInv
<1>1. TypeOK'
  BY FinishStep DEF TypeOK, database
<1>2. DatabaseInv'
  BY DEF DatabaseInv, IdsAreGiven, RowsAreRegistered, KeysAreLiveOrRecorded,
         RunsAreOfTheArchived, KeyIsRegisteredOnce, database
<1>3. TransactionInv(b)'
  BY FinishStep DEF TransactionInv
<1>4. \A c \in Backends \ {b} : Undisturbed(c)
  BY FinishStep DEF Undisturbed, Fresh, KeyIsLive, database
<1> QED
  BY <1>1, <1>2, <1>3, <1>4, StaysTrue

-----------------------------------------------------------------------------
(* Statements inside a transaction *)

\* A statement that commits nothing and leaves the others their locks.
LEMMA StatementStep ==
    ASSUME IInv, NEW b \in Backends, UNCHANGED database, TypeOK',
           TransactionInv(b)',
           \A c \in Backends \ {b} :
               /\ txn'[c] = txn[c]
               /\ \A t \in TaskIds : row_lock[t] = c => row_lock'[t] = c
               /\ \A k \in Keys : key_lock[k] = c => key_lock'[k] = c
    PROVE  IInv'
<1> USE DEF IInv
<1>1. DatabaseInv'
  BY DEF DatabaseInv, IdsAreGiven, RowsAreRegistered, KeysAreLiveOrRecorded,
         RunsAreOfTheArchived, KeyIsRegisteredOnce, database
<1>2. \A c \in Backends \ {b} : Undisturbed(c)
  BY DEF Undisturbed, Fresh, KeyIsLive, database
<1> QED
  BY <1>1, <1>2, StaysTrue

LEMMA BeginTypes ==
    ASSUME TypeOK, NEW b \in Backends, NEW op, NEW at, NEW key, NEW task, NEW token,
           [op |-> op, at |-> at, key |-> key, task |-> task, token |-> token]
               \in Transaction,
           Begin(b, op, at, key, task, token)
    PROVE  /\ txn' \in [Backends -> Optional(Transaction)]
           /\ txn'[b] = [op |-> op, at |-> at, key |-> key, task |-> task,
                         token |-> token]
           /\ txn'[b] # NULL
           /\ \A c \in Backends \ {b} : txn'[c] = txn[c]
  BY TransactionsAssumption DEF TypeOK, Begin, Optional

LEMMA GotoTypes ==
    ASSUME TypeOK, NEW b \in Backends, txn[b] # NULL,
           NEW at \in {"lock", "check", "insert", "find", "commit"}, Goto(b, at)
    PROVE  /\ txn[b] \in Transaction
           /\ txn' \in [Backends -> Optional(Transaction)]
           /\ txn'[b] = [op |-> txn[b].op, at |-> at, key |-> txn[b].key,
                         task |-> txn[b].task, token |-> txn[b].token]
           /\ \A c \in Backends \ {b} : txn'[c] = txn[c]
<1>1. txn[b] \in Transaction
  BY DEF TypeOK, Optional
<1> QED
  BY <1>1 DEF TypeOK, Goto, Optional, Transaction

LEMMA LockKeyStep ==
    ASSUME IInv, NEW b \in Backends, LockKey(b)
    PROVE  IInv'
<1> USE DEF IInv
<1> DEFINE k == txn[b].key
           at == IF txn[b].op = "register" THEN "check" ELSE "commit"
<1>1. txn[b] # NULL /\ txn[b].at = "lock" /\ txn[b].op \in {"register", "complete"}
  BY DEF LockKey, IsAt
<1>2. txn[b] \in Transaction
  BY <1>1 DEF TypeOK, Optional
<1>3. k \in Keys
  <2>1. CASE txn[b].op = "register"
    BY <1>1, <2>1 DEF TransactionInv, Registers
  <2>2. CASE txn[b].op = "complete"
    <3>1. HoldsRunning(b) /\ k = tasks[txn[b].task].key
      BY <1>1, <2>2 DEF TransactionInv, Reports, Archives
    <3> QED
      BY <3>1 DEF HoldsRunning, HoldsRow, TypeOK, Optional, Row
  <2> QED
    BY <1>1, <2>1, <2>2
<1>4. Goto(b, at) /\ at \in {"check", "commit"}
  BY <1>1 DEF LockKey
<1> HIDE DEF at
<1>5. /\ txn' \in [Backends -> Optional(Transaction)]
      /\ txn'[b] = [op |-> txn[b].op, at |-> at, key |-> txn[b].key,
                    task |-> txn[b].task, token |-> txn[b].token]
      /\ \A c \in Backends \ {b} : txn'[c] = txn[c]
  BY <1>1, <1>4, GotoTypes
<1>6. /\ key_lock[k] = NULL /\ key_lock' = [key_lock EXCEPT ![k] = b]
      /\ UNCHANGED <<database, row_lock, new_row>>
  BY <1>3 DEF LockKey, Lockable
<1>7. TypeOK'
  BY <1>3, <1>5, <1>6 DEF TypeOK, database, Optional
<1>8. TransactionInv(b)'
  <2>1. CASE txn[b].op = "register"
    <3>1. at = "check"
      BY <2>1 DEF at
    <3> QED
      BY <1>3, <1>5, <1>6, <2>1, <3>1 DEF TransactionInv, Registers, TypeOK
  <2>2. CASE txn[b].op = "complete"
    <3>1. at = "commit"
      BY <2>2 DEF at
    <3>2. Reports(b) /\ Archives(b)
      BY <1>1, <2>2 DEF TransactionInv
    <3>3. key_lock'[k] = b
      BY <1>3, <1>6 DEF TypeOK
    <3> QED
      BY <1>1, <1>5, <1>6, <2>2, <3>1, <3>2, <3>3
         DEF TransactionInv, Reports, Archives, HoldsRunning, HoldsRow, database
  <2> QED
    BY <1>1, <2>1, <2>2
<1>9. \A c \in Backends \ {b} :
          /\ txn'[c] = txn[c]
          /\ \A t \in TaskIds : row_lock[t] = c => row_lock'[t] = c
          /\ \A j \in Keys : key_lock[j] = c => key_lock'[j] = c
  BY <1>3, <1>5, <1>6, TransactionsAssumption DEF TypeOK
<1> QED
  BY <1>6, <1>7, <1>8, <1>9, StatementStep

LEMMA BeginRegistrationStep ==
    ASSUME IInv, NEW b \in Backends, NEW k \in Keys, BeginRegistration(b, k)
    PROVE  IInv'
<1> USE DEF IInv
<1>1. Begin(b, "register", "lock", k, NULL, 0) /\ UNCHANGED <<database, locks>>
  BY DEF BeginRegistration
<1>2. [op |-> "register", at |-> "lock", key |-> k, task |-> NULL, token |-> 0]
          \in Transaction
  BY DEF Transaction, Optional
<1>3. /\ txn' \in [Backends -> Optional(Transaction)]
      /\ txn'[b] = [op |-> "register", at |-> "lock", key |-> k, task |-> NULL,
                    token |-> 0]
      /\ \A c \in Backends \ {b} : txn'[c] = txn[c]
  BY <1>1, <1>2, BeginTypes
<1>4. TypeOK'
  BY <1>1, <1>3 DEF TypeOK, database, locks
<1>5. TransactionInv(b)'
  BY <1>3 DEF TransactionInv, Registers
<1> QED
  BY <1>1, <1>3, <1>4, <1>5, StatementStep DEF locks

LEMMA BeginReportStep ==
    ASSUME IInv, NEW b \in Backends, NEW op \in {"complete", "retry"},
           NEW t \in TaskIds, NEW token \in 1..MaxClaims, BeginReport(b, op, t, token)
    PROVE  IInv'
<1> USE DEF IInv
<1>1. Begin(b, op, "find", NULL, t, token) /\ UNCHANGED <<database, locks>>
  BY DEF BeginReport
<1>2. [op |-> op, at |-> "find", key |-> NULL, task |-> t, token |-> token]
          \in Transaction
  BY TransactionsAssumption DEF Transaction, Optional
<1>3. /\ txn' \in [Backends -> Optional(Transaction)]
      /\ txn'[b] = [op |-> op, at |-> "find", key |-> NULL, task |-> t,
                    token |-> token]
      /\ \A c \in Backends \ {b} : txn'[c] = txn[c]
  BY <1>1, <1>2, BeginTypes
<1>4. TypeOK'
  BY <1>1, <1>3 DEF TypeOK, database, locks
<1>5. TransactionInv(b)'
  BY <1>3 DEF TransactionInv, Reports, Archives
<1> QED
  BY <1>1, <1>3, <1>4, <1>5, StatementStep DEF locks

\* A claim, or maintenance, that takes the lock of a row nobody holds.
LEMMA LockRowStep ==
    ASSUME IInv, NEW b \in Backends, NEW t \in TaskIds, NEW op \in {"claim", "requeue"},
           tasks[t] # NULL, row_lock[t] = NULL, LockRow(b, t),
           op = "claim" => tasks[t].status = "waiting",
           op = "requeue" => tasks[t].status = "running",
           Begin(b, op, "commit", NULL, t, 0), UNCHANGED <<database, key_lock, new_row>>
    PROVE  IInv'
<1> USE DEF IInv
<1>1. [op |-> op, at |-> "commit", key |-> NULL, task |-> t, token |-> 0]
          \in Transaction
  BY DEF Transaction, Optional
<1>2. /\ txn' \in [Backends -> Optional(Transaction)]
      /\ txn'[b] = [op |-> op, at |-> "commit", key |-> NULL, task |-> t, token |-> 0]
      /\ \A c \in Backends \ {b} : txn'[c] = txn[c]
  BY <1>1, BeginTypes
<1>3. row_lock' = [row_lock EXCEPT ![t] = b]
  BY DEF LockRow
<1>4. TypeOK'
  BY <1>2, <1>3 DEF TypeOK, database, Optional
<1>5. row_lock'[t] = b /\ tasks' = tasks
  BY <1>3 DEF TypeOK, database
<1>6. TransactionInv(b)'
  BY <1>2, <1>5 DEF TransactionInv, ClaimsWaiting, HoldsRunning, HoldsRow
<1>7. \A c \in Backends : \A u \in TaskIds : row_lock[u] = c => row_lock'[u] = c
  BY <1>3, TransactionsAssumption DEF TypeOK
<1> QED
  BY <1>2, <1>4, <1>6, <1>7, StatementStep

LEMMA CheckKeyStep ==
    ASSUME IInv, NEW b \in Backends, CheckKey(b)
    PROVE  IInv'
<1> USE DEF IInv
<1> DEFINE k == txn[b].key
<1>1. txn[b] # NULL /\ txn[b].at = "check" /\ txn[b].op = "register"
  BY DEF CheckKey, IsAt
<1>2. UNCHANGED database
  BY DEF CheckKey
<1>3. CASE Finish(b)
  BY <1>2, <1>3, RollbackStep
<1>4. CASE ~Finish(b)
  <2>1. Fresh(k) /\ Goto(b, "insert") /\ UNCHANGED locks
    BY <1>4 DEF CheckKey, Fresh
  <2>2. Registers(b)
    BY <1>1 DEF TransactionInv
  <2>3. /\ txn' \in [Backends -> Optional(Transaction)]
        /\ txn'[b] = [op |-> txn[b].op, at |-> "insert", key |-> k,
                      task |-> txn[b].task, token |-> txn[b].token]
        /\ \A c \in Backends \ {b} : txn'[c] = txn[c]
    BY <1>1, <2>1, GotoTypes
  <2>4. TypeOK'
    BY <1>2, <2>1, <2>3 DEF TypeOK, database, locks
  <2>5. TransactionInv(b)'
    BY <1>1, <1>2, <2>1, <2>2, <2>3
       DEF TransactionInv, Registers, Fresh, KeyIsLive, database, locks
  <2> QED
    BY <1>2, <2>1, <2>3, <2>4, <2>5, StatementStep DEF locks
<1> QED
  BY <1>3, <1>4

LEMMA InsertTaskStep ==
    ASSUME IInv, NEW b \in Backends, InsertTask(b)
    PROVE  IInv'
<1> USE DEF IInv
<1> DEFINE k == txn[b].key
<1>1. txn[b] # NULL /\ txn[b].at = "insert" /\ txn[b].op = "register"
  BY DEF InsertTask, IsAt
<1>2. UNCHANGED database
  BY DEF InsertTask
<1>3. CASE Finish(b)
  BY <1>2, <1>3, RollbackStep
<1>4. CASE ~Finish(b)
  <2>1. /\ new_row' = [new_row EXCEPT ![k] = b]
        /\ Goto(b, "commit") /\ UNCHANGED <<row_lock, key_lock>>
    BY <1>4 DEF InsertTask
  <2>2. Registers(b)
    BY <1>1 DEF TransactionInv
  <2>3. /\ txn' \in [Backends -> Optional(Transaction)]
        /\ txn'[b] = [op |-> txn[b].op, at |-> "commit", key |-> k,
                      task |-> txn[b].task, token |-> txn[b].token]
        /\ \A c \in Backends \ {b} : txn'[c] = txn[c]
    BY <1>1, <2>1, GotoTypes
  <2>4. TypeOK'
    BY <1>2, <2>1, <2>2, <2>3 DEF TypeOK, database, Registers, Optional
  <2>5. TransactionInv(b)'
    BY <1>1, <1>2, <2>1, <2>2, <2>3
       DEF TransactionInv, Registers, Fresh, KeyIsLive, database
  <2> QED
    BY <1>2, <2>1, <2>3, <2>4, <2>5, StatementStep
<1> QED
  BY <1>3, <1>4

LEMMA FindTaskStep ==
    ASSUME IInv, NEW b \in Backends, FindTask(b)
    PROVE  IInv'
<1> USE DEF IInv
<1> DEFINE t == txn[b].task
<1>1. txn[b] # NULL /\ txn[b].at = "find" /\ txn[b].op \in {"complete", "retry"}
  BY DEF FindTask, IsAt
<1>2. UNCHANGED database /\ row_lock[t] = NULL
  BY DEF FindTask
<1>3. CASE Finish(b)
  BY <1>2, <1>3, RollbackStep
<1>4. CASE ~Finish(b)
  <2> DEFINE at == IF txn[b].op = "complete" THEN "lock" ELSE "commit"
             next == [op |-> txn[b].op, key |-> tasks[t].key, task |-> t,
                      at |-> at, token |-> txn[b].token]
  <2>1. /\ tasks[t] # NULL /\ tasks[t].status = "running"
        /\ tasks[t].token = txn[b].token
        /\ row_lock' = [row_lock EXCEPT ![t] = b]
        /\ txn' = [txn EXCEPT ![b] = next]
        /\ UNCHANGED <<key_lock, new_row>>
    BY <1>4 DEF FindTask, LockRow
  <2>2. t \in TaskIds
    BY <1>1 DEF TransactionInv, Reports
  <2>3. tasks[t] \in Row /\ txn[b] \in Transaction
    BY <1>1, <2>1, <2>2 DEF TypeOK, Optional
  <2>4. next \in Transaction /\ at \in {"lock", "commit"}
    BY <2>2, <2>3 DEF Transaction, Row, Optional
  <2>5. txn' \in [Backends -> Optional(Transaction)] /\ txn'[b] = next
        /\ \A c \in Backends \ {b} : txn'[c] = txn[c]
    BY <2>1, <2>4 DEF TypeOK, Optional
  <2>6. TypeOK'
    BY <1>2, <2>1, <2>2, <2>5 DEF TypeOK, database, Optional
  <2>7. row_lock'[t] = b /\ tasks' = tasks
    BY <1>2, <2>1, <2>2 DEF TypeOK, database
  <2>8. TransactionInv(b)'
    BY <1>1, <2>1, <2>2, <2>5, <2>7
       DEF TransactionInv, Reports, Archives, HoldsRunning, HoldsRow
  <2>9. \A c \in Backends : \A u \in TaskIds : row_lock[u] = c => row_lock'[u] = c
    BY <1>2, <2>1, <2>2, TransactionsAssumption DEF TypeOK
  <2> QED
    BY <1>2, <2>1, <2>5, <2>6, <2>8, <2>9, StatementStep
<1> QED
  BY <1>3, <1>4

-----------------------------------------------------------------------------
(* Commits *)

LEMMA CommitTaskStep ==
    ASSUME IInv, NEW b \in Backends, CommitTask(b)
    PROVE  IInv'
<1> USE DEF IInv
<1> DEFINE k == txn[b].key
           t == task_seq + 1
           row == [key |-> k, status |-> "waiting", token |-> 0]
<1>1. txn[b] # NULL /\ txn[b].at = "commit" /\ txn[b].op = "register"
  BY DEF CommitTask, IsAt
<1>2. k \in Keys /\ key_lock[k] = b /\ Fresh(k)
  BY <1>1 DEF TransactionInv, Registers
<1>3. /\ t \in TaskIds /\ task_seq \in Nat /\ task_seq' = t
      /\ tasks' = [tasks EXCEPT ![t] = row]
      /\ registered' = [registered EXCEPT ![t] = k]
      /\ Finish(b) /\ UNCHANGED <<task_runs, claims>>
  BY TransactionsAssumption DEF CommitTask, TypeOK, TaskIds
<1>4. row \in Row /\ row # NULL
  BY <1>2, TransactionsAssumption DEF Row
<1>5. TypeOK'
  BY <1>2, <1>3, <1>4, FinishStep, TransactionsAssumption DEF TypeOK, Optional, TaskIds
<1>6. tasks[t] = NULL
  BY <1>3 DEF DatabaseInv, RowsAreRegistered
<1>7. \A u \in TaskIds : u # t => tasks'[u] = tasks[u] /\ registered'[u] = registered[u]
  BY <1>3 DEF TypeOK
<1>8. tasks'[t] = row /\ registered'[t] = k
  BY <1>3 DEF TypeOK
<1>9. \A u \in 1..task_seq : registered[u] # k
  <2> SUFFICES ASSUME NEW u \in 1..task_seq, registered[u] = k PROVE FALSE
    OBVIOUS
  <2>1. u \in TaskIds
    BY <1>3, TransactionsAssumption DEF TypeOK, TaskIds
  <2>2. tasks[u] # NULL
    BY <1>2 DEF DatabaseInv, KeysAreLiveOrRecorded, Fresh
  <2> QED
    BY <1>2, <2>1, <2>2 DEF DatabaseInv, RowsAreRegistered, Fresh, KeyIsLive
<1>10. DatabaseInv'
  <2>1. IdsAreGiven'
    BY <1>2, <1>3, <1>7, <1>8, TransactionsAssumption DEF DatabaseInv, IdsAreGiven, TaskIds
  <2>2. RowsAreRegistered'
    BY <1>3, <1>7, <1>8 DEF DatabaseInv, RowsAreRegistered, TaskIds
  <2>3. KeysAreLiveOrRecorded'
    BY <1>3, <1>4, <1>7, <1>8, TransactionsAssumption
       DEF DatabaseInv, KeysAreLiveOrRecorded, TaskIds, TypeOK
  <2>4. RunsAreOfTheArchived'
    BY <1>3, <1>6, <1>7 DEF DatabaseInv, RunsAreOfTheArchived, TypeOK, Optional, Run, TaskIds
  <2>5. KeyIsRegisteredOnce'
    BY <1>3, <1>7, <1>8, <1>9 DEF DatabaseInv, KeyIsRegisteredOnce, TaskIds, TypeOK
  <2> QED
    BY <2>1, <2>2, <2>3, <2>4, <2>5 DEF DatabaseInv
<1>11. \A c \in Backends \ {b} : Undisturbed(c)
  <2> SUFFICES ASSUME NEW c \in Backends \ {b} PROVE Undisturbed(c)
    OBVIOUS
  <2>1. \A u \in TaskIds : tasks[u] # NULL => tasks'[u] = tasks[u]
    BY <1>6, <1>7
  <2>2. \A j \in Keys : key_lock[j] = c /\ Fresh(j) => Fresh(j)'
    BY <1>2, <1>3, <1>7, <1>8 DEF Fresh, KeyIsLive
  <2> QED
    BY <1>3, <2>1, <2>2, FinishStep DEF Undisturbed
<1>12. TransactionInv(b)'
  BY <1>3, FinishStep DEF TransactionInv
<1> QED
  BY <1>5, <1>10, <1>11, <1>12, StaysTrue

\* A commit that writes the row it has locked, to a row with the same key.
LEMMA CommitRowStep ==
    ASSUME IInv, NEW b \in Backends, HoldsRow(b), NEW row \in Row,
           row.key = tasks[txn[b].task].key,
           tasks' = [tasks EXCEPT ![txn[b].task] = row],
           claims' \in [TaskIds -> Nat],
           \A u \in TaskIds : u # txn[b].task => claims'[u] = claims[u],
           row.status = "running" => row.token = claims'[txn[b].task],
           Finish(b), UNCHANGED <<task_runs, registered, task_seq>>
    PROVE  IInv'
<1> USE DEF IInv
<1> DEFINE t == txn[b].task
<1>1. t \in TaskIds /\ row_lock[t] = b /\ tasks[t] # NULL
  BY DEF HoldsRow
<1>2. row # NULL
  BY TransactionsAssumption
<1>3. TypeOK'
  BY <1>1, FinishStep DEF TypeOK, Optional
<1>4. \A u \in TaskIds : /\ u # t => tasks'[u] = tasks[u]
                         /\ tasks'[u] # NULL <=> tasks[u] # NULL
                         /\ tasks[u] # NULL => tasks'[u].key = tasks[u].key
  BY <1>1, <1>2 DEF TypeOK
<1>5. tasks'[t] = row
  BY <1>1 DEF TypeOK
<1>6. DatabaseInv'
  <2>1. IdsAreGiven' /\ KeyIsRegisteredOnce'
    BY DEF DatabaseInv, IdsAreGiven, KeyIsRegisteredOnce
  <2>2. RowsAreRegistered'
    BY <1>1, <1>4, <1>5 DEF DatabaseInv, RowsAreRegistered
  <2>3. KeysAreLiveOrRecorded'
    BY <1>4 DEF DatabaseInv, KeysAreLiveOrRecorded, TypeOK, TaskIds
  <2>4. RunsAreOfTheArchived'
    BY <1>4 DEF DatabaseInv, RunsAreOfTheArchived, TypeOK, Optional, Run
  <2> QED
    BY <2>1, <2>2, <2>3, <2>4 DEF DatabaseInv
<1>7. \A c \in Backends \ {b} : Undisturbed(c)
  <2> SUFFICES ASSUME NEW c \in Backends \ {b} PROVE Undisturbed(c)
    OBVIOUS
  <2>1. \A u \in TaskIds : row_lock[u] = c => tasks'[u] = tasks[u]
    BY <1>1, <1>4
  <2>2. \A j \in Keys : Fresh(j) => Fresh(j)'
    BY <1>4 DEF Fresh, KeyIsLive
  <2> QED
    BY <2>1, <2>2, FinishStep DEF Undisturbed
<1>8. TransactionInv(b)'
  BY FinishStep DEF TransactionInv
<1> QED
  BY <1>3, <1>6, <1>7, <1>8, StaysTrue

LEMMA CommitClaimStep ==
    ASSUME IInv, NEW b \in Backends, CommitClaim(b)
    PROVE  IInv'
<1> USE DEF IInv
<1> DEFINE t == txn[b].task
           row == [key |-> tasks[t].key, status |-> "running", token |-> claims[t] + 1]
<1>1. HoldsRow(b)
  BY DEF CommitClaim, IsAt, TransactionInv, ClaimsWaiting
<1>2. t \in TaskIds /\ tasks[t] \in Row
  BY <1>1 DEF HoldsRow, TypeOK, Optional
<1>3. row \in Row
  BY <1>2 DEF Row, TypeOK
<1>4. claims' \in [TaskIds -> Nat] /\ claims'[t] = claims[t] + 1
      /\ \A u \in TaskIds : u # t => claims'[u] = claims[u]
  BY <1>2 DEF CommitClaim, TypeOK
<1>5. /\ tasks' = [tasks EXCEPT ![t] = row]
      /\ Finish(b) /\ UNCHANGED <<task_runs, registered, task_seq>>
  BY DEF CommitClaim
<1> QED
  BY <1>1, <1>3, <1>4, <1>5, CommitRowStep

LEMMA CommitReleaseStep ==
    ASSUME IInv, NEW b \in Backends, CommitRelease(b)
    PROVE  IInv'
<1> USE DEF IInv
<1> DEFINE t == txn[b].task
<1>1. HoldsRow(b)
  BY DEF CommitRelease, IsAt, TransactionInv, Reports, HoldsRunning
<1>2. t \in TaskIds /\ tasks[t] \in Row
  BY <1>1 DEF HoldsRow, TypeOK, Optional
<1>3. /\ ReleasedRow(t) \in Row /\ ReleasedRow(t).key = tasks[t].key
      /\ ReleasedRow(t).status # "running"
  BY <1>2 DEF Row, ReleasedRow
<1>4. /\ tasks' = [tasks EXCEPT ![t] = ReleasedRow(t)] /\ claims' = claims
      /\ Finish(b) /\ UNCHANGED <<task_runs, registered, task_seq>>
  BY DEF CommitRelease
<1>5. claims' \in [TaskIds -> Nat]
  BY <1>4 DEF TypeOK
<1> QED
  BY <1>1, <1>3, <1>4, <1>5, CommitRowStep

\* The history has no run of the key: the only task that ever had it is the
\* one that is archived now.
LEMMA KeyIsNotRecorded ==
    ASSUME IInv, NEW b \in Backends, IsAt(b, {"complete"}, "commit")
    PROVE  /\ HoldsRunning(b) /\ txn[b].key \in Keys
           /\ key_lock[txn[b].key] = b
           /\ registered[txn[b].task] = txn[b].key
           /\ task_runs[txn[b].key] = NULL
           /\ txn[b].token = claims[txn[b].task]
<1> USE DEF IInv
<1> DEFINE t == txn[b].task
           k == txn[b].key
<1>1. /\ HoldsRunning(b) /\ tasks[t].token = txn[b].token
      /\ k = tasks[t].key /\ key_lock[k] = b
  BY DEF IsAt, TransactionInv, Reports, Archives
<1>2. t \in TaskIds /\ tasks[t] # NULL /\ tasks[t] \in Row
  BY <1>1 DEF HoldsRunning, HoldsRow, TypeOK, Optional
<1>3. k \in Keys
  BY <1>1, <1>2 DEF Row
<1>4. t <= task_seq /\ registered[t] = k /\ tasks[t].token = claims[t]
  BY <1>1, <1>2 DEF DatabaseInv, RowsAreRegistered, HoldsRunning
<1>5. task_runs[k] = NULL
  <2> SUFFICES ASSUME task_runs[k] # NULL PROVE FALSE
    OBVIOUS
  <2> DEFINE u == task_runs[k].task
  <2>1. u \in TaskIds
    BY <1>3 DEF TypeOK, Optional, Run
  <2>2. u <= task_seq /\ registered[u] = k /\ tasks[u] = NULL
    BY <1>3 DEF DatabaseInv, RunsAreOfTheArchived
  <2>3. u = t
    BY <1>2, <1>4, <2>1, <2>2
       DEF DatabaseInv, KeyIsRegisteredOnce, TaskIds, TypeOK
  <2> QED
    BY <1>2, <2>2, <2>3
<1> QED
  BY <1>1, <1>3, <1>4, <1>5

LEMMA CommitArchiveStep ==
    ASSUME IInv, NEW b \in Backends, CommitArchive(b)
    PROVE  IInv'
<1> USE DEF IInv
<1> DEFINE t == txn[b].task
           k == txn[b].key
           run == [task |-> t, token |-> txn[b].token]
<1>1. /\ HoldsRunning(b) /\ k \in Keys /\ key_lock[k] = b
      /\ registered[t] = k /\ task_runs[k] = NULL
      /\ txn[b].token = claims[t]
  BY KeyIsNotRecorded DEF CommitArchive
<1>2. t \in TaskIds /\ row_lock[t] = b /\ tasks[t] # NULL
  BY <1>1 DEF HoldsRunning, HoldsRow
<1>3. run \in Run /\ run # NULL
  BY <1>1, <1>2, TransactionsAssumption DEF Run, TypeOK
<1>4. /\ task_runs' = [task_runs EXCEPT ![k] = run]
      /\ tasks' = [tasks EXCEPT ![t] = NULL]
      /\ Finish(b) /\ UNCHANGED <<registered, task_seq, claims>>
  BY <1>1 DEF CommitArchive
<1>5. TypeOK'
  BY <1>1, <1>2, <1>3, <1>4, FinishStep DEF TypeOK, Optional
<1>6. /\ tasks'[t] = NULL /\ \A u \in TaskIds : u # t => tasks'[u] = tasks[u]
      /\ task_runs'[k] = run /\ \A j \in Keys : j # k => task_runs'[j] = task_runs[j]
  BY <1>1, <1>2, <1>4 DEF TypeOK
<1>7. t <= task_seq
  BY <1>2 DEF DatabaseInv, RowsAreRegistered
<1>8. DatabaseInv'
  <2>1. IdsAreGiven' /\ KeyIsRegisteredOnce'
    BY <1>4 DEF DatabaseInv, IdsAreGiven, KeyIsRegisteredOnce
  <2>2. RowsAreRegistered'
    BY <1>4, <1>6 DEF DatabaseInv, RowsAreRegistered
  <2>3. KeysAreLiveOrRecorded'
    <3> SUFFICES ASSUME NEW u \in 1..task_seq
                 PROVE  tasks'[u] # NULL \/ task_runs'[registered[u]] # NULL
      BY <1>4 DEF KeysAreLiveOrRecorded
    <3>1. u \in TaskIds /\ registered[u] \in Keys
      BY TransactionsAssumption DEF TypeOK, TaskIds, DatabaseInv, IdsAreGiven, Optional
    <3>2. tasks[u] # NULL \/ task_runs[registered[u]] # NULL
      BY DEF DatabaseInv, KeysAreLiveOrRecorded
    <3> QED
      BY <1>1, <1>3, <1>6, <3>1, <3>2
  <2>4. RunsAreOfTheArchived'
    BY <1>1, <1>3, <1>4, <1>6, <1>7
       DEF DatabaseInv, RunsAreOfTheArchived, TypeOK, Optional, Run
  <2> QED
    BY <2>1, <2>2, <2>3, <2>4 DEF DatabaseInv
<1>9. \A c \in Backends \ {b} : Undisturbed(c)
  <2> SUFFICES ASSUME NEW c \in Backends \ {b} PROVE Undisturbed(c)
    OBVIOUS
  <2>1. \A u \in TaskIds : row_lock[u] = c => tasks'[u] = tasks[u]
    BY <1>2, <1>6
  <2>2. \A j \in Keys : key_lock[j] = c /\ Fresh(j) => Fresh(j)'
    BY <1>1, <1>6 DEF Fresh, KeyIsLive
  <2> QED
    BY <1>4, <2>1, <2>2, FinishStep DEF Undisturbed
<1>10. TransactionInv(b)'
  BY <1>4, FinishStep DEF TransactionInv
<1> QED
  BY <1>5, <1>8, <1>9, <1>10, StaysTrue

-----------------------------------------------------------------------------
LEMMA InitHolds == Init => IInv
<1> SUFFICES ASSUME Init PROVE IInv
  OBVIOUS
<1>1. TypeOK
  BY TransactionsAssumption DEF Init, TypeOK, Optional
<1>2. DatabaseInv
  BY DEF Init, DatabaseInv, IdsAreGiven, RowsAreRegistered, KeysAreLiveOrRecorded,
         RunsAreOfTheArchived, KeyIsRegisteredOnce, TaskIds
<1>3. \A b \in Backends : TransactionInv(b)
  BY DEF Init, TransactionInv
<1> QED
  BY <1>1, <1>2, <1>3 DEF IInv

LEMMA NextKeeps == IInv /\ [Next]_vars => IInv'
<1> SUFFICES ASSUME IInv, [Next]_vars PROVE IInv'
  OBVIOUS
<1>1. CASE UNCHANGED vars
  BY <1>1 DEF vars, database, locks, IInv, TypeOK, DatabaseInv, IdsAreGiven,
     RowsAreRegistered, KeysAreLiveOrRecorded, RunsAreOfTheArchived,
     KeyIsRegisteredOnce, TransactionInv, Registers, ClaimsWaiting, Reports,
     Archives, HoldsRunning, HoldsRow, Fresh, KeyIsLive
<1>2. ASSUME NEW b \in Backends, Proceed(b) PROVE IInv'
  BY <1>2, CheckKeyStep, InsertTaskStep, CommitTaskStep, CommitClaimStep,
     CommitReleaseStep, CommitArchiveStep DEF Proceed
<1>3. ASSUME NEW b \in Backends, Abort(b) PROVE IInv'
  BY <1>3, RollbackStep DEF Abort
<1>4. ASSUME NEW b \in Backends, NEW t \in TaskIds, LockCandidate(b, t) PROVE IInv'
  <2>1. "claim" \in {"claim", "requeue"} /\ "claim" # "requeue"
    OBVIOUS
  <2> QED
    BY <1>4, <2>1, LockRowStep DEF LockCandidate, Candidate
<1>5. ASSUME NEW b \in Backends, NEW t \in TaskIds, LockStale(b, t) PROVE IInv'
  <2>1. "requeue" \in {"claim", "requeue"} /\ "claim" # "requeue"
    OBVIOUS
  <2> QED
    BY <1>5, <2>1, LockRowStep DEF LockStale
<1> QED
  BY <1>1, <1>2, <1>3, <1>4, <1>5, LockKeyStep, FindTaskStep,
     BeginRegistrationStep, BeginReportStep DEF Next

LEMMA Invariance == Spec => []IInv
  BY InitHolds, NextKeeps, PTL DEF Spec

\* Every variable keeps its type, for any number of keys and connections.
THEOREM TypeCorrect == Spec => []TypeOK
<1>1. IInv => TypeOK
  BY DEF IInv
<1> QED
  BY <1>1, Invariance, PTL

\* The advisory lock makes the look for a key and its insertion one: no key
\* is registered a second time, however registrations and reports interleave.
THEOREM KeysAreRegisteredOnce == Spec => []KeyIsRegisteredOnce
<1>1. IInv => KeyIsRegisteredOnce
  BY DEF IInv, DatabaseInv
<1> QED
  BY <1>1, Invariance, PTL
-----------------------------------------------------------------------------
(* What is committed moves as LeaseProtocol allows *)

EndedBy(t) == IF IsRecorded(t) THEN RunOf(t).token ELSE 0

\* While the records stay, a row moves alone, and only by its status.
LEMMA RowMoves ==
    ASSUME TypeOK, NEW t \in TaskIds, NEW row \in Row,
           tasks[t] # NULL, tasks' = [tasks EXCEPT ![t] = row],
           UNCHANGED <<task_runs, registered, task_seq>>
    PROVE  /\ \A u \in TaskIds : u # t => PhaseOf(u)' = PhaseOf(u)
           /\ \A u \in TaskIds : EndedBy(u)' = EndedBy(u)
           /\ PhaseOf(t) = IF tasks[t].status = "running" THEN "leased" ELSE "waiting"
           /\ PhaseOf(t)' = IF row.status = "running" THEN "leased" ELSE "waiting"
<1>1. row # NULL
  BY TransactionsAssumption
<1>2. tasks'[t] = row /\ \A u \in TaskIds : u # t => tasks'[u] = tasks[u]
  BY DEF TypeOK
<1>3. \A u \in TaskIds : /\ RunOf(u)' = RunOf(u)
                         /\ IsRecorded(u)' <=> IsRecorded(u)
  BY DEF RunOf, IsRecorded
<1>4. \A u \in TaskIds : EndedBy(u)' = EndedBy(u)
  BY <1>3 DEF EndedBy
<1>5. ASSUME NEW u \in TaskIds, u # t PROVE PhaseOf(u)' = PhaseOf(u)
  BY <1>2, <1>3, <1>5 DEF PhaseOf
<1>6. PhaseOf(t) = IF tasks[t].status = "running" THEN "leased" ELSE "waiting"
  BY DEF PhaseOf
<1>7. PhaseOf(t)' = IF row.status = "running" THEN "leased" ELSE "waiting"
  BY <1>1, <1>2 DEF PhaseOf
<1> QED
  BY <1>4, <1>5, <1>6, <1>7

LEMMA ClaimLeases ==
    ASSUME IInv, NEW b \in Backends, CommitClaim(b),
           NEW t, t = txn[b].task
    PROVE  Leasing!Lease({t})
<1> USE DEF IInv
<1> DEFINE row == [key |-> tasks[t].key, status |-> "running", token |-> claims[t] + 1]
<1>1. HoldsRow(b) /\ tasks[t].status = "waiting"
  BY DEF CommitClaim, IsAt, TransactionInv, ClaimsWaiting
<1>2. t \in TaskIds /\ tasks[t] # NULL /\ tasks[t] \in Row /\ claims[t] \in Nat
  BY <1>1 DEF HoldsRow, TypeOK, Optional
<1>3. row \in Row
  BY <1>2 DEF Row
<1>4. /\ tasks' = [tasks EXCEPT ![t] = row]
      /\ claims' = [claims EXCEPT ![t] = claims[t] + 1]
      /\ UNCHANGED <<task_runs, registered, task_seq>>
  BY DEF CommitClaim
<1>5. /\ \A u \in TaskIds : u # t => PhaseOf(u)' = PhaseOf(u)
      /\ \A u \in TaskIds : EndedBy(u)' = EndedBy(u)
      /\ PhaseOf(t) = "waiting" /\ PhaseOf(t)' = "leased"
  BY <1>1, <1>2, <1>3, <1>4, RowMoves
<1>6. claims' = [u \in TaskIds |-> IF u \in {t} THEN claims[u] + 1 ELSE claims[u]]
  BY <1>4 DEF TypeOK
<1> QED
  BY <1>2, <1>5, <1>6 DEF Leasing!Lease, Leasing!Move, EndedBy

LEMMA ReleaseReleases ==
    ASSUME IInv, NEW b \in Backends, CommitRelease(b),
           NEW t, t = txn[b].task
    PROVE  Leasing!Release({t})
<1> USE DEF IInv
<1>1. HoldsRow(b) /\ tasks[t].status = "running"
  BY DEF CommitRelease, IsAt, TransactionInv, Reports, HoldsRunning
<1>2. t \in TaskIds /\ tasks[t] # NULL /\ tasks[t] \in Row
  BY <1>1 DEF HoldsRow, TypeOK, Optional
<1>3. ReleasedRow(t) \in Row /\ ReleasedRow(t).status = "waiting"
  BY <1>2 DEF Row, ReleasedRow
<1>4. /\ tasks' = [tasks EXCEPT ![t] = ReleasedRow(t)]
      /\ UNCHANGED <<task_runs, registered, task_seq, claims>>
  BY DEF CommitRelease
<1>5. /\ \A u \in TaskIds : u # t => PhaseOf(u)' = PhaseOf(u)
      /\ \A u \in TaskIds : EndedBy(u)' = EndedBy(u)
      /\ PhaseOf(t) = "leased" /\ PhaseOf(t)' = "waiting"
  <2>1. PICK row \in Row : row = ReleasedRow(t)
    BY <1>3
  <2> QED
    BY <1>1, <1>2, <1>3, <1>4, <2>1, RowMoves
<1> QED
  BY <1>2, <1>4, <1>5 DEF Leasing!Release, Leasing!Move, EndedBy

LEMMA RegistrationRegisters ==
    ASSUME IInv, NEW b \in Backends, CommitTask(b),
           NEW t, t = task_seq + 1, NEW k, k = txn[b].key
    PROVE  Leasing!Register({t})
<1> USE DEF IInv
<1> DEFINE row == [key |-> k, status |-> "waiting", token |-> 0]
<1>1. k \in Keys /\ Fresh(k)
  BY DEF CommitTask, IsAt, TransactionInv, Registers
<1>2. /\ t \in TaskIds /\ task_seq \in Nat /\ task_seq' = t
      /\ tasks' = [tasks EXCEPT ![t] = row]
      /\ registered' = [registered EXCEPT ![t] = k]
      /\ UNCHANGED <<task_runs, claims>>
  BY TransactionsAssumption DEF CommitTask, TypeOK, TaskIds
<1>3. row \in Row /\ row # NULL
  BY <1>1, TransactionsAssumption DEF Row
<1>4. /\ tasks'[t] = row /\ registered'[t] = k
      /\ \A u \in TaskIds : u # t => tasks'[u] = tasks[u] /\ registered'[u] = registered[u]
  BY <1>2 DEF TypeOK
<1>5. tasks[t] = NULL /\ registered[t] = NULL
  BY <1>2 DEF DatabaseInv, RowsAreRegistered, IdsAreGiven
<1>6. PhaseOf(t) = "unknown" /\ EndedBy(t) = 0
  BY <1>2, <1>5 DEF PhaseOf, EndedBy, IsRecorded, RunOf
<1>7. PhaseOf(t)' = "waiting" /\ EndedBy(t)' = 0
  <2>1. RunOf(t)' = NULL
    BY <1>1, <1>2, <1>4 DEF RunOf, Fresh
  <2> QED
    BY <1>3, <1>4, <2>1 DEF PhaseOf, EndedBy, IsRecorded
<1>8. ASSUME NEW u \in TaskIds, u # t
      PROVE  PhaseOf(u)' = PhaseOf(u) /\ EndedBy(u)' = EndedBy(u)
  <2>1. RunOf(u)' = RunOf(u) /\ (IsRecorded(u)' <=> IsRecorded(u))
    BY <1>2, <1>4, <1>8 DEF RunOf, IsRecorded
  <2>2. u > task_seq' <=> u > task_seq
    BY <1>2, <1>8, TransactionsAssumption DEF TaskIds
  <2> QED
    BY <1>4, <1>8, <2>1, <2>2 DEF PhaseOf, EndedBy
<1> QED
  BY <1>2, <1>6, <1>7, <1>8 DEF Leasing!Register, Leasing!Move, EndedBy

LEMMA ArchivalEnds ==
    ASSUME IInv, NEW b \in Backends, CommitArchive(b),
           NEW t, t = txn[b].task
    PROVE  Leasing!End(t)
<1> USE DEF IInv
<1>0. PICK k, run : k = txn[b].key /\ run = [task |-> t, token |-> txn[b].token]
  OBVIOUS
<1> USE <1>0
<1>1. /\ HoldsRunning(b) /\ k \in Keys
      /\ registered[t] = k /\ task_runs[k] = NULL
      /\ txn[b].token = claims[t]
  BY KeyIsNotRecorded DEF CommitArchive
<1>2. t \in TaskIds /\ tasks[t] # NULL /\ tasks[t].status = "running" /\ t <= task_seq
  BY <1>1 DEF HoldsRunning, HoldsRow, DatabaseInv, RowsAreRegistered
<1>3. run # NULL /\ k # NULL
  BY <1>1, <1>2, TransactionsAssumption DEF Run, TypeOK
<1>4. /\ task_runs' = [task_runs EXCEPT ![k] = run]
      /\ tasks' = [tasks EXCEPT ![t] = NULL]
      /\ UNCHANGED <<registered, task_seq, claims>>
  BY <1>1 DEF CommitArchive
<1>5. /\ tasks'[t] = NULL /\ \A u \in TaskIds : u # t => tasks'[u] = tasks[u]
      /\ task_runs'[k] = run /\ \A j \in Keys : j # k => task_runs'[j] = task_runs[j]
  BY <1>1, <1>2, <1>4 DEF TypeOK
<1>6. PhaseOf(t) = "leased"
  BY <1>2 DEF PhaseOf
<1>7. PhaseOf(t)' = "ended" /\ EndedBy(t)' = claims[t]
  <2>1. RunOf(t)' = run
    BY <1>1, <1>3, <1>4, <1>5 DEF RunOf
  <2>2. IsRecorded(t)'
    BY <1>3, <2>1 DEF IsRecorded
  <2>3. ~(t > task_seq')
    BY <1>2, <1>4, TransactionsAssumption DEF TypeOK, TaskIds
  <2> QED
    BY <1>1, <1>5, <2>1, <2>2, <2>3 DEF PhaseOf, EndedBy
<1>8. ASSUME NEW u \in TaskIds, u # t
      PROVE  PhaseOf(u)' = PhaseOf(u) /\ EndedBy(u)' = EndedBy(u)
  <2>1. CASE registered[u] = k
    <3>1. RunOf(u) = NULL /\ RunOf(u)' = run
      BY <1>1, <1>3, <1>4, <1>5, <2>1 DEF RunOf
    <3>2. ~IsRecorded(u) /\ ~IsRecorded(u)'
      BY <1>8, <3>1 DEF IsRecorded
    <3> QED
      BY <1>4, <1>5, <1>8, <3>2 DEF PhaseOf, EndedBy
  <2>2. CASE registered[u] # k
    <3>1. registered[u] \in Optional(Keys)
      BY <1>8 DEF TypeOK
    <3>2. RunOf(u)' = RunOf(u)
      BY <1>4, <1>5, <2>2, <3>1 DEF RunOf, Optional
    <3>3. IsRecorded(u)' <=> IsRecorded(u)
      BY <3>2 DEF IsRecorded
    <3> QED
      BY <1>4, <1>5, <1>8, <3>2, <3>3 DEF PhaseOf, EndedBy
  <2> QED
    BY <2>1, <2>2
<1>9. [u \in TaskIds |-> EndedBy(u)]'
          = [[u \in TaskIds |-> EndedBy(u)] EXCEPT ![t] = claims[t]]
  BY <1>2, <1>7, <1>8
<1> QED
  BY <1>2, <1>4, <1>6, <1>7, <1>8, <1>9 DEF Leasing!End, Leasing!Move, EndedBy

LEMMA DatabaseStays ==
    ASSUME UNCHANGED database
    PROVE  UNCHANGED Leasing!protocolVars
  BY DEF database, Leasing!protocolVars, PhaseOf, IsRecorded, RunOf

\* Every commit is a step of LeaseProtocol and every other statement leaves
\* its variables alone: the transactions of the store are as good as atomic.
THEOREM Implements == Spec => ImplementsLeaseProtocol
<1>1. Init => Leasing!ProtocolInit
  <2> SUFFICES ASSUME Init PROVE Leasing!ProtocolInit
    OBVIOUS
  <2>1. \A t \in TaskIds : PhaseOf(t) = "unknown" /\ EndedBy(t) = 0
    BY TransactionsAssumption
       DEF Init, PhaseOf, EndedBy, IsRecorded, RunOf, TaskIds
  <2> QED
    BY <2>1 DEF Init, Leasing!ProtocolInit, EndedBy
<1>2. IInv /\ [Next]_vars => [Leasing!ProtocolNext]_(Leasing!protocolVars)
  <2> SUFFICES ASSUME IInv, [Next]_vars
               PROVE  Leasing!ProtocolNext \/ UNCHANGED Leasing!protocolVars
    OBVIOUS
  <2>1. CASE UNCHANGED database
    BY <2>1, DatabaseStays
  <2>2. ASSUME NEW b \in Backends, CommitTask(b) PROVE Leasing!ProtocolNext
    <3>1. PICK t \in TaskIds : t = task_seq + 1
      BY <2>2, TransactionsAssumption DEF CommitTask, IInv, TypeOK, TaskIds
    <3> QED
      BY <2>2, <3>1, RegistrationRegisters DEF Leasing!ProtocolNext
  <2>3. ASSUME NEW b \in Backends, txn[b] # NULL,
               CommitClaim(b) \/ CommitRelease(b) \/ CommitArchive(b)
        PROVE  Leasing!ProtocolNext
    <3>1. PICK t \in TaskIds : t = txn[b].task
      BY <2>3 DEF IInv, CommitClaim, CommitRelease, CommitArchive, IsAt,
                  TransactionInv, ClaimsWaiting, Reports, HoldsRunning, HoldsRow
    <3>2. {t} \in SUBSET TaskIds
      OBVIOUS
    <3> QED
      BY <2>3, <3>1, <3>2, ClaimLeases, ReleaseReleases, ArchivalEnds
         DEF Leasing!ProtocolNext
  <2>4. CASE UNCHANGED vars
    BY <2>1, <2>4 DEF vars
  <2>5. ASSUME NEW b \in Backends, Proceed(b)
        PROVE  Leasing!ProtocolNext \/ UNCHANGED database
    BY <2>2, <2>3, <2>5 DEF Proceed, IsAt, CheckKey, InsertTask, CommitClaim,
                            CommitRelease, CommitArchive
  <2>6. ASSUME Next PROVE Leasing!ProtocolNext \/ UNCHANGED database
    BY <2>5, <2>6 DEF Next, LockKey, FindTask, Abort, BeginRegistration,
                      LockCandidate, LockStale, BeginReport
  <2> QED
    BY <2>1, <2>4, <2>6
<1> QED
  BY <1>1, <1>2, Invariance, PTL DEF Spec, ImplementsLeaseProtocol, Leasing!Protocol
=============================================================================
