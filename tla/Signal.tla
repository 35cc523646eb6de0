------------------------------- MODULE Signal -------------------------------
(***************************************************************************)
(* How a waiting worker learns of a task: TaskSignal                       *)
(* (services/controller, signals.py), the long poll of a claim (api.py)    *)
(* and the notifications that the transactions of store.py send.           *)
(*                                                                         *)
(* One controller process.  A notification reaches it twice: through       *)
(* PostgreSQL and the listener thread, and by notify_local from the code   *)
(* that registered the tasks.  Either may be late, and either can be lost: *)
(* the first with a connection, the second with a pass of the registrar    *)
(* that breaks off.  Some tasks become due with no notification at all.    *)
(***************************************************************************)
EXTENDS Integers, FiniteSets

CONSTANTS
    Tasks,
    Waiters,        \* workers, each with one claim request at a time
    Slots,          \* tasks a worker executes at the same time
    MaxTokens,      \* capacity of the queue of wake tokens
    WaitTicks,      \* wait_seconds of a claim request
    Routings,       \* the assignments [Waiters -> SUBSET Tasks] to check
    MaxTroubles     \* bound: vain registrations, pauses, failures, requeues,
                    \* broken connections and passes, and restarts

ASSUME SignalAssumption ==
    /\ IsFiniteSet(Tasks) /\ IsFiniteSet(Waiters)
    /\ Slots \in Nat \ {0} /\ MaxTokens \in Nat \ {0}
    /\ WaitTicks \in Nat /\ MaxTroubles \in Nat
    /\ Routings \subseteq [Waiters -> SUBSET Tasks]

VARIABLES
    status,         \* of each task
    batch, paused,  \* the tasks of the backfill, and whether it is paused
    tokens,         \* length of the token queue
    calls,          \* wakes on their way to the queue
    listening,      \* the listener's connection is up
    pass,           \* the registrar's pass: the tasks it has registered, and
                    \* those that a notification has told of
    poll,           \* each worker's claim request
    locked,         \* the rows that each open claim transaction has locked
    held,           \* the tasks each worker executes
    routing,        \* what each worker can run; chosen once
    missed,         \* history: a task became due, or was registered, that
                    \* nobody announced, or a claim passed by rows that
                    \* another one had locked
    troubles

vars == <<status, batch, paused, tokens, calls, listening, pass,
          poll, locked, held, routing, missed, troubles>>

signalVars == <<tokens, calls, listening, pass>>

Smaller(m, n) == IF m < n THEN m ELSE n

At(pc, left) == [pc |-> pc, left |-> left]
Away == At("away", 0)

Claimable(t) == status[t] = "due" /\ ~(paused /\ t \in batch)

Free(w) == Slots - Cardinality(held[w])

-----------------------------------------------------------------------------
(* Sending *)

\* pg_notify reaches a listener that is connected, and no other; it passes the
\* payload on by notify_local.  A notification that a breaking connection takes
\* with it is one that came after the break.
Notified(payload) == IF listening THEN payload ELSE 0

\* A transaction notifies and its caller calls notify_local(count).
Announce(payload, count) ==
    /\ calls' = calls + Notified(payload) + count
    /\ UNCHANGED <<tokens, listening, pass>>

Absent == {t \in Tasks : status[t] = "absent"}

Registered(S) ==
    status' = [t \in Tasks |-> IF t \in S THEN "due" ELSE status[t]]

\* register_manual
RegisterManual(t) ==
    /\ t \in Absent /\ Registered({t})
    /\ Announce(1, 1)
    /\ UNCHANGED <<batch, paused, poll, locked, held, routing, missed,
                   troubles>>

NoPass == [registered |-> 0, notified |-> 0]

\* A pass of the registrar registers the due schedules.  PostgreSQL folds the
\* equal payloads of a transaction into one; notify_local has to wait.
RegisterDue(S) ==
    /\ pass = NoPass /\ S # {} /\ S \subseteq Absent /\ Registered(S)
    /\ pass' = [registered |-> Cardinality(S), notified |-> Notified(1)]
    /\ calls' = calls + Notified(1)
    /\ UNCHANGED <<batch, paused, tokens, listening, poll, locked, held, routing,
                   missed, troubles>>

\* Mutant: the tasks of a pass are announced as one.
ToldAsOne == 1

Told == pass.registered

\* maintenance has returned, and the pass ends with notify_local.
NotifyLocal ==
    /\ pass # NoPass
    /\ calls' = calls + Told
    /\ pass' = NoPass
    /\ UNCHANGED <<status, batch, paused, tokens, listening, poll, locked, held,
                   routing, missed, troubles>>

Unannounced == pass.registered > pass.notified

\* maintenance raises: what the pass has registered stays registered, and nobody
\* hears how much it was.
PassFails ==
    /\ pass # NoPass /\ troubles < MaxTroubles
    /\ pass' = NoPass
    /\ missed' = (missed \/ Unannounced)
    /\ troubles' = troubles + 1
    /\ UNCHANGED <<status, batch, paused, tokens, calls, listening, poll, locked,
                   held, routing>>

\* register_manual finds the key in use: a wake without a task.
RegisterKnown ==
    /\ troubles < MaxTroubles
    /\ calls' = calls + 1
    /\ troubles' = troubles + 1
    /\ UNCHANGED <<status, batch, paused, tokens, listening, pass, poll, locked,
                   held, routing, missed>>

\* create_backfill notifies once with the number of its windows.
CreateBackfill(S) ==
    /\ batch = {} /\ S # {} /\ S \subseteq Absent
    /\ batch' = S /\ Registered(S)
    /\ Announce(Cardinality(S), Cardinality(S))
    /\ UNCHANGED <<paused, poll, locked, held, routing, missed, troubles>>

PauseBackfill ==
    /\ batch # {} /\ ~paused /\ troubles < MaxTroubles
    /\ paused' = TRUE
    /\ troubles' = troubles + 1
    /\ UNCHANGED <<status, batch, signalVars, poll, locked, held, routing,
                   missed>>

\* A resume announces one task, whatever waits in the batch.
ResumeBackfill ==
    /\ paused
    /\ paused' = FALSE
    /\ missed' = (missed \/ Cardinality({t \in batch : status[t] = "due"}) > 1)
    /\ Announce(1, 1)
    /\ UNCHANGED <<status, batch, poll, locked, held, routing, troubles>>

-----------------------------------------------------------------------------
(* Receiving *)

\* Mutant: a queue without a bound.
Unbounded(n) == tokens + n

\* put_nowait until the queue is full
Filled(n) == Smaller(MaxTokens, tokens + n)

\* The event loop runs _add_tokens, for one or several calls.
AddTokens(n) ==
    /\ n \in 1..calls
    /\ tokens' = Filled(n)
    /\ calls' = calls - n
    /\ UNCHANGED <<status, batch, paused, listening, pass, poll, locked, held,
                   routing, missed, troubles>>

\* The listener's connection breaks.
Disconnect ==
    /\ listening /\ troubles < MaxTroubles
    /\ listening' = FALSE
    /\ troubles' = troubles + 1
    /\ UNCHANGED <<status, batch, paused, tokens, calls, pass, poll, locked, held,
                   routing, missed>>

\* After two seconds it connects again.
Reconnect ==
    /\ ~listening
    /\ listening' = TRUE
    /\ UNCHANGED <<status, batch, paused, tokens, calls, pass, poll, locked, held,
                   routing, missed, troubles>>

\* The controller restarts: requests, tokens, the listener and the registrar's
\* pass are gone.
Restart ==
    /\ troubles < MaxTroubles
    /\ tokens' = 0 /\ calls' = 0
    /\ listening' = FALSE /\ pass' = NoPass
    /\ poll' = [w \in Waiters |-> Away]
    /\ locked' = [w \in Waiters |-> {}]
    /\ troubles' = troubles + 1
    /\ UNCHANGED <<status, batch, paused, held, routing, missed>>

-----------------------------------------------------------------------------
(* The long poll *)

\* A worker with a free slot asks for tasks.
Poll(w) ==
    /\ poll[w].pc = "away" /\ Free(w) > 0
    /\ poll' = [poll EXCEPT ![w] = At("claiming", WaitTicks)]
    /\ UNCHANGED <<status, batch, paused, signalVars, locked, held, routing,
                   missed, troubles>>

Candidates(w) == {t \in routing[w] : Claimable(t)}

LockedByOthers(w) == UNION {locked[v] : v \in Waiters \ {w}}

\* SKIP LOCKED hides a row that another claim has locked.
Visible(w) == Candidates(w) \ LockedByOthers(w)

PassesBy(w) == Candidates(w) \cap LockedByOthers(w) # {}

\* A claim first locks every row it could take, not only those it will.
LockCandidates(w) ==
    /\ poll[w].pc = "claiming" /\ Visible(w) # {}
    /\ locked' = [locked EXCEPT ![w] = Visible(w)]
    /\ missed' = (missed \/ PassesBy(w))
    /\ poll' = [poll EXCEPT ![w] = At("choosing", @.left)]
    /\ UNCHANGED <<status, batch, paused, signalVars, held, routing, troubles>>

\* Then it takes as many tasks as there are and as fit, and commits.
TakeTasks(w, S) ==
    /\ poll[w].pc = "choosing" /\ S \subseteq locked[w]
    /\ Cardinality(S) = Smaller(Free(w), Cardinality(locked[w]))
    /\ status' = [t \in Tasks |-> IF t \in S THEN "running" ELSE status[t]]
    /\ held' = [held EXCEPT ![w] = @ \cup S]
    /\ locked' = [locked EXCEPT ![w] = {}]
    /\ poll' = [poll EXCEPT ![w] = Away]
    /\ UNCHANGED <<batch, paused, signalVars, routing, missed, troubles>>

\* Mutant: the loop does not look at its deadline.
WaitAgain(w) == At("waiting", poll[w].left)

\* A claim that found nothing waits, unless its deadline has passed.
AfterNothing(w) ==
    IF poll[w].left = 0 THEN Away ELSE At("waiting", poll[w].left)

ClaimNothing(w) ==
    /\ poll[w].pc = "claiming" /\ Visible(w) = {}
    /\ missed' = (missed \/ PassesBy(w))
    /\ poll' = [poll EXCEPT ![w] = AfterNothing(w)]
    /\ UNCHANGED <<status, batch, paused, signalVars, locked, held, routing,
                   troubles>>

\* A token wakes one waiter, whatever that can run.
Wake(w) ==
    /\ poll[w].pc = "waiting" /\ tokens > 0
    /\ tokens' = tokens - 1
    /\ poll' = [poll EXCEPT ![w] = At("claiming", @.left)]
    /\ UNCHANGED <<status, batch, paused, calls, listening, pass, locked, held,
                   routing, missed, troubles>>

\* Mutant: a wait without a timeout.
NeverOver(w) == FALSE

WaitOver(w) == poll[w].pc = "waiting" /\ poll[w].left = 0

\* wait_for gives up at the deadline; the loop claims once more.
WaitExpires(w) ==
    /\ WaitOver(w)
    /\ poll' = [poll EXCEPT ![w] = At("claiming", 0)]
    /\ UNCHANGED <<status, batch, paused, signalVars, locked, held, routing,
                   missed, troubles>>

Tick ==
    /\ \E w \in Waiters : poll[w].left > 0
    /\ poll' = [w \in Waiters |->
           At(poll[w].pc, IF poll[w].left = 0 THEN 0 ELSE poll[w].left - 1)]
    /\ UNCHANGED <<status, batch, paused, signalVars, locked, held, routing,
                   missed, troubles>>

-----------------------------------------------------------------------------
(* The ends of executions *)

Dropped(t) == [w \in Waiters |-> held[w] \ {t}]

Complete(t) ==
    /\ status[t] = "running"
    /\ status' = [status EXCEPT ![t] = "done"] /\ held' = Dropped(t)
    /\ UNCHANGED <<batch, paused, signalVars, poll, locked, routing, missed,
                   troubles>>

\* fail_task notifies when it sets the task back, not when it becomes due;
\* nothing in the process calls notify_local for it.
Fail(t) ==
    /\ status[t] = "running" /\ troubles < MaxTroubles
    /\ status' = [status EXCEPT ![t] = "delayed"] /\ held' = Dropped(t)
    /\ calls' = calls + Notified(1)
    /\ troubles' = troubles + 1
    /\ UNCHANGED <<batch, paused, tokens, listening, pass, poll, locked, routing,
                   missed>>

\* maintenance requeues a stale task without a notification.
Requeue(t) ==
    /\ status[t] = "running" /\ troubles < MaxTroubles
    /\ status' = [status EXCEPT ![t] = "delayed"] /\ held' = Dropped(t)
    /\ troubles' = troubles + 1
    /\ UNCHANGED <<batch, paused, signalVars, poll, locked, routing, missed>>

\* not_before is reached, and nobody is told.
BecomeDue(t) ==
    /\ status[t] = "delayed"
    /\ status' = [status EXCEPT ![t] = "due"]
    /\ missed' = TRUE
    /\ UNCHANGED <<batch, paused, signalVars, poll, locked, held, routing,
                   troubles>>

-----------------------------------------------------------------------------
Init ==
    /\ status = [t \in Tasks |-> "absent"]
    /\ batch = {} /\ paused = FALSE
    /\ tokens = 0 /\ calls = 0 /\ listening = FALSE /\ pass = NoPass
    /\ poll = [w \in Waiters |-> Away]
    /\ locked = [w \in Waiters |-> {}] /\ held = [w \in Waiters |-> {}]
    /\ routing \in Routings
    /\ missed = FALSE /\ troubles = 0

\* What a worker and the handler of its request do by themselves.
Proceed(w) ==
    \/ Poll(w) \/ LockCandidates(w) \/ ClaimNothing(w)
    \/ \E S \in SUBSET locked[w] : TakeTasks(w, S)
    \/ WaitExpires(w)

\* An execution ends.
End(t) == Complete(t) \/ Fail(t) \/ Requeue(t)

Next ==
    \/ \E S \in SUBSET Tasks : RegisterDue(S) \/ CreateBackfill(S)
    \/ NotifyLocal \/ PassFails
    \/ RegisterKnown \/ PauseBackfill \/ ResumeBackfill
    \/ \E n \in 1..calls : AddTokens(n)
    \/ Disconnect \/ Reconnect \/ Restart
    \/ Tick
    \/ \E w \in Waiters : Proceed(w) \/ Wake(w)
    \/ \E t \in Tasks : RegisterManual(t) \/ End(t) \/ BecomeDue(t)

\* Workers ask again and again, the handler of a request goes on, clocks run
\* and executions end.  Nothing is assumed of the notifications.
Fairness ==
    /\ WF_vars(Tick)
    /\ \A w \in Waiters : WF_vars(Proceed(w))
    /\ \A t \in Tasks : WF_vars(End(t))

Spec == Init /\ [][Next]_vars /\ Fairness

-----------------------------------------------------------------------------
(* What the signal promises *)

PollStates ==
    [pc: {"away", "claiming", "choosing", "waiting"}, left: 0..WaitTicks]

\* Every variable keeps its type; the queue of tokens keeps its capacity, the
\* workers hold exactly the running tasks, within their slots, and only the
\* claims that are choosing have rows locked, each row for one of them.
TypeOK ==
    /\ status \in [Tasks -> {"absent", "due", "delayed", "running", "done"}]
    /\ batch \subseteq Tasks /\ paused \in BOOLEAN
    /\ tokens \in 0..MaxTokens /\ listening \in BOOLEAN
    /\ calls \in Nat /\ pass \in [registered: Nat, notified: 0..1]
    /\ poll \in [Waiters -> PollStates]
    /\ held \in [Waiters -> SUBSET Tasks]
    /\ locked \in [Waiters -> SUBSET Tasks]
    /\ routing \in Routings
    /\ missed \in BOOLEAN /\ troubles \in 0..MaxTroubles
    /\ UNION {held[w] : w \in Waiters} = {t \in Tasks : status[t] = "running"}
    /\ \A w \in Waiters :
           /\ Free(w) >= 0
           /\ locked[w] # {} <=> poll[w].pc = "choosing"
           /\ locked[w] \subseteq {t \in Tasks : status[t] = "due"}
           /\ locked[w] \cap LockedByOthers(w) = {}

InPoll(pcs) == {w \in Waiters : poll[w].pc \in pcs}

\* Wakes that have been announced, or will be at the end of a pass, and have not
\* yet come to the end of a claim.
WakesUnderWay ==
    tokens + calls + pass.registered
    + Cardinality(InPoll({"claiming", "choosing"}))

Interchangeable == \A w \in Waiters : routing[w] = Tasks

\* As long as every worker can run every task and the queue has a place for every
\* worker, no worker sleeps beside a task: there are as many wakes under way as
\* there are tasks to be had or workers that wait for one, even if PostgreSQL
\* folds the notifications, or nobody listens.  Not so once two claims met, a
\* task became due again after a delay, several were resumed at once, or a pass
\* of the registrar broke off whose notification does not stand for all its
\* tasks (missed).
NoLostWakeup ==
    Interchangeable /\ ~missed /\ Cardinality(Waiters) <= MaxTokens
        => Smaller(Cardinality({t \in Tasks : Claimable(t)}),
                   Cardinality(InPoll({"waiting"}))) <= WakesUnderWay

\* A task that can be claimed is claimed in the end (or its batch is paused),
\* if every token is lost, tasks become due unannounced and claims hide rows
\* from each other: the waits expire.
TaskIsServed == \A t \in Tasks : []<>~Claimable(t)

\* Every claim request is answered, however many wakes come in vain.
PollsAreAnswered == \A w \in Waiters : []<>(poll[w].pc = "away")
=============================================================================
