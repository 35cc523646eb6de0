------------------------------- MODULE Worker -------------------------------
(***************************************************************************)
(* One worker node: the loop of WorkerRuntime (services/worker,            *)
(* runtime.py), the child processes it starts and its requests to the      *)
(* controller, which keeps the tasks as LeaseProtocol promises.            *)
(*                                                                         *)
(* The loop polls its children, sends a heartbeat when one is due, claims  *)
(* tasks when it has room, and decides whether to leave.  Signals, time    *)
(* limits, the registrar, the operator and the other nodes act at any      *)
(* moment in between.  A request may be lost before the controller sees    *)
(* it, or its answer on the way back.                                      *)
(***************************************************************************)
EXTENDS LeaseProtocol, FiniteSets

CONSTANTS
    NULL,
    Cost,               \* the slot_cost of each task
    Concurrency,        \* settings.concurrency
    HeartbeatsArrive,   \* no heartbeat is missing for task_stale_seconds
    OperatorStates,     \* what the node's desired state may become
    MaxClaims           \* bounds the claims of each task

VARIABLES
    pc,                 \* where the loop is
    visiting,           \* the entries poll_children has still to visit
    running,            \* self.running: task id -> lease token
    children,           \* child processes, by task and token, not yet reaped
    stop, desired_state,
    inbox,              \* a claim's answer on its way, or NULL
    node_state          \* the controller's desired_state for this node

workerVars == <<pc, visiting, running, children, stop,
                desired_state, inbox, node_state>>
vars == <<protocolVars, workerVars>>

ASSUME WorkerAssumption ==
    /\ Cost \in [TaskIds -> Nat \ {0}]
    /\ Concurrency \in Nat \ {0}
    /\ HeartbeatsArrive \in BOOLEAN
    /\ OperatorStates \subseteq {"online", "draining", "disabled", "replaced"}
    /\ MaxClaims \in Nat
    /\ NULL \notin Int

ChildOf(t) == [task |-> t, token |-> running[t]]
Alive == {c \in DOMAIN children : children[c] \in {"alive", "late"}}
Slots(ts) == Cardinality(UNION {{t} \X (1..Cost[t]) : t \in ts})

\* Mutant: the slots in use are not subtracted.
WholeConcurrency == Concurrency

\* free = settings.concurrency - used_slots()
Free == Concurrency - Slots(DOMAIN running)

Without(f, t) == [u \in DOMAIN f \ {t} |-> f[u]]

-----------------------------------------------------------------------------
(* poll_children *)

\* The controller's answer to a report of child c: it applies to the task if
\* the child still holds the lease, and whether the answer arrives or not the
\* worker forgets the child.  A failure puts the task back or ends it.
Report(c, success) ==
    \/ UNCHANGED protocolVars
    \/ /\ phase[c.task] = "leased" /\ claims[c.task] = c.token
       /\ \/ End(c.task)
          \/ ~success /\ Release({c.task})

\* Mutant: the entry of a child that is gone stays.
Kept(t) == running

\* self.running.pop(task_id)
Forgotten(t) == Without(running, t)

\* Mutant: the time limit is never looked at.
NeverLate(c) == FALSE

Late(c) == children[c] = "late"

Visit(t) == /\ pc = "poll" /\ t \in visiting
            /\ visiting' = visiting \ {t}

\* Alive and within its time: left alone.
SkipChild(t) ==
    /\ Visit(t)
    /\ ChildOf(t) \in Alive /\ ~Late(ChildOf(t))
    /\ UNCHANGED <<protocolVars, pc, running, children, stop,
                   desired_state, inbox, node_state>>

\* Mutant: a child is reported as timed out and left alive.
Abandoned(c) == children

\* terminate, and kill if that was not enough
Killed(c) == Without(children, c)

\* Alive beyond its time: terminated and reported as a timeout.
TimeOutChild(t) ==
    LET c == ChildOf(t) IN
    /\ Visit(t)
    /\ c \in Alive /\ Late(c)
    /\ children' = Killed(c)
    /\ Report(c, FALSE)
    /\ running' = Forgotten(t)
    /\ UNCHANGED <<pc, stop, desired_state, inbox, node_state>>

\* Gone: its result is read from the queue, or its absence is reported.
ReapChild(t) ==
    LET c == ChildOf(t) IN
    /\ Visit(t)
    /\ c \notin Alive
    /\ children' = Without(children, c)
    /\ Report(c, children[c] = "succeeded")
    /\ running' = Forgotten(t)
    /\ UNCHANGED <<pc, stop, desired_state, inbox, node_state>>

PollDone ==
    /\ pc = "poll" /\ visiting = {}
    /\ pc' = "heartbeat"
    /\ UNCHANGED <<protocolVars, visiting, running, children, stop,
                   desired_state, inbox, node_state>>

-----------------------------------------------------------------------------
(* Heartbeats *)

\* Mutant: the heartbeat lists nothing.
Nothing == {}

\* The executions a heartbeat lists, whose leases it renews.
Listed == {ChildOf(t) : t \in DOMAIN running}

\* Not due yet, lost on its way, or its answer lost on the way back.
HeartbeatUnanswered ==
    /\ pc = "heartbeat"
    /\ pc' = "claim"
    /\ UNCHANGED <<protocolVars, visiting, running, children, stop,
                   desired_state, inbox, node_state>>

\* The answer replaces desired_state, even one a signal has set.
HeartbeatAnswered ==
    /\ pc = "heartbeat"
    /\ pc' = "claim"
    /\ desired_state' = node_state
    /\ UNCHANGED <<protocolVars, visiting, running, children, stop,
                   inbox, node_state>>

-----------------------------------------------------------------------------
(* Claims *)

\* A claim is sent while there is room and nobody asked the worker to stop.
SendClaim ==
    /\ pc = "claim"
    /\ pc' = IF ~stop /\ desired_state = "online" /\ Free > 0
             THEN "claiming" ELSE "check"
    /\ UNCHANGED <<protocolVars, visiting, running, children, stop,
                   desired_state, inbox, node_state>>

\* The controller answers: it leases what it chooses of what fits to a node
\* that is online, and nothing to any other.
AnswerClaim(ts) ==
    /\ pc = "claiming" /\ inbox = NULL
    /\ node_state # "online" => ts = {}
    /\ IsFiniteSet(ts) /\ Slots(ts) <= Free
    /\ \A t \in ts : claims[t] < MaxClaims
    /\ Lease(ts)
    /\ inbox' = [tasks |-> [t \in ts |-> claims[t] + 1], state |-> node_state]
    /\ UNCHANGED <<pc, visiting, running, children, stop,
                   desired_state, node_state>>

\* self.running[task.id] = RunningTask(...): a child for each task of ts, in
\* place of whatever the entry held before.
Start(ts) ==
    LET child(t) == [task |-> t, token |-> inbox.tasks[t]]
        new == {child(t) : t \in ts}
    IN  /\ children' = [c \in DOMAIN children \cup new |->
                            IF c \in new THEN "alive" ELSE children[c]]
        /\ running' = [t \in DOMAIN running \cup ts |->
                           IF t \in ts THEN inbox.tasks[t] ELSE running[t]]

\* The answer arrives.  Starting a process may fail, and then the tasks after
\* it are not started either: ts are those that were.
ReceiveClaim(ts) ==
    /\ pc = "claiming" /\ inbox # NULL
    /\ ts \subseteq DOMAIN inbox.tasks
    /\ Start(ts)
    /\ desired_state' = inbox.state
    /\ inbox' = NULL
    /\ pc' = "check"
    /\ UNCHANGED <<protocolVars, visiting, stop, node_state>>

\* The request fails or times out, with or without an answer on its way.
LoseClaim ==
    /\ pc = "claiming"
    /\ inbox' = NULL
    /\ pc' = "check"
    /\ UNCHANGED <<protocolVars, visiting, running, children, stop,
                   desired_state, node_state>>

\* Mutant: only the desired state ends the loop.
LeavesWhenTold ==
    /\ DOMAIN running = {}
    /\ desired_state \in {"draining", "disabled", "replaced"}

\* Nothing runs, and a signal or the controller asked the worker to leave.
Leaves ==
    /\ DOMAIN running = {}
    /\ stop \/ desired_state \in {"draining", "disabled", "replaced"}

\* The end of the loop's body and the test at its head.
CheckLoop ==
    /\ pc = "check"
    /\ IF Leaves
       THEN pc' = "exited" /\ UNCHANGED visiting
       ELSE pc' = "poll" /\ visiting' = DOMAIN running
    /\ UNCHANGED <<protocolVars, running, children, stop,
                   desired_state, inbox, node_state>>

-----------------------------------------------------------------------------
(* Around the loop *)

Up == pc \notin {"exited", "down"}

\* SIGTERM or SIGINT: request_stop runs between two steps of the loop.
RequestStop ==
    /\ Up /\ ~stop
    /\ stop' = TRUE /\ desired_state' = "draining"
    /\ UNCHANGED <<protocolVars, pc, visiting, running, children,
                   inbox, node_state>>

\* The container dies, with every process in it.
Crash ==
    /\ Up
    /\ pc' = "down"
    /\ running' = [t \in {} |-> 0] /\ visiting' = {}
    /\ children' = [c \in {} |-> "alive"]
    /\ inbox' = NULL
    /\ UNCHANGED <<protocolVars, stop, desired_state, node_state>>

\* The process starts (again), unless the controller refuses the node; the one
\* before it has waited for its children to end.
StartWorker ==
    /\ ~Up /\ Alive = {} /\ node_state # "disabled"
    /\ pc' = "poll" /\ visiting' = {}
    /\ stop' = FALSE /\ desired_state' = "online"
    /\ UNCHANGED <<protocolVars, running, children, inbox, node_state>>

\* A child ends by itself: with a report, with an error, or without a word.
ChildExits(c, outcome) ==
    /\ c \in Alive
    /\ children' = [children EXCEPT ![c] = outcome]
    /\ UNCHANGED <<protocolVars, pc, visiting, running, stop, desired_state,
                   inbox, node_state>>

\* execution_timeout_seconds pass.
TimePasses(c) ==
    /\ children[c] = "alive"
    /\ children' = [children EXCEPT ![c] = "late"]
    /\ UNCHANGED <<protocolVars, pc, visiting, running, stop, desired_state,
                   inbox, node_state>>

SetNodeState(state) ==
    /\ node_state # "replaced"
    /\ node_state' = state
    /\ UNCHANGED <<protocolVars, pc, visiting, running, children,
                   stop, desired_state, inbox>>

InFlight == IF inbox = NULL THEN {} ELSE DOMAIN inbox.tasks

\* maintenance requeues a task whose heartbeat is missing: never one this
\* worker lists, or is just being given, if its heartbeats arrive.
Requeue(t) ==
    /\ HeartbeatsArrive =>
           [task |-> t, token |-> claims[t]] \notin Listed /\ t \notin InFlight
    /\ Release({t})
    /\ UNCHANGED workerVars

\* Another node claims a task, or this node's claim is answered after it gave
\* up waiting.
LeaseElsewhere(t) ==
    /\ claims[t] < MaxClaims
    /\ Lease({t})
    /\ UNCHANGED workerVars

\* Another node reports on a task that it holds, or a report arrives that
\* this worker no longer waits for.
ReportElsewhere(t) ==
    LET c == [task |-> t, token |-> claims[t]] IN
    /\ c \notin DOMAIN children /\ t \notin InFlight
    /\ End(t) \/ Release({t})
    /\ UNCHANGED workerVars

-----------------------------------------------------------------------------
Init ==
    /\ phase = [t \in TaskIds |-> "waiting"]
    /\ claims = [t \in TaskIds |-> 0] /\ ended_by = [t \in TaskIds |-> 0]
    /\ pc = "down" /\ visiting = {} /\ running = [t \in {} |-> 0]
    /\ children = [c \in {} |-> "alive"]
    /\ stop = FALSE /\ desired_state = "online" /\ inbox = NULL
    /\ node_state = "online"

Loop ==
    \/ \E t \in TaskIds : SkipChild(t) \/ TimeOutChild(t) \/ ReapChild(t)
    \/ PollDone
    \/ HeartbeatUnanswered \/ HeartbeatAnswered
    \/ SendClaim
    \/ \E ts \in SUBSET TaskIds : ReceiveClaim(ts)
    \/ LoseClaim
    \/ CheckLoop

Next ==
    \/ Loop
    \/ \E ts \in SUBSET TaskIds : AnswerClaim(ts)
    \/ RequestStop \/ Crash \/ StartWorker
    \/ \E c \in DOMAIN children :
           TimePasses(c) \/ \E o \in {"succeeded", "failed"} : ChildExits(c, o)
    \/ \E state \in OperatorStates : SetNodeState(state)
    \/ \E t \in TaskIds : Requeue(t) \/ LeaseElsewhere(t) \/ ReportElsewhere(t)

\* The loop runs on: its requests have timeouts and its waits are short.  Time
\* passes for every child, and the registrar finds every stale task.
Fairness ==
    /\ WF_vars(Loop)
    /\ \A t \in TaskIds, k \in 1..MaxClaims :
           WF_vars([task |-> t, token |-> k] \in DOMAIN children
                   /\ TimePasses([task |-> t, token |-> k]))
    /\ \A t \in TaskIds : WF_vars(Requeue(t))

Spec == Init /\ [][Next]_vars /\ Fairness

-----------------------------------------------------------------------------
(* What the worker promises *)

\* Every variable keeps its type; the entries of running and the processes
\* they stand for go together.
TypeOK ==
    /\ phase \in [TaskIds -> Phases]
    /\ claims \in [TaskIds -> Nat] /\ ended_by \in [TaskIds -> Nat]
    /\ pc \in {"poll", "heartbeat", "claim", "claiming", "check", "exited", "down"}
    /\ DOMAIN running \subseteq TaskIds
    /\ \A t \in DOMAIN running : running[t] \in Nat \ {0}
    /\ visiting \subseteq DOMAIN running
    /\ DOMAIN children \subseteq [task: TaskIds, token: Nat \ {0}]
    /\ \A c \in DOMAIN children :
           children[c] \in {"alive", "late", "succeeded", "failed"}
    /\ \A t \in DOMAIN running : ChildOf(t) \in DOMAIN children
    /\ stop \in BOOLEAN
    /\ desired_state \in {"online", "draining", "disabled", "replaced"}
    /\ node_state \in {"online", "draining", "disabled", "replaced"}
    /\ inbox # NULL => /\ DOMAIN inbox.tasks \subseteq TaskIds
                       /\ inbox.state \in {"online", "draining", "disabled", "replaced"}

\* Every child process has an entry in self.running, and so its time limit,
\* its slot and a reader of its result, until it ends.
ChildrenAreSupervised ==
    \A c \in Alive : c.task \in DOMAIN running /\ running[c.task] = c.token

\* The children that run never use more slots than the node has.
ConcurrencyRespected ==
    Cardinality(UNION {{c} \X (1..Cost[c.task]) : c \in Alive}) <= Concurrency

\* A task is never executed twice at a time, here or elsewhere: who executes
\* it holds its lease.
ExecutionsHoldTheirLeases ==
    \A c \in Alive : phase[c.task] = "leased" /\ claims[c.task] = c.token

\* Asked to stop, the worker ends: no child outlives its time limit, and
\* neither an answer in flight nor a heartbeat makes it start over.
StopsWhenAsked == stop ~> ~Up

\* No task stays leased for ever: it is reported, or its lease is taken back,
\* whichever request was lost and whoever died.
NoLeaseIsForever ==
    \A t \in TaskIds : phase[t] = "leased" ~> phase[t] # "leased"
=============================================================================
