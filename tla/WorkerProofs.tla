---------------------------- MODULE WorkerProofs ----------------------------
(***************************************************************************)
(* Proofs about Worker: types, and that while heartbeats arrive no child   *)
(* escapes its supervision, no task is executed twice and no more slots    *)
(* are used than there are, for any tasks, costs, concurrency and number   *)
(* of claims.                                                              *)
(***************************************************************************)
EXTENDS Worker, FiniteSetTheorems, TLAPS

NodeStates == {"online", "draining", "disabled", "replaced"}

-----------------------------------------------------------------------------
(* Types *)

ProtocolTyped ==
    /\ phase \in [TaskIds -> Phases]
    /\ claims \in [TaskIds -> Nat] /\ ended_by \in [TaskIds -> Nat]

ProcessTyped ==
    /\ pc \in {"poll", "heartbeat", "claim", "claiming", "check", "exited", "down"}
    /\ desired_state \in NodeStates /\ node_state \in NodeStates

ChildrenTyped ==
    /\ DOMAIN running \subseteq TaskIds
    /\ \A t \in DOMAIN running : running[t] \in Nat \ {0}
    /\ visiting \subseteq DOMAIN running
    /\ DOMAIN children \subseteq [task: TaskIds, token: Nat \ {0}]
    /\ \A c \in DOMAIN children :
           children[c] \in {"alive", "late", "succeeded", "failed"}
    /\ \A t \in DOMAIN running : ChildOf(t) \in DOMAIN children

\* An answer gives tokens, too.
InboxTyped ==
    inbox # NULL => /\ DOMAIN inbox.tasks \subseteq TaskIds
                    /\ inbox.state \in NodeStates
                    /\ \A t \in DOMAIN inbox.tasks : inbox.tasks[t] \in Nat \ {0}

TypeInv ==
    /\ ProtocolTyped /\ ProcessTyped /\ ChildrenTyped /\ InboxTyped
    /\ stop \in BOOLEAN

LEMMA TypesSuffice == TypeInv => TypeOK
  BY DEF TypeInv, TypeOK, ProtocolTyped, ProcessTyped, ChildrenTyped, InboxTyped,
         NodeStates

\* A step of the worker is one of the protocol for the tasks, or none.
LEMMA StepsFollowProtocol ==
    ASSUME [Next]_vars
    PROVE  [ProtocolNext]_protocolVars
<1>1. ASSUME NEW t \in TaskIds, TimeOutChild(t) \/ ReapChild(t)
      PROVE  [ProtocolNext]_protocolVars
  <2>1. PICK success \in BOOLEAN : Report(ChildOf(t), success)
    BY <1>1 DEF TimeOutChild, ReapChild
  <2>2. ChildOf(t).task = t
    BY DEF ChildOf
  <2> QED
    BY <2>1, <2>2 DEF Report, ProtocolNext
<1>2. ASSUME NEW ts \in SUBSET TaskIds, AnswerClaim(ts)
      PROVE  [ProtocolNext]_protocolVars
  BY <1>2 DEF AnswerClaim, ProtocolNext
<1>3. ASSUME NEW t \in TaskIds, Requeue(t) \/ LeaseElsewhere(t) \/ ReportElsewhere(t)
      PROVE  [ProtocolNext]_protocolVars
  BY <1>3 DEF Requeue, LeaseElsewhere, ReportElsewhere, ProtocolNext
<1>4. ASSUME NEW t \in TaskIds, SkipChild(t) PROVE UNCHANGED protocolVars
  BY <1>4 DEF SkipChild
<1>5. ASSUME NEW ts \in SUBSET TaskIds, ReceiveClaim(ts)
      PROVE  UNCHANGED protocolVars
  BY <1>5 DEF ReceiveClaim
<1>6. CASE \/ PollDone \/ HeartbeatUnanswered \/ HeartbeatAnswered \/ SendClaim
           \/ LoseClaim \/ CheckLoop \/ RequestStop \/ Crash \/ StartWorker
           \/ UNCHANGED vars
  BY <1>6 DEF PollDone, HeartbeatUnanswered, HeartbeatAnswered, SendClaim,
              LoseClaim, CheckLoop, RequestStop, Crash, StartWorker, vars
<1>7. ASSUME NEW c \in DOMAIN children, NEW o \in {"succeeded", "failed"},
             TimePasses(c) \/ ChildExits(c, o)
      PROVE  UNCHANGED protocolVars
  BY <1>7 DEF TimePasses, ChildExits
<1>8. ASSUME NEW state \in OperatorStates, SetNodeState(state)
      PROVE  UNCHANGED protocolVars
  BY <1>8 DEF SetNodeState
<1> QED
  BY <1>1, <1>2, <1>3, <1>4, <1>5, <1>6, <1>7, <1>8 DEF Next, Loop

LEMMA ProtocolStaysTyped ==
    ASSUME TypeInv, [Next]_vars
    PROVE  ProtocolTyped'
<1> USE DEF ProtocolTyped, Phases
<1>0. ProtocolTyped
  BY DEF TypeInv
<1>1. ASSUME NEW ts \in SUBSET TaskIds, Register(ts) \/ Withdraw(ts)
      PROVE  ProtocolTyped'
  BY <1>0, <1>1 DEF Register, Withdraw, Move
<1>2. ASSUME NEW ts \in SUBSET TaskIds, Lease(ts) PROVE ProtocolTyped'
  BY <1>0, <1>2 DEF Lease, Move
<1>3. ASSUME NEW ts \in SUBSET TaskIds, Release(ts) PROVE ProtocolTyped'
  BY <1>0, <1>3 DEF Release, Move
<1>4. ASSUME NEW t \in TaskIds, End(t) PROVE ProtocolTyped'
  BY <1>0, <1>4 DEF End, Move
<1>5. CASE UNCHANGED protocolVars
  BY <1>0, <1>5 DEF protocolVars
<1> QED
  BY <1>1, <1>2, <1>3, <1>4, <1>5, StepsFollowProtocol DEF ProtocolNext

LEMMA ProcessStaysTyped ==
    ASSUME TypeInv, [Next]_vars
    PROVE  ProcessTyped'
<1> USE WorkerAssumption DEF WorkerAssumption, ProcessTyped, NodeStates
<1>0. ProcessTyped
  BY DEF TypeInv
<1>1. ASSUME NEW t \in TaskIds, SkipChild(t) \/ TimeOutChild(t) \/ ReapChild(t)
      PROVE  ProcessTyped'
  BY <1>0, <1>1 DEF SkipChild, TimeOutChild, ReapChild
<1>2. CASE \/ PollDone \/ HeartbeatUnanswered \/ HeartbeatAnswered \/ SendClaim
           \/ LoseClaim \/ CheckLoop
  BY <1>0, <1>2 DEF PollDone, HeartbeatUnanswered, HeartbeatAnswered, SendClaim,
                    LoseClaim, CheckLoop
<1>3. CASE RequestStop \/ Crash \/ StartWorker \/ UNCHANGED vars
  BY <1>0, <1>3 DEF RequestStop, Crash, StartWorker, vars, workerVars
<1>4. ASSUME NEW ts \in SUBSET TaskIds, ReceiveClaim(ts) \/ AnswerClaim(ts)
      PROVE  ProcessTyped'
  BY <1>0, <1>4 DEF ReceiveClaim, AnswerClaim, TypeInv, InboxTyped
<1>5. ASSUME NEW c \in DOMAIN children, NEW o \in {"succeeded", "failed"},
             TimePasses(c) \/ ChildExits(c, o)
      PROVE  ProcessTyped'
  BY <1>0, <1>5 DEF TimePasses, ChildExits
<1>6. ASSUME NEW state \in OperatorStates, SetNodeState(state)
      PROVE  ProcessTyped'
  BY <1>0, <1>6 DEF SetNodeState
<1>7. ASSUME NEW t \in TaskIds, Requeue(t) \/ LeaseElsewhere(t) \/ ReportElsewhere(t)
      PROVE  ProcessTyped'
  BY <1>0, <1>7 DEF Requeue, LeaseElsewhere, ReportElsewhere, workerVars
<1> QED
  BY <1>1, <1>2, <1>3, <1>4, <1>5, <1>6, <1>7 DEF Next, Loop

LEMMA StopStaysTyped ==
    ASSUME TypeInv, [Next]_vars
    PROVE  stop' \in BOOLEAN
<1>1. stop \in BOOLEAN
  BY Zenon DEF TypeInv
<1>2. stop' = stop \/ stop' = TRUE \/ stop' = FALSE
  BY Zenon
     DEF Next, Loop, SkipChild, TimeOutChild, ReapChild, PollDone,
         HeartbeatUnanswered, HeartbeatAnswered, SendClaim, LoseClaim, CheckLoop,
         RequestStop, Crash, StartWorker, ReceiveClaim, AnswerClaim, TimePasses,
         ChildExits, SetNodeState, Requeue, LeaseElsewhere, ReportElsewhere, vars,
         workerVars
<1> QED
  BY <1>1, <1>2, Zenon

\* A child that is gone or killed leaves with its entry.
LEMMA ForgettingTyped ==
    ASSUME ChildrenTyped, NEW t \in DOMAIN running,
           visiting' = visiting \ {t}, running' = Without(running, t),
           children' = Without(children, ChildOf(t))
    PROVE  ChildrenTyped'
  BY DEF ChildrenTyped, Without, ChildOf

\* Children start with their entries.
LEMMA StartingTyped ==
    ASSUME ChildrenTyped, InboxTyped, inbox # NULL,
           NEW ts \in SUBSET (DOMAIN inbox.tasks), Start(ts), visiting' = visiting
    PROVE  ChildrenTyped'
<1>1. ts \subseteq TaskIds /\ \A t \in ts : inbox.tasks[t] \in Nat \ {0}
  BY DEF InboxTyped
<1> DEFINE child(t) == [task |-> t, token |-> inbox.tasks[t]]
           new == {child(t) : t \in ts}
<1>2. /\ children' = [c \in DOMAIN children \cup new |->
                          IF c \in new THEN "alive" ELSE children[c]]
      /\ running' = [t \in DOMAIN running \cup ts |->
                         IF t \in ts THEN inbox.tasks[t] ELSE running[t]]
  BY DEF Start
<1>3. new \subseteq [task: TaskIds, token: Nat \ {0}]
  BY <1>1
<1>4. \A t \in DOMAIN running' : ChildOf(t)' \in DOMAIN children'
  BY <1>2 DEF ChildrenTyped, ChildOf
<1> HIDE DEF new
<1> QED
  BY <1>1, <1>2, <1>3, <1>4 DEF ChildrenTyped

LEMMA ChildrenStayTyped ==
    ASSUME TypeInv, [Next]_vars
    PROVE  ChildrenTyped'
<1>0. ChildrenTyped /\ InboxTyped
  BY DEF TypeInv
<1>1. ASSUME NEW t \in TaskIds, TimeOutChild(t) \/ ReapChild(t)
      PROVE  ChildrenTyped'
  BY <1>0, <1>1, ForgettingTyped
     DEF TimeOutChild, ReapChild, Visit, Killed, Forgotten, ChildrenTyped
<1>2. ASSUME NEW t \in TaskIds, SkipChild(t) PROVE ChildrenTyped'
  BY <1>0, <1>2 DEF SkipChild, Visit, ChildrenTyped, ChildOf
<1>3. CASE UNCHANGED <<visiting, running, children>>
  BY <1>0, <1>3 DEF ChildrenTyped, ChildOf
<1>4. CASE CheckLoop
  BY <1>0, <1>4 DEF CheckLoop, ChildrenTyped, ChildOf
<1>5. ASSUME NEW ts \in SUBSET TaskIds, ReceiveClaim(ts) PROVE ChildrenTyped'
  BY <1>0, <1>5, StartingTyped DEF ReceiveClaim
<1>6. CASE Crash
  BY <1>6 DEF Crash, ChildrenTyped
<1>7. CASE StartWorker
  BY <1>0, <1>7 DEF StartWorker, ChildrenTyped, ChildOf
<1>8. ASSUME NEW c \in DOMAIN children, NEW o \in {"succeeded", "failed"},
             TimePasses(c) \/ ChildExits(c, o)
      PROVE  ChildrenTyped'
  BY <1>0, <1>8 DEF TimePasses, ChildExits, ChildrenTyped, ChildOf
<1>9. CASE \/ PollDone \/ HeartbeatUnanswered \/ HeartbeatAnswered \/ SendClaim
           \/ LoseClaim \/ RequestStop \/ UNCHANGED vars
  BY <1>3, <1>9 DEF PollDone, HeartbeatUnanswered, HeartbeatAnswered, SendClaim,
                    LoseClaim, RequestStop, vars, workerVars
<1>10. ASSUME NEW ts \in SUBSET TaskIds, AnswerClaim(ts) PROVE ChildrenTyped'
  BY <1>3, <1>10 DEF AnswerClaim
<1>11. ASSUME NEW state \in OperatorStates, SetNodeState(state)
       PROVE  ChildrenTyped'
  BY <1>3, <1>11 DEF SetNodeState
<1>12. ASSUME NEW t \in TaskIds,
              Requeue(t) \/ LeaseElsewhere(t) \/ ReportElsewhere(t)
       PROVE  ChildrenTyped'
  BY <1>3, <1>12 DEF Requeue, LeaseElsewhere, ReportElsewhere, workerVars
<1> QED
  BY <1>1, <1>2, <1>4, <1>5, <1>6, <1>7, <1>8, <1>9, <1>10, <1>11, <1>12
     DEF Next, Loop

LEMMA InboxStaysTyped ==
    ASSUME TypeInv, [Next]_vars
    PROVE  InboxTyped'
<1>0. InboxTyped /\ ProtocolTyped /\ ProcessTyped
  BY DEF TypeInv
<1>1. CASE inbox' = inbox
  BY <1>0, <1>1 DEF InboxTyped
<1>2. CASE inbox' = NULL
  BY <1>2 DEF InboxTyped
<1>3. ASSUME NEW ts \in SUBSET TaskIds, AnswerClaim(ts) PROVE InboxTyped'
  <2>1. inbox' = [tasks |-> [t \in ts |-> claims[t] + 1], state |-> node_state]
    BY <1>3 DEF AnswerClaim
  <2>2. \A t \in ts : claims[t] \in Nat
    BY <1>0 DEF ProtocolTyped
  <2> QED
    BY <1>0, <2>1, <2>2 DEF InboxTyped, ProcessTyped
<1>4. CASE \E ts \in SUBSET TaskIds : AnswerClaim(ts)
  BY <1>3, <1>4
<1>5. CASE ~\E ts \in SUBSET TaskIds : AnswerClaim(ts)
  <2>1. inbox' = inbox \/ inbox' = NULL
    BY <1>5
       DEF Next, Loop, SkipChild, TimeOutChild, ReapChild, PollDone,
           HeartbeatUnanswered, HeartbeatAnswered, SendClaim, LoseClaim, CheckLoop,
           RequestStop, Crash, StartWorker, ReceiveClaim, TimePasses, ChildExits,
           SetNodeState, Requeue, LeaseElsewhere, ReportElsewhere, vars, workerVars
  <2> QED
    BY <1>1, <1>2, <2>1
<1> QED
  BY <1>4, <1>5

LEMMA TypesHoldAtFirst == Init => TypeInv
<1> SUFFICES ASSUME Init PROVE TypeInv
  OBVIOUS
<1>1. ProtocolTyped /\ ProcessTyped
  BY DEF Init, ProtocolTyped, ProcessTyped, Phases, NodeStates
<1>2. ChildrenTyped /\ InboxTyped
  BY DEF Init, ChildrenTyped, InboxTyped
<1>3. stop \in BOOLEAN
  BY Zenon DEF Init
<1> QED
  BY <1>1, <1>2, <1>3, Zenon DEF TypeInv

LEMMA TypesStay == TypeInv /\ [Next]_vars => TypeInv'
  BY ProtocolStaysTyped, ProcessStaysTyped, ChildrenStayTyped, InboxStaysTyped,
     StopStaysTyped, Zenon DEF TypeInv

\* Every variable of Worker keeps its type, heartbeats or not: each entry of
\* self.running stands for a process, for any tasks and any concurrency.
THEOREM TypeCorrect == Spec => []TypeOK
  BY TypesHoldAtFirst, TypesStay, TypesSuffice, PTL DEF Spec

-----------------------------------------------------------------------------
(* Supervision *)

\* Every process, ended or not, is one that self.running knows.
Supervised == \A c \in DOMAIN children : c.task \in DOMAIN running /\ c = ChildOf(c.task)

\* An entry holds the lease of its task, also when its process has ended.
EntriesHold ==
    \A t \in DOMAIN running : phase[t] = "leased" /\ claims[t] = running[t]

\* What an answer on its way gives is leased to it, and to no process here.
AnswersHold ==
    inbox # NULL =>
        \A t \in DOMAIN inbox.tasks : /\ phase[t] = "leased"
                                      /\ claims[t] = inbox.tasks[t]
                                      /\ t \notin DOMAIN running

HoldInv == Supervised /\ EntriesHold /\ AnswersHold

IInv == TypeInv /\ HoldInv

\* Nothing happens to the tasks that are executed or given here.
Untouched ==
    \A t \in DOMAIN running \cup InFlight :
        phase'[t] = phase[t] /\ claims'[t] = claims[t]

LEMMA UntouchedHold ==
    ASSUME IInv, Untouched, UNCHANGED <<running, inbox>>, DOMAIN children' = DOMAIN children
    PROVE  HoldInv'
  BY DEF IInv, HoldInv, TypeInv, ChildrenTyped, InboxTyped, Untouched, InFlight,
         Supervised, EntriesHold, AnswersHold, ChildOf

\* A report ends or puts back the task of its own child and no other.
LEMMA ReportedOnly ==
    ASSUME ProtocolTyped, NEW c, c.task \in TaskIds, NEW success \in BOOLEAN,
           Report(c, success), NEW t \in TaskIds, t # c.task
    PROVE  phase'[t] = phase[t] /\ claims'[t] = claims[t]
  BY DEF Report, End, Release, Move, ProtocolTyped, protocolVars

LEMMA ForgettingHolds ==
    ASSUME IInv, NEW t \in DOMAIN running, NEW success \in BOOLEAN,
           Report(ChildOf(t), success), inbox' = inbox,
           running' = Without(running, t),
           children' = Without(children, ChildOf(t))
    PROVE  HoldInv'
<1>1. /\ ProtocolTyped /\ ChildrenTyped /\ InboxTyped
      /\ Supervised /\ EntriesHold /\ AnswersHold
  BY DEF IInv, TypeInv, HoldInv
<1>2. \A u \in TaskIds \ {t} : phase'[u] = phase[u] /\ claims'[u] = claims[u]
  <2>1. ChildOf(t).task = t /\ t \in TaskIds
    BY <1>1 DEF ChildOf, ChildrenTyped
  <2> QED
    BY <1>1, <2>1, ReportedOnly
<1>3. DOMAIN running' = DOMAIN running \ {t}
      /\ \A u \in DOMAIN running' : running'[u] = running[u]
  BY DEF Without
<1>4. Supervised'
  <2>1. ASSUME NEW c \in DOMAIN children'
        PROVE  c.task \in DOMAIN running' /\ c = ChildOf(c.task)'
    <3>1. c \in DOMAIN children /\ c # ChildOf(t)
      BY DEF Without
    <3>2. c.task \in DOMAIN running /\ c = ChildOf(c.task)
      BY <1>1, <3>1 DEF Supervised
    <3>3. c.task # t
      BY <3>1, <3>2
    <3> QED
      BY <1>3, <3>2, <3>3 DEF ChildOf
  <2> QED
    BY <2>1 DEF Supervised
<1>5. EntriesHold'
  BY <1>1, <1>2, <1>3 DEF EntriesHold, ChildrenTyped
<1>6. AnswersHold'
  BY <1>1, <1>2, <1>3 DEF AnswersHold, InboxTyped
<1> QED
  BY <1>4, <1>5, <1>6 DEF HoldInv

LEMMA ReceivingHolds ==
    ASSUME IInv, NEW ts \in SUBSET TaskIds, ReceiveClaim(ts)
    PROVE  HoldInv'
<1>1. /\ ProtocolTyped /\ ChildrenTyped /\ InboxTyped
      /\ Supervised /\ EntriesHold /\ AnswersHold
  BY DEF IInv, TypeInv, HoldInv
<1> DEFINE child(t) == [task |-> t, token |-> inbox.tasks[t]]
           new == {child(t) : t \in ts}
<1>2. /\ DOMAIN children' = DOMAIN children \cup new
      /\ DOMAIN running' = DOMAIN running \cup ts
      /\ \A t \in DOMAIN running' :
             running'[t] = IF t \in ts THEN inbox.tasks[t] ELSE running[t]
      /\ inbox # NULL /\ ts \subseteq DOMAIN inbox.tasks
      /\ UNCHANGED <<phase, claims>> /\ inbox' = NULL
  BY DEF ReceiveClaim, Start, protocolVars
<1>3. ts \cap DOMAIN running = {}
  BY <1>1, <1>2 DEF AnswersHold
<1>4. Supervised'
  <2>1. ASSUME NEW c \in DOMAIN children'
        PROVE  c.task \in DOMAIN running' /\ c = ChildOf(c.task)'
    <3>1. CASE c \in DOMAIN children
      <4>1. c.task \in DOMAIN running /\ c = ChildOf(c.task)
        BY <1>1, <3>1 DEF Supervised
      <4> HIDE DEF new
      <4> QED
        BY <1>2, <1>3, <4>1 DEF ChildOf
    <3>2. CASE c \in new
      <4>1. PICK t \in ts : c = [task |-> t, token |-> inbox.tasks[t]]
        BY <3>2
      <4> HIDE DEF new
      <4> QED
        BY <1>2, <4>1 DEF ChildOf
    <3> QED
      BY <1>2, <3>1, <3>2
  <2> QED
    BY <2>1 DEF Supervised
<1>5. EntriesHold'
  BY <1>1, <1>2 DEF EntriesHold, AnswersHold
<1>6. AnswersHold'
  BY <1>2 DEF AnswersHold
<1> QED
  BY <1>4, <1>5, <1>6 DEF HoldInv

\* What an answer gives was waiting, so that no entry here stood for it.
LEMMA AnsweringHolds ==
    ASSUME IInv, NEW ts \in SUBSET TaskIds, AnswerClaim(ts)
    PROVE  HoldInv'
<1>1. /\ ProtocolTyped /\ ChildrenTyped /\ Supervised /\ EntriesHold
  BY DEF IInv, TypeInv, HoldInv
<1>2. /\ \A t \in ts : phase[t] = "waiting"
      /\ \A t \in TaskIds : /\ phase'[t] = IF t \in ts THEN "leased" ELSE phase[t]
                            /\ claims'[t] = IF t \in ts THEN claims[t] + 1
                                            ELSE claims[t]
      /\ UNCHANGED <<running, children>>
      /\ inbox' = [tasks |-> [t \in ts |-> claims[t] + 1], state |-> node_state]
  BY DEF AnswerClaim, Lease, Move
<1>3. ts \cap DOMAIN running = {}
  BY <1>1, <1>2 DEF EntriesHold
<1>4. Supervised'
  BY <1>1, <1>2 DEF Supervised, ChildOf
<1>5. EntriesHold'
  BY <1>1, <1>2, <1>3 DEF EntriesHold, ChildrenTyped
<1>6. AnswersHold'
  BY <1>2, <1>3 DEF AnswersHold
<1> QED
  BY <1>4, <1>5, <1>6 DEF HoldInv

\* What the registrar and other nodes do touches no task of this one, as long as
\* its heartbeats arrive.
LEMMA OthersLeaveItUntouched ==
    ASSUME IInv, HeartbeatsArrive, NEW t \in TaskIds,
           Requeue(t) \/ LeaseElsewhere(t) \/ ReportElsewhere(t)
    PROVE  Untouched
<1>1. /\ ProtocolTyped /\ ChildrenTyped /\ InboxTyped /\ EntriesHold /\ AnswersHold
  BY DEF IInv, TypeInv, HoldInv
<1>2. DOMAIN running \cup InFlight \subseteq TaskIds
  BY <1>1 DEF ChildrenTyped, InboxTyped, InFlight
<1>3. \A u \in TaskIds \ {t} : phase'[u] = phase[u] /\ claims'[u] = claims[u]
  BY <1>1 DEF Requeue, LeaseElsewhere, ReportElsewhere, Release, Lease, End, Move,
              ProtocolTyped
<1>4. t \notin DOMAIN running \cup InFlight
  <2>1. CASE Requeue(t)
    <3>1. [task |-> t, token |-> claims[t]] \notin Listed /\ t \notin InFlight
      BY <2>1 DEF Requeue
    <3>2. t \in DOMAIN running => [task |-> t, token |-> claims[t]] \in Listed
      BY <1>1 DEF EntriesHold, Listed, ChildOf
    <3> QED
      BY <3>1, <3>2
  <2>2. CASE LeaseElsewhere(t)
    <3>1. phase[t] = "waiting"
      BY <2>2 DEF LeaseElsewhere, Lease, Move
    <3> QED
      BY <1>1, <3>1 DEF EntriesHold, AnswersHold, InFlight
  <2>3. CASE ReportElsewhere(t)
    <3>1. [task |-> t, token |-> claims[t]] \notin DOMAIN children /\ t \notin InFlight
      BY <2>3 DEF ReportElsewhere
    <3>2. t \in DOMAIN running => ChildOf(t) = [task |-> t, token |-> claims[t]]
      BY <1>1 DEF EntriesHold, ChildOf
    <3> QED
      BY <1>1, <3>1, <3>2 DEF ChildrenTyped
  <2> QED
    BY <2>1, <2>2, <2>3
<1> QED
  BY <1>2, <1>3, <1>4 DEF Untouched

LEMMA HoldingStays ==
    ASSUME IInv, HeartbeatsArrive, [Next]_vars
    PROVE  HoldInv'
<1>1. CASE UNCHANGED <<phase, claims, running, children, inbox>>
  BY <1>1, UntouchedHold DEF Untouched
<1>2. ASSUME NEW t \in TaskIds, TimeOutChild(t) \/ ReapChild(t)
      PROVE  HoldInv'
  <2>1. t \in DOMAIN running
    BY <1>2 DEF TimeOutChild, ReapChild, Visit, IInv, TypeInv, ChildrenTyped
  <2>2. PICK success \in BOOLEAN : Report(ChildOf(t), success)
    BY <1>2 DEF TimeOutChild, ReapChild
  <2>3. /\ inbox' = inbox /\ running' = Without(running, t)
        /\ children' = Without(children, ChildOf(t))
    BY <1>2 DEF TimeOutChild, ReapChild, Forgotten, Killed
  <2> QED
    BY <2>1, <2>2, <2>3, ForgettingHolds
<1>3. ASSUME NEW t \in TaskIds, SkipChild(t) PROVE HoldInv'
  BY <1>1, <1>3 DEF SkipChild, protocolVars
<1>4. CASE \/ PollDone \/ HeartbeatUnanswered \/ HeartbeatAnswered \/ SendClaim
           \/ CheckLoop \/ RequestStop \/ StartWorker \/ UNCHANGED vars
  BY <1>1, <1>4 DEF PollDone, HeartbeatUnanswered, HeartbeatAnswered, SendClaim,
                    CheckLoop, RequestStop, StartWorker, vars, workerVars, protocolVars
<1>5. ASSUME NEW ts \in SUBSET TaskIds, ReceiveClaim(ts) PROVE HoldInv'
  BY <1>5, ReceivingHolds
<1>6. ASSUME NEW ts \in SUBSET TaskIds, AnswerClaim(ts) PROVE HoldInv'
  BY <1>6, AnsweringHolds
<1>7. CASE LoseClaim
  BY <1>7 DEF LoseClaim, protocolVars, IInv, HoldInv, Supervised, EntriesHold,
              AnswersHold, ChildOf
<1>8. CASE Crash
  BY <1>8 DEF Crash, HoldInv, Supervised, EntriesHold, AnswersHold
<1>9. ASSUME NEW c \in DOMAIN children, NEW o \in {"succeeded", "failed"},
             TimePasses(c) \/ ChildExits(c, o)
      PROVE  HoldInv'
  <2>1. /\ DOMAIN children' = DOMAIN children
        /\ UNCHANGED <<phase, claims, running, inbox>>
    BY <1>9 DEF TimePasses, ChildExits, protocolVars
  <2> QED
    BY <2>1, UntouchedHold DEF Untouched
<1>10. ASSUME NEW state \in OperatorStates, SetNodeState(state) PROVE HoldInv'
  BY <1>1, <1>10 DEF SetNodeState, protocolVars
<1>11. ASSUME NEW t \in TaskIds,
              Requeue(t) \/ LeaseElsewhere(t) \/ ReportElsewhere(t)
       PROVE  HoldInv'
  <2>1. UNCHANGED <<running, children, inbox>>
    BY <1>11 DEF Requeue, LeaseElsewhere, ReportElsewhere, workerVars
  <2> QED
    BY <1>11, <2>1, OthersLeaveItUntouched, UntouchedHold
<1> QED
  BY <1>2, <1>3, <1>4, <1>5, <1>6, <1>7, <1>8, <1>9, <1>10, <1>11 DEF Next, Loop

LEMMA Inductive == HeartbeatsArrive => (Spec => []IInv)
<1> SUFFICES ASSUME HeartbeatsArrive PROVE Spec => []IInv
  OBVIOUS
<1>1. Init => IInv
  BY TypesHoldAtFirst
     DEF Init, IInv, HoldInv, Supervised, EntriesHold, AnswersHold
<1>2. IInv /\ [Next]_vars => IInv'
  BY TypesStay, HoldingStays, Zenon DEF IInv
<1> QED
  BY <1>1, <1>2, PTL DEF Spec

\* While its heartbeats arrive, every child of a node has an entry in
\* self.running, and with it a time limit, a slot and a reader, whatever is lost,
\* crashes, is requeued elsewhere or fails to start.
THEOREM NoChildIsForgotten ==
    HeartbeatsArrive => (Spec => []ChildrenAreSupervised)
<1>1. IInv => ChildrenAreSupervised
  BY DEF IInv, HoldInv, Supervised, ChildrenAreSupervised, Alive, ChildOf
<1> QED
  BY <1>1, Inductive, PTL

\* While its heartbeats arrive, whoever executes a task on this node holds its
\* lease, so that by the protocol nobody else does.
THEOREM ExecutionsAreExclusive ==
    HeartbeatsArrive => (Spec => []ExecutionsHoldTheirLeases)
<1>1. IInv => ExecutionsHoldTheirLeases
  BY DEF IInv, HoldInv, Supervised, EntriesHold, ExecutionsHoldTheirLeases, Alive,
         ChildOf
<1> QED
  BY <1>1, Inductive, PTL

-----------------------------------------------------------------------------
(* Slots *)

\* The slots of the tasks ts, one by one.
SlotSet(ts) == UNION {{t} \X (1..Cost[t]) : t \in ts}

\* What is executed here and what an answer on its way adds to it.
Taken == DOMAIN running \cup InFlight

\* Whatever answer is on its way, there is room for it.
RoomInv == TypeInv /\ IsFiniteSet(Taken) /\ Slots(Taken) <= Concurrency

\* Slots are counted as a sum counts them: a part takes no more than the
\* whole, two parts no more than both together.
LEMMA SlotsAreFinite ==
    ASSUME NEW ts \in SUBSET TaskIds, IsFiniteSet(ts)
    PROVE  IsFiniteSet(SlotSet(ts)) /\ Slots(ts) \in Nat /\ Slots(ts) = Cardinality(SlotSet(ts))
<1> DEFINE f == [t \in ts |-> {t} \X (1..Cost[t])]
           T == {f[t] : t \in ts}
<1>1. ASSUME NEW t \in ts
      PROVE  IsFiniteSet(f[t])
  <2>1. 1 \in Int /\ Cost[t] \in Int
    BY WorkerAssumption
  <2>2. IsFiniteSet({t}) /\ IsFiniteSet(1..Cost[t])
    BY <2>1, FS_Interval, FS_Singleton
  <2> QED
    BY <2>2, FS_Product
<1>2. SlotSet(ts) = UNION T
  BY DEF SlotSet
<1>3. f \in Surjection(ts, T)
  BY DEF Surjection
<1>4. \A x \in T : IsFiniteSet(x)
  BY <1>1
<1> HIDE DEF f
<1>5. IsFiniteSet(T)
  BY <1>3, FS_Surjection
<1>6. IsFiniteSet(SlotSet(ts))
  BY <1>2, <1>4, <1>5, FS_UNION
<1> QED
  BY <1>6, FS_CardinalityType DEF Slots, SlotSet

LEMMA SlotsOfParts ==
    ASSUME NEW ts \in SUBSET TaskIds, IsFiniteSet(ts), NEW us \in SUBSET ts
    PROVE  IsFiniteSet(us) /\ Slots(us) <= Slots(ts)
<1>1. SlotSet(us) \subseteq SlotSet(ts)
  BY DEF SlotSet
<1>2. IsFiniteSet(us)
  BY FS_Subset
<1> QED
  BY <1>1, <1>2, SlotsAreFinite, FS_Subset

LEMMA SlotsAddUp ==
    ASSUME NEW ts \in SUBSET TaskIds, IsFiniteSet(ts),
           NEW us \in SUBSET TaskIds, IsFiniteSet(us)
    PROVE  IsFiniteSet(ts \cup us) /\ Slots(ts \cup us) <= Slots(ts) + Slots(us)
<1>1. SlotSet(ts \cup us) = SlotSet(ts) \cup SlotSet(us)
  BY DEF SlotSet
<1>2. /\ IsFiniteSet(SlotSet(ts)) /\ IsFiniteSet(SlotSet(us))
      /\ Slots(ts) \in Nat /\ Slots(ts) = Cardinality(SlotSet(ts))
      /\ Slots(us) \in Nat /\ Slots(us) = Cardinality(SlotSet(us))
  BY SlotsAreFinite
<1>3. Cardinality(SlotSet(ts) \cap SlotSet(us)) \in Nat
  BY <1>2, FS_Intersection, FS_CardinalityType
<1>4. IsFiniteSet(ts \cup us)
  BY FS_Union
<1>5. Slots(ts \cup us) = Cardinality(SlotSet(ts) \cup SlotSet(us))
  BY <1>1, <1>4, SlotsAreFinite
<1>6. Slots(ts \cup us) = Slots(ts) + Slots(us)
                            - Cardinality(SlotSet(ts) \cap SlotSet(us))
  BY <1>2, <1>5, FS_Union
<1> QED
  BY <1>2, <1>3, <1>4, <1>6

\* Steps that take nothing more leave the room there was.
LEMMA RoomKept ==
    ASSUME RoomInv, TypeInv', Taken' \subseteq Taken
    PROVE  RoomInv'
<1>1. Taken \subseteq TaskIds
  BY DEF RoomInv, TypeInv, ChildrenTyped, InboxTyped, Taken, InFlight
<1>2. /\ IsFiniteSet(Taken) /\ Slots(Taken) <= Concurrency
      /\ Slots(Taken) \in Nat
  BY <1>1, SlotsAreFinite DEF RoomInv
<1>3. PICK us : us = Taken'
  OBVIOUS
<1>4. IsFiniteSet(us) /\ Slots(us) <= Slots(Taken) /\ Slots(us) \in Nat
  BY <1>1, <1>2, <1>3, SlotsOfParts, SlotsAreFinite
<1>5. Slots(Taken)' = Slots(us)
  BY <1>3 DEF Slots
<1> QED
  BY <1>2, <1>3, <1>4, <1>5, WorkerAssumption DEF RoomInv

\* An answer fits the slots that nothing here takes.
LEMMA RoomAnswer ==
    ASSUME RoomInv, TypeInv', NEW ts \in SUBSET TaskIds, AnswerClaim(ts)
    PROVE  RoomInv'
<1>1. /\ running' = running /\ inbox = NULL
      /\ inbox' = [tasks |-> [t \in ts |-> claims[t] + 1], state |-> node_state]
      /\ IsFiniteSet(ts) /\ Slots(ts) <= Concurrency - Slots(DOMAIN running)
  BY DEF AnswerClaim, Free
<1>2. Taken = DOMAIN running /\ DOMAIN running \subseteq TaskIds
  BY <1>1 DEF Taken, InFlight, RoomInv, TypeInv, ChildrenTyped
<1>3. Taken' = DOMAIN running \cup ts \/ Taken' = DOMAIN running
  BY <1>1 DEF Taken, InFlight
<1>4. CASE Taken' = DOMAIN running
  BY <1>2, <1>4, RoomKept
<1>5. CASE Taken' = DOMAIN running \cup ts
  <2>1. PICK on : on = DOMAIN running
    OBVIOUS
  <2>2. /\ on \subseteq TaskIds /\ IsFiniteSet(on) /\ Slots(on) \in Nat
        /\ Slots(ts) \in Nat
    BY <1>1, <1>2, <2>1, SlotsAreFinite DEF RoomInv
  <2>3. /\ IsFiniteSet(on \cup ts) /\ Slots(on \cup ts) <= Slots(on) + Slots(ts)
        /\ Slots(on \cup ts) \in Nat
    BY <1>1, <2>2, SlotsAddUp, SlotsAreFinite
  <2>4. Slots(on \cup ts) <= Concurrency
    BY <1>1, <2>1, <2>2, <2>3, WorkerAssumption
  <2>5. Slots(Taken)' = Slots(on \cup ts) /\ Taken' = on \cup ts
    BY <1>5, <2>1 DEF Slots
  <2> QED
    BY <2>3, <2>4, <2>5 DEF RoomInv
<1> QED
  BY <1>3, <1>4, <1>5

LEMMA RoomStays == RoomInv /\ [Next]_vars => RoomInv'
<1> SUFFICES ASSUME RoomInv, [Next]_vars PROVE RoomInv'
  OBVIOUS
<1>0. TypeInv /\ TypeInv'
  BY TypesStay DEF RoomInv
<1>1. CASE UNCHANGED <<running, inbox>>
  BY <1>0, <1>1, RoomKept DEF Taken, InFlight
<1>2. ASSUME NEW t \in TaskIds, TimeOutChild(t) \/ ReapChild(t)
      PROVE  RoomInv'
  BY <1>0, <1>2, RoomKept
     DEF TimeOutChild, ReapChild, Forgotten, Without, Taken, InFlight
<1>3. ASSUME NEW t \in TaskIds, SkipChild(t) PROVE RoomInv'
  BY <1>1, <1>3 DEF SkipChild
<1>4. CASE \/ PollDone \/ HeartbeatUnanswered \/ HeartbeatAnswered \/ SendClaim
           \/ CheckLoop \/ RequestStop \/ StartWorker \/ UNCHANGED vars
  BY <1>1, <1>4 DEF PollDone, HeartbeatUnanswered, HeartbeatAnswered, SendClaim,
                    CheckLoop, RequestStop, StartWorker, vars, workerVars
<1>5. ASSUME NEW ts \in SUBSET TaskIds, ReceiveClaim(ts) PROVE RoomInv'
  <2>1. /\ inbox # NULL /\ ts \subseteq DOMAIN inbox.tasks /\ inbox' = NULL
        /\ DOMAIN running' = DOMAIN running \cup ts
    BY <1>5 DEF ReceiveClaim, Start
  <2>2. Taken' \subseteq Taken
    BY <2>1 DEF Taken, InFlight
  <2> QED
    BY <1>0, <2>2, RoomKept
<1>6. ASSUME NEW ts \in SUBSET TaskIds, AnswerClaim(ts) PROVE RoomInv'
  BY <1>0, <1>6, RoomAnswer
<1>7. CASE LoseClaim \/ Crash
  BY <1>0, <1>7, RoomKept DEF LoseClaim, Crash, Taken, InFlight
<1>8. ASSUME NEW c \in DOMAIN children, NEW o \in {"succeeded", "failed"},
             TimePasses(c) \/ ChildExits(c, o)
      PROVE  RoomInv'
  BY <1>1, <1>8 DEF TimePasses, ChildExits
<1>9. ASSUME NEW state \in OperatorStates, SetNodeState(state) PROVE RoomInv'
  BY <1>1, <1>9 DEF SetNodeState
<1>10. ASSUME NEW t \in TaskIds, Requeue(t) \/ LeaseElsewhere(t) \/ ReportElsewhere(t)
       PROVE  RoomInv'
  BY <1>1, <1>10 DEF Requeue, LeaseElsewhere, ReportElsewhere, workerVars
<1> QED
  BY <1>2, <1>3, <1>4, <1>5, <1>6, <1>7, <1>8, <1>9, <1>10 DEF Next, Loop

LEMMA RoomAtFirst == Init => RoomInv
<1> SUFFICES ASSUME Init PROVE RoomInv
  OBVIOUS
<1>1. TypeInv /\ Taken = {}
  BY TypesHoldAtFirst DEF Init, Taken, InFlight
<1>2. IsFiniteSet(Taken) /\ UNION {{t} \X (1..Cost[t]) : t \in Taken} = {}
  BY <1>1, FS_EmptySet
<1>3. Slots(Taken) = 0
  BY <1>2, FS_EmptySet DEF Slots
<1> QED
  BY <1>1, <1>2, <1>3, WorkerAssumption DEF RoomInv

\* A process that self.running knows takes the slots of its entry.
LEMMA ChildrenTakeTheirSlots == RoomInv /\ HoldInv => ConcurrencyRespected
<1> SUFFICES ASSUME RoomInv, HoldInv PROVE ConcurrencyRespected
  OBVIOUS
<1> DEFINE Used == UNION {{c} \X (1..Cost[c.task]) : c \in Alive}
           f == [x \in Used |-> <<x[1].task, x[2]>>]
<1>1. Taken \subseteq TaskIds
  BY DEF RoomInv, TypeInv, ChildrenTyped, InboxTyped, Taken, InFlight
<1>2. /\ IsFiniteSet(SlotSet(Taken)) /\ Cardinality(SlotSet(Taken)) <= Concurrency
      /\ Cardinality(SlotSet(Taken)) \in Nat
  BY <1>1, SlotsAreFinite DEF RoomInv
<1>3. \A c \in Alive : c.task \in Taken /\ c = ChildOf(c.task)
  BY DEF HoldInv, Supervised, Alive, Taken
<1>4. ASSUME NEW x \in Used
      PROVE  x = <<x[1], x[2]>> /\ x[1] \in Alive /\ <<x[1].task, x[2]>> \in SlotSet(Taken)
  <2>1. PICK c \in Alive : x \in {c} \X (1..Cost[c.task])
    OBVIOUS
  <2>2. x = <<x[1], x[2]>> /\ x[1] = c /\ x[2] \in 1..Cost[c.task]
    BY <2>1
  <2>3. <<c.task, x[2]>> \in {c.task} \X (1..Cost[c.task])
    BY <2>2
  <2> QED
    BY <1>3, <2>2, <2>3 DEF SlotSet
<1>5. f \in Injection(Used, SlotSet(Taken))
  <2>1. f \in [Used -> SlotSet(Taken)]
    BY <1>4
  <2>2. ASSUME NEW x \in Used, NEW y \in Used, f[x] = f[y]
        PROVE  x = y
    <3>1. x[1].task = y[1].task /\ x[2] = y[2]
      BY <2>2
    <3>2. x[1] = y[1]
      BY <1>3, <1>4, <3>1
    <3> QED
      BY <1>4, <3>1, <3>2
  <2> HIDE DEF f
  <2> QED
    BY <2>1, <2>2 DEF Injection, IsInjective
<1> HIDE DEF f, Used
<1>6. /\ IsFiniteSet(Used) /\ Cardinality(Used) <= Cardinality(SlotSet(Taken))
  BY <1>2, <1>5, FS_Injection
<1>7. Cardinality(Used) <= Concurrency
  BY <1>2, <1>6, FS_CardinalityType, WorkerAssumption
<1> QED
  BY <1>7 DEF ConcurrencyRespected, Used

\* While its heartbeats arrive, the processes of a node never use more slots
\* than it has, for any costs: an answer is asked for by what is free, and no
\* process outlives its entry in self.running.
THEOREM SlotsAreNotOverdrawn ==
    HeartbeatsArrive => (Spec => []ConcurrencyRespected)
<1> SUFFICES ASSUME HeartbeatsArrive PROVE Spec => []ConcurrencyRespected
  OBVIOUS
<1>1. Spec => []RoomInv
  BY RoomAtFirst, RoomStays, PTL DEF Spec
<1>2. RoomInv /\ IInv => ConcurrencyRespected
  BY ChildrenTakeTheirSlots DEF IInv
<1> QED
  BY <1>1, <1>2, Inductive, PTL
=============================================================================
