----------------------------- MODULE SignalProofs -----------------------------
(***************************************************************************)
(* Proofs about Signal: types, and the promise that no worker sleeps       *)
(* beside a task that was announced, for any number of tasks and workers.  *)
(***************************************************************************)
EXTENDS Signal, FiniteSetTheorems, TLAPS

-----------------------------------------------------------------------------
(* Counting *)

LEMMA Parts ==
    ASSUME NEW S, IsFiniteSet(S), NEW T, T \subseteq S
    PROVE  /\ IsFiniteSet(T)
           /\ Cardinality(T) \in Nat /\ Cardinality(S) \in Nat
           /\ Cardinality(T) <= Cardinality(S)
  BY FS_Subset, FS_CardinalityType

LEMMA Joined ==
    ASSUME NEW S, IsFiniteSet(S), NEW T, IsFiniteSet(T)
    PROVE  /\ IsFiniteSet(S \cup T)
           /\ Cardinality(S \cup T) \in Nat
           /\ Cardinality(S \cup T) <= Cardinality(S) + Cardinality(T)
<1>1. IsFiniteSet(S \cup T) /\ IsFiniteSet(S \cap T)
  BY FS_Union, FS_Subset
<1>2. /\ Cardinality(S \cup T) \in Nat /\ Cardinality(S \cap T) \in Nat
      /\ Cardinality(S) \in Nat /\ Cardinality(T) \in Nat
  BY <1>1, FS_CardinalityType
<1>3. Cardinality(S \cup T) =
          Cardinality(S) + Cardinality(T) - Cardinality(S \cap T)
  BY FS_Union
<1> QED
  BY <1>1, <1>2, <1>3

LEMMA HeldIsFinite ==
    ASSUME TypeOK, NEW w \in Waiters
    PROVE  /\ IsFiniteSet(held[w]) /\ Cardinality(held[w]) \in Nat
           /\ IsFiniteSet(locked[w]) /\ Cardinality(locked[w]) \in Nat
           /\ Free(w) \in Nat
<1>1. held[w] \subseteq Tasks /\ locked[w] \subseteq Tasks
  BY DEF TypeOK
<1>2. /\ IsFiniteSet(held[w]) /\ Cardinality(held[w]) \in Nat
      /\ IsFiniteSet(locked[w]) /\ Cardinality(locked[w]) \in Nat
  BY <1>1, Parts, SignalAssumption DEF SignalAssumption
<1> QED
  BY <1>2, SignalAssumption DEF TypeOK, Free, SignalAssumption

-----------------------------------------------------------------------------
(* Types *)

\* The workers hold what runs: the part of TypeOK about tasks.
HoldingsTyped ==
    /\ status \in [Tasks -> {"absent", "due", "delayed", "running", "done"}]
    /\ held \in [Waiters -> SUBSET Tasks]
    /\ locked \in [Waiters -> SUBSET Tasks]
    /\ poll \in [Waiters -> PollStates]
    /\ UNION {held[w] : w \in Waiters} = {t \in Tasks : status[t] = "running"}
    /\ \A w \in Waiters :
           /\ Free(w) >= 0
           /\ locked[w] # {} <=> poll[w].pc = "choosing"
           /\ locked[w] \subseteq {t \in Tasks : status[t] = "due"}
           /\ locked[w] \cap LockedByOthers(w) = {}

\* The rest of TypeOK, where the flags stand apart.
CountersTyped ==
    /\ batch \subseteq Tasks
    /\ tokens \in 0..MaxTokens /\ calls \in Nat
    /\ pass \in [registered: Nat, notified: 0..1]
    /\ routing \in Routings /\ troubles \in 0..MaxTroubles

FlagsTyped == paused \in BOOLEAN /\ listening \in BOOLEAN /\ missed \in BOOLEAN

LEMMA TypeParts == TypeOK <=> HoldingsTyped /\ CountersTyped /\ FlagsTyped
  BY Zenon DEF TypeOK, HoldingsTyped, CountersTyped, FlagsTyped

LEMMA FlagsStayTyped ==
    ASSUME TypeOK, [Next]_vars
    PROVE  FlagsTyped'
<1> USE DEF FlagsTyped
<1>0. FlagsTyped
  BY TypeParts DEF FlagsTyped
<1>1. ASSUME NEW S \in SUBSET Tasks, RegisterDue(S) \/ CreateBackfill(S)
      PROVE  FlagsTyped'
  BY <1>0, <1>1, Zenon DEF RegisterDue, CreateBackfill, Announce
<1>2. CASE \/ NotifyLocal \/ PassFails \/ RegisterKnown \/ PauseBackfill
           \/ ResumeBackfill
  BY <1>0, <1>2, Zenon DEF NotifyLocal, PassFails, RegisterKnown, PauseBackfill,
                           ResumeBackfill, Announce, signalVars
<1>3. ASSUME NEW n \in 1..calls, AddTokens(n) PROVE FlagsTyped'
  BY <1>0, <1>3, Zenon DEF AddTokens
<1>4. CASE Disconnect \/ Reconnect \/ Restart \/ Tick
  BY <1>0, <1>4, Zenon DEF Disconnect, Reconnect, Restart, Tick, signalVars
<1>5. ASSUME NEW w \in Waiters, Proceed(w) \/ Wake(w) PROVE FlagsTyped'
  BY <1>0, <1>5, Zenon DEF Proceed, Poll, LockCandidates, ClaimNothing,
                           TakeTasks, WaitExpires, Wake, signalVars
<1>6. ASSUME NEW t \in Tasks, RegisterManual(t) \/ End(t) \/ BecomeDue(t)
      PROVE  FlagsTyped'
  BY <1>0, <1>6, Zenon DEF RegisterManual, Announce, End, Complete, Fail, Requeue, BecomeDue, signalVars
<1>7. CASE UNCHANGED vars
  BY <1>0, <1>7, Zenon DEF vars
<1> QED
  BY <1>1, <1>2, <1>3, <1>4, <1>5, <1>6, <1>7, Zenon DEF Next

LEMMA CountersStayTyped ==
    ASSUME TypeOK, [Next]_vars
    PROVE  CountersTyped'
<1> USE SignalAssumption DEF SignalAssumption, CountersTyped, Announce, Notified,
        NoPass, signalVars
<1>0. CountersTyped
  BY TypeParts DEF CountersTyped
<1>1. ASSUME NEW S \in SUBSET Tasks, RegisterDue(S) \/ CreateBackfill(S)
      PROVE  CountersTyped'
  <2>1. Cardinality(S) \in Nat
    BY Parts
  <2> QED
    BY <1>0, <1>1, <2>1 DEF RegisterDue, CreateBackfill
<1>2. CASE \/ NotifyLocal \/ PassFails \/ RegisterKnown \/ PauseBackfill
           \/ ResumeBackfill
  BY <1>0, <1>2 DEF NotifyLocal, Told, PassFails, RegisterKnown, PauseBackfill,
                    ResumeBackfill
<1>3. ASSUME NEW n \in 1..calls, AddTokens(n) PROVE CountersTyped'
  BY <1>0, <1>3 DEF AddTokens, Filled, Smaller
<1>4. CASE Disconnect \/ Reconnect \/ Restart \/ Tick
  BY <1>0, <1>4 DEF Disconnect, Reconnect, Restart, Tick
<1>5. ASSUME NEW w \in Waiters, Proceed(w) \/ Wake(w) PROVE CountersTyped'
  BY <1>0, <1>5 DEF Proceed, Poll, LockCandidates, ClaimNothing, TakeTasks,
                    WaitExpires, Wake
<1>6. ASSUME NEW t \in Tasks, RegisterManual(t) \/ End(t) \/ BecomeDue(t)
      PROVE  CountersTyped'
  BY <1>0, <1>6 DEF RegisterManual, End, Complete, Fail, Requeue, BecomeDue
<1>7. CASE UNCHANGED vars
  BY <1>0, <1>7 DEF vars
<1> QED
  BY <1>1, <1>2, <1>3, <1>4, <1>5, <1>6, <1>7 DEF Next

\* What keeps the types of the holdings: nothing that runs changes, nobody holds
\* or locks another task, what is locked stays due.
LEMMA HoldingsUndisturbed ==
    ASSUME TypeOK,
           status' \in [Tasks -> {"absent", "due", "delayed", "running", "done"}],
           \A t \in Tasks : status'[t] = "running" <=> status[t] = "running",
           \A t \in Tasks : status[t] = "due" => status'[t] = "due",
           held' = held, locked' = locked,
           poll' \in [Waiters -> PollStates],
           \A w \in Waiters : poll'[w].pc = "choosing" <=> poll[w].pc = "choosing"
    PROVE  HoldingsTyped'
  BY DEF TypeOK, HoldingsTyped, Free, LockedByOthers

\* An execution that ends leaves its worker.
LEMMA DroppedTyped ==
    ASSUME TypeOK, NEW t \in Tasks, status[t] = "running",
           NEW to \in {"done", "delayed"},
           status' = [status EXCEPT ![t] = to], held' = Dropped(t),
           UNCHANGED <<poll, locked>>
    PROVE  HoldingsTyped'
<1> USE DEF HoldingsTyped
<1>0. HoldingsTyped
  BY TypeParts DEF HoldingsTyped
<1>1. /\ status' \in [Tasks -> {"absent", "due", "delayed", "running", "done"}]
      /\ held' \in [Waiters -> SUBSET Tasks]
      /\ locked' \in [Waiters -> SUBSET Tasks]
      /\ poll' \in [Waiters -> PollStates]
  BY <1>0 DEF Dropped
<1>2. UNION {held'[w] : w \in Waiters} = {u \in Tasks : status'[u] = "running"}
  BY <1>0 DEF Dropped
<1>3. ASSUME NEW w \in Waiters PROVE Free(w)' >= 0
  <2>1. held'[w] \subseteq held[w]
    BY DEF Dropped
  <2>2. IsFiniteSet(held[w]) /\ Free(w) \in Nat
    BY HeldIsFinite
  <2>3. /\ Cardinality(held'[w]) \in Nat /\ Cardinality(held[w]) \in Nat
        /\ Cardinality(held'[w]) <= Cardinality(held[w])
    BY <2>1, <2>2, Parts
  <2> QED
    BY <2>2, <2>3, SignalAssumption DEF Free, SignalAssumption
<1>4. ASSUME NEW w \in Waiters
      PROVE  /\ locked'[w] # {} <=> poll'[w].pc = "choosing"
             /\ locked'[w] \subseteq {u \in Tasks : status'[u] = "due"}
             /\ locked'[w] \cap LockedByOthers(w)' = {}
  BY <1>0 DEF LockedByOthers
<1> QED
  BY <1>1, <1>2, <1>3, <1>4

\* A claim that takes tasks: they become its worker's, within its slots.
LEMMA TakingTyped ==
    ASSUME TypeOK, NEW w \in Waiters, NEW S \in SUBSET locked[w], TakeTasks(w, S)
    PROVE  HoldingsTyped'
<1> USE DEF HoldingsTyped
<1>0. HoldingsTyped
  BY TypeParts DEF HoldingsTyped
<1>1. /\ status' \in [Tasks -> {"absent", "due", "delayed", "running", "done"}]
      /\ held' \in [Waiters -> SUBSET Tasks]
      /\ locked' \in [Waiters -> SUBSET Tasks]
      /\ poll' \in [Waiters -> PollStates]
  BY <1>0, SignalAssumption
     DEF TakeTasks, PollStates, At, Away, SignalAssumption
<1>2. UNION {held'[v] : v \in Waiters} = {u \in Tasks : status'[u] = "running"}
  <2>1. \A u \in Tasks : (\E v \in Waiters : u \in held[v])
                         <=> status[u] = "running"
    BY <1>0
  <2>2. \A u \in Tasks : status'[u] = "running" <=> u \in S \/ status[u] = "running"
    BY <1>0 DEF TakeTasks
  <2>3. \A u \in Tasks : (\E v \in Waiters : u \in held'[v])
                         <=> u \in S \/ \E v \in Waiters : u \in held[v]
    BY <1>0 DEF TakeTasks
  <2> QED
    BY <1>1, <2>1, <2>2, <2>3
<1>3. ASSUME NEW v \in Waiters PROVE Free(v)' >= 0
  <2>1. CASE v = w
    <3>1. held'[w] = held[w] \cup S
      BY <1>0 DEF TakeTasks
    <3>2. /\ IsFiniteSet(held[w]) /\ Cardinality(held[w]) \in Nat
          /\ IsFiniteSet(locked[w]) /\ Cardinality(locked[w]) \in Nat
          /\ Free(w) \in Nat
      BY HeldIsFinite
    <3>3. IsFiniteSet(S) /\ Cardinality(S) \in Nat
      BY <3>2, Parts
    <3>4. /\ Cardinality(held[w] \cup S) \in Nat
          /\ Cardinality(held[w] \cup S) <= Cardinality(held[w]) + Cardinality(S)
      BY <3>2, <3>3, Joined
    <3>5. Cardinality(S) <= Free(w)
      BY <3>2 DEF TakeTasks, Smaller
    <3> QED
      BY <2>1, <3>1, <3>2, <3>3, <3>4, <3>5, SignalAssumption
         DEF Free, SignalAssumption
  <2>2. CASE v # w
    BY <1>0, <2>2 DEF TakeTasks, Free
  <2> QED
    BY <2>1, <2>2
<1>4. ASSUME NEW v \in Waiters
      PROVE  /\ locked'[v] # {} <=> poll'[v].pc = "choosing"
             /\ locked'[v] \subseteq {u \in Tasks : status'[u] = "due"}
             /\ locked'[v] \cap LockedByOthers(v)' = {}
  <2>1. CASE v = w
    BY <1>0, <2>1 DEF TakeTasks, At, Away
  <2>2. CASE v # w
    <3>1. locked'[v] = locked[v] /\ poll'[v] = poll[v]
      BY <1>0, <2>2 DEF TakeTasks
    <3>2. locked[v] \cap S = {}
      BY <1>0, <2>2 DEF LockedByOthers
    <3>3. \A u \in locked[v] : status'[u] = "due"
      BY <1>0, <3>2 DEF TakeTasks
    <3>4. locked[v] \cap LockedByOthers(v)' = {}
      BY <1>0 DEF TakeTasks, LockedByOthers
    <3> QED
      BY <1>0, <3>1, <3>3, <3>4
  <2> QED
    BY <2>1, <2>2
<1> QED
  BY <1>1, <1>2, <1>3, <1>4

LEMMA LockingTyped ==
    ASSUME TypeOK, NEW w \in Waiters, LockCandidates(w)
    PROVE  HoldingsTyped'
<1> USE DEF HoldingsTyped
<1>0. HoldingsTyped
  BY TypeParts DEF HoldingsTyped
<1>1. routing[w] \subseteq Tasks
  BY SignalAssumption DEF TypeOK, SignalAssumption
<1>2. /\ Visible(w) \subseteq {t \in Tasks : status[t] = "due"}
      /\ Visible(w) \cap LockedByOthers(w) = {}
  BY <1>1 DEF Visible, Candidates, Claimable
<1>3. /\ locked' \in [Waiters -> SUBSET Tasks]
      /\ poll' \in [Waiters -> PollStates]
      /\ UNCHANGED <<status, held>>
  BY <1>0, <1>2, SignalAssumption
     DEF LockCandidates, PollStates, At, SignalAssumption
<1>4. ASSUME NEW v \in Waiters
      PROVE  /\ locked'[v] # {} <=> poll'[v].pc = "choosing"
             /\ locked'[v] \subseteq {u \in Tasks : status'[u] = "due"}
             /\ locked'[v] \cap LockedByOthers(v)' = {}
  <2>1. /\ locked'[v] # {} <=> poll'[v].pc = "choosing"
        /\ locked'[v] \subseteq {u \in Tasks : status'[u] = "due"}
    BY <1>0, <1>2 DEF LockCandidates, At
  <2>2. CASE v = w
    <3>1. locked'[w] = Visible(w)
      BY <1>0 DEF LockCandidates
    <3>2. LockedByOthers(w)' = LockedByOthers(w)
      BY <1>0 DEF LockCandidates, LockedByOthers
    <3> QED
      BY <1>2, <2>1, <2>2, <3>1, <3>2
  <2>3. CASE v # w
    <3>1. locked[v] \cap Visible(w) = {}
      BY <1>2, <2>3 DEF LockedByOthers
    <3> QED
      BY <1>0, <2>3, <3>1 DEF LockCandidates, LockedByOthers
  <2> QED
    BY <2>1, <2>2, <2>3
<1> QED
  BY <1>0, <1>3, <1>4 DEF Free

LEMMA HoldingsStayTyped ==
    ASSUME TypeOK, [Next]_vars
    PROVE  HoldingsTyped'
<1> USE SignalAssumption DEF SignalAssumption, signalVars
<1>0. HoldingsTyped
  BY TypeParts
<1>1. ASSUME NEW S \in SUBSET Tasks, RegisterDue(S) \/ CreateBackfill(S)
      PROVE  HoldingsTyped'
  BY <1>0, <1>1, HoldingsUndisturbed
     DEF RegisterDue, CreateBackfill, Registered, Absent, HoldingsTyped
<1>2. CASE \/ NotifyLocal \/ PassFails \/ RegisterKnown \/ PauseBackfill
           \/ ResumeBackfill \/ Disconnect \/ Reconnect \/ UNCHANGED vars
  BY <1>0, <1>2, HoldingsUndisturbed
     DEF NotifyLocal, PassFails, RegisterKnown, PauseBackfill, ResumeBackfill, Disconnect, Reconnect,
         vars, HoldingsTyped
<1>3. ASSUME NEW n \in 1..calls, AddTokens(n) PROVE HoldingsTyped'
  BY <1>0, <1>3, HoldingsUndisturbed DEF AddTokens, HoldingsTyped
<1>4. CASE Restart
  BY <1>0, <1>4
     DEF Restart, HoldingsTyped, PollStates, At, Away, Free, LockedByOthers
<1>5. CASE Tick
  <2>1. ASSUME NEW w \in Waiters
        PROVE  poll'[w] \in PollStates /\ poll'[w].pc = poll[w].pc
    <3>1. /\ poll[w].pc \in {"away", "claiming", "choosing", "waiting"}
          /\ poll[w].left \in 0..WaitTicks
      BY <1>0 DEF HoldingsTyped, PollStates
    <3>2. PICK left \in 0..WaitTicks : poll'[w] = At(poll[w].pc, left)
      BY <1>5, <3>1 DEF Tick
    <3> QED
      BY <3>1, <3>2 DEF PollStates, At
  <2>2. poll' \in [Waiters -> PollStates]
    BY <1>5, <2>1 DEF Tick
  <2> QED
    BY <1>0, <1>5, <2>1, <2>2, HoldingsUndisturbed DEF Tick, HoldingsTyped
<1>6. ASSUME NEW w \in Waiters, Poll(w) \/ ClaimNothing(w) \/ WaitExpires(w) \/ Wake(w)
      PROVE  HoldingsTyped'
  <2>1. /\ poll' \in [Waiters -> PollStates]
        /\ \A v \in Waiters :
               poll'[v].pc = "choosing" <=> poll[v].pc = "choosing"
    <3>1. poll[w].left \in 0..WaitTicks
      BY <1>0 DEF HoldingsTyped, PollStates
    <3>2. PICK pc \in {"away", "claiming", "waiting"}, left \in 0..WaitTicks :
              poll' = [poll EXCEPT ![w] = At(pc, left)]
      BY <1>6, <3>1 DEF Poll, ClaimNothing, AfterNothing, WaitExpires, Wake, Away
    <3>3. poll[w].pc # "choosing"
      BY <1>6 DEF Poll, ClaimNothing, WaitExpires, WaitOver, Wake
    <3> QED
      BY <1>0, <3>2, <3>3 DEF HoldingsTyped, PollStates, At
  <2>2. UNCHANGED <<status, held, locked>>
    BY <1>6 DEF Poll, ClaimNothing, WaitExpires, Wake
  <2> QED
    BY <1>0, <2>1, <2>2, HoldingsUndisturbed DEF HoldingsTyped
<1>7. ASSUME NEW w \in Waiters, LockCandidates(w) PROVE HoldingsTyped'
  BY <1>7, LockingTyped
<1>8. ASSUME NEW w \in Waiters, NEW S \in SUBSET locked[w], TakeTasks(w, S)
      PROVE  HoldingsTyped'
  BY <1>8, TakingTyped
<1>9. ASSUME NEW t \in Tasks, End(t) PROVE HoldingsTyped'
  BY <1>9, DroppedTyped DEF End, Complete, Fail, Requeue
<1>10. ASSUME NEW t \in Tasks, BecomeDue(t) PROVE HoldingsTyped'
  BY <1>0, <1>10, HoldingsUndisturbed DEF BecomeDue, HoldingsTyped
<1>11. ASSUME NEW t \in Tasks, RegisterManual(t) PROVE HoldingsTyped'
  BY <1>0, <1>11, HoldingsUndisturbed
     DEF RegisterManual, Registered, Absent, HoldingsTyped
<1> QED
  BY <1>1, <1>2, <1>3, <1>4, <1>5, <1>6, <1>7, <1>8, <1>9, <1>10, <1>11
     DEF Next, Proceed

LEMMA TypesHoldAtFirst == Init => TypeOK
<1> SUFFICES ASSUME Init PROVE TypeOK
  OBVIOUS
<1>1. HoldingsTyped
  BY SignalAssumption, FS_EmptySet
     DEF Init, HoldingsTyped, PollStates, Away, At, Free, LockedByOthers,
         SignalAssumption
<1>2. CountersTyped
  BY SignalAssumption DEF Init, NoPass, CountersTyped, SignalAssumption
<1>3. FlagsTyped
  BY Zenon DEF Init, FlagsTyped
<1> QED
  BY <1>1, <1>2, <1>3, TypeParts

LEMMA TypesStay == TypeOK /\ [Next]_vars => TypeOK'
  BY HoldingsStayTyped, CountersStayTyped, FlagsStayTyped, Zenon
     DEF TypeOK, HoldingsTyped, CountersTyped, FlagsTyped

\* Every variable of Signal keeps its type, for any number of tasks, workers and
\* tokens: the queue its capacity, each worker its slots, and a row one lock.
THEOREM TypeCorrect == Spec => []TypeOK
  BY TypesHoldAtFirst, TypesStay, PTL DEF Spec

-----------------------------------------------------------------------------
(* Wakes *)

Offered == {t \in Tasks : Claimable(t)}

\* Claims that will take a task that is on offer, if there is one.
Keen ==
    {w \in Waiters : \/ poll[w].pc = "claiming"
                     \/ poll[w].pc = "choosing" /\ locked[w] \subseteq Offered}

Waiting == InPoll({"waiting"})

\* The wakes that a pass still has to send, where its notification does not stand
\* for all its tasks.
Owed == IF Unannounced THEN pass.registered ELSE 0

Wakes == tokens + calls + Owed + Cardinality(Keen)

\* Nobody waits, or each that waits has its token, or each task on offer has its
\* wake.  A claim that locked a row of a batch that was paused since may take it
\* and leave another, so that it does not count as the other's wake.
EachHasItsWake ==
    \/ Waiting = {}
    \/ Cardinality(Waiting) <= tokens
    \/ Cardinality(Offered) <= Wakes

Premise == Interchangeable /\ ~missed /\ Cardinality(Waiters) <= MaxTokens

WakesInv == Premise => EachHasItsWake

\* Whoever asks has a free slot.
AskersHaveRoom == \A w \in Waiters : poll[w].pc # "away" => Free(w) > 0

IInv == TypeOK /\ AskersHaveRoom /\ WakesInv

LEMMA Finite ==
    ASSUME TypeOK
    PROVE  /\ IsFiniteSet(Offered) /\ Cardinality(Offered) \in Nat
           /\ IsFiniteSet(Keen) /\ Cardinality(Keen) \in Nat
           /\ IsFiniteSet(Waiting) /\ Cardinality(Waiting) \in Nat
           /\ Cardinality(Waiting) <= Cardinality(Waiters)
           /\ Cardinality(Waiters) \in Nat
           /\ tokens \in Nat /\ calls \in Nat /\ Owed \in Nat
<1>1. Offered \subseteq Tasks /\ Keen \subseteq Waiters /\ Waiting \subseteq Waiters
  BY DEF Offered, Keen, Waiting, InPoll
<1> QED
  BY <1>1, Parts, SignalAssumption DEF SignalAssumption, TypeOK, Owed

\* A step that announces what it offers, and wastes no wake, keeps the balance.
LEMMA Balanced ==
    ASSUME TypeOK, TypeOK', EachHasItsWake, Waiting' \subseteq Waiting,
           tokens' = tokens, NEW New, IsFiniteSet(New),
           Offered' \subseteq Offered \cup New, Keen \subseteq Keen',
           calls' + Owed' >= calls + Owed + Cardinality(New)
    PROVE  EachHasItsWake'
<1>1. /\ Cardinality(Waiting') \in Nat /\ Cardinality(Waiting) \in Nat
      /\ Cardinality(Waiting') <= Cardinality(Waiting)
  BY Finite, Parts
<1>2. /\ Cardinality(Keen) \in Nat /\ Cardinality(Keen') \in Nat
      /\ Cardinality(Keen) <= Cardinality(Keen')
  <2>1. Keen' \subseteq Waiters /\ IsFiniteSet(Waiters)
    BY SignalAssumption DEF Keen, SignalAssumption
  <2>2. IsFiniteSet(Keen')
    BY <2>1, Parts
  <2> QED
    BY <2>2, Parts
<1>3. /\ Cardinality(Offered') \in Nat /\ Cardinality(Offered) \in Nat
      /\ Cardinality(New) \in Nat
      /\ Cardinality(Offered') <= Cardinality(Offered) + Cardinality(New)
  <2>1. /\ IsFiniteSet(Offered \cup New)
        /\ Cardinality(Offered \cup New) \in Nat
        /\ Cardinality(Offered \cup New) <= Cardinality(Offered) + Cardinality(New)
    BY Finite, Joined
  <2>2. /\ Cardinality(Offered') \in Nat
        /\ Cardinality(Offered') <= Cardinality(Offered \cup New)
    BY <2>1, Parts
  <2>3. Cardinality(New) \in Nat /\ Cardinality(Offered) \in Nat
    BY Finite, FS_CardinalityType
  <2> QED
    BY <2>1, <2>2, <2>3
<1>4. /\ tokens \in Nat /\ calls \in Nat /\ calls' \in Nat
      /\ Owed \in Nat /\ Owed' \in Nat
  BY Finite DEF TypeOK, Owed
<1>5. CASE Waiting = {}
  BY <1>5 DEF EachHasItsWake
<1>6. CASE Cardinality(Waiting) <= tokens
  BY <1>1, <1>4, <1>6 DEF EachHasItsWake
<1>7. CASE Cardinality(Offered) <= Wakes
  BY <1>2, <1>3, <1>4, <1>7 DEF EachHasItsWake, Wakes
<1> QED
  BY <1>5, <1>6, <1>7 DEF EachHasItsWake

\* The same with nothing announced.
LEMMA Unspent ==
    ASSUME TypeOK, TypeOK', EachHasItsWake, Waiting' \subseteq Waiting,
           tokens' = tokens, Offered' \subseteq Offered, Keen \subseteq Keen',
           calls' + Owed' >= calls + Owed
    PROVE  EachHasItsWake'
<1>1. IsFiniteSet({}) /\ Cardinality({}) = 0
  BY FS_EmptySet
<1>2. calls' + Owed' >= calls + Owed + Cardinality({})
  BY <1>1, Finite
<1>3. Offered' \subseteq Offered \cup {}
  OBVIOUS
<1> QED
  BY <1>1, <1>2, <1>3, Balanced

\* Claims do not lose their keenness when no offer is withdrawn.
LEMMA KeenStay ==
    ASSUME Offered \subseteq Offered', UNCHANGED <<poll, locked>>
    PROVE  Keen \subseteq Keen' /\ Waiting' = Waiting
  BY DEF Keen, Waiting, InPoll

\* What notifies without a pass of the registrar owes nothing new.
LEMMA OwedStays ==
    ASSUME TypeOK, TypeOK', pass' = pass, NEW n \in Nat, calls' >= calls + n
    PROVE  Owed' = Owed /\ calls' + Owed' >= calls + Owed + n
<1>1. Owed' = Owed
  BY DEF Owed, Unannounced
<1>2. calls \in Nat /\ calls' \in Nat /\ Owed \in Nat
  BY Finite DEF TypeOK
<1>3. PICK before \in Nat, after \in Nat, owed \in Nat :
          calls = before /\ calls' = after /\ Owed = owed
  BY <1>2
<1>4. after + owed >= before + owed + n
  BY <1>3
<1> QED
  BY <1>1, <1>3, <1>4

\* A pass registers: its notification stands for its only task, or it owes all.
LEMMA PassBalanced ==
    ASSUME TypeOK, TypeOK', EachHasItsWake, NEW S \in SUBSET Tasks, RegisterDue(S)
    PROVE  EachHasItsWake'
<1>1. IsFiniteSet(S) /\ Cardinality(S) \in Nat
  BY Parts, SignalAssumption DEF SignalAssumption
<1>2. Offered \subseteq Offered' /\ Offered' \subseteq Offered \cup S
  BY DEF RegisterDue, Registered, Offered, Claimable, Absent, TypeOK
<1>3. Keen \subseteq Keen' /\ Waiting' = Waiting
  BY <1>2, KeenStay DEF RegisterDue
<1>4. calls' + Owed' >= calls + Owed + Cardinality(S) /\ tokens' = tokens
  <2>1. /\ Notified(1) \in {0, 1} /\ calls \in Nat
        /\ pass' = [registered |-> Cardinality(S), notified |-> Notified(1)]
        /\ calls' = calls + Notified(1) /\ tokens' = tokens
    BY Finite DEF RegisterDue, Notified
  <2>2. Owed = 0
    BY DEF Owed, Unannounced, RegisterDue, NoPass
  <2>3. Owed' = IF Cardinality(S) > Notified(1) THEN Cardinality(S) ELSE 0
    BY <2>1 DEF Owed, Unannounced
  <2> QED
    BY <1>1, <2>1, <2>2, <2>3
<1> QED
  BY <1>1, <1>2, <1>3, <1>4, Balanced

\* The pass ends and pays what it owes.
LEMMA PayingBalanced ==
    ASSUME TypeOK, TypeOK', EachHasItsWake, NotifyLocal
    PROVE  EachHasItsWake'
<1>1. /\ UNCHANGED <<status, batch, paused, tokens, poll, locked>>
      /\ calls' = calls + pass.registered /\ pass' = NoPass
  BY DEF NotifyLocal, Told
<1>2. Offered' = Offered /\ Keen' = Keen /\ Waiting' = Waiting
  BY <1>1 DEF Offered, Claimable, Keen, Waiting, InPoll
<1>3. calls \in Nat /\ pass.registered \in Nat /\ Owed \in {0, pass.registered}
  BY Finite DEF TypeOK, Owed
<1>4. Owed' = 0
  BY <1>1 DEF Owed, Unannounced, NoPass
<1>5. calls' + Owed' >= calls + Owed
  BY <1>1, <1>3, <1>4
<1> QED
  BY <1>1, <1>2, <1>5, Unspent

\* The pass breaks off; a notification stands for all it has registered.
LEMMA FailingBalanced ==
    ASSUME TypeOK, TypeOK', EachHasItsWake, PassFails, ~missed'
    PROVE  EachHasItsWake'
<1>1. UNCHANGED <<status, batch, paused, tokens, calls, poll, locked>>
      /\ pass' = NoPass
  BY DEF PassFails
<1>2. Offered' = Offered /\ Keen' = Keen /\ Waiting' = Waiting
  BY <1>1 DEF Offered, Claimable, Keen, Waiting, InPoll
<1>3. ~Unannounced
  BY Zenon DEF PassFails
<1>4. Owed = 0 /\ Owed' = 0 /\ calls \in Nat
  BY <1>1, <1>3, Finite DEF Owed, Unannounced, NoPass
<1> QED
  BY <1>1, <1>2, <1>4, Unspent

LEMMA RegisteringBalanced ==
    ASSUME TypeOK, TypeOK', EachHasItsWake, NEW S \in SUBSET Tasks,
           \/ CreateBackfill(S)
           \/ \E t \in Tasks : S = {t} /\ RegisterManual(t)
    PROVE  EachHasItsWake'
<1>1. IsFiniteSet(S) /\ Cardinality(S) \in Nat
  BY Parts, SignalAssumption DEF SignalAssumption
<1>2. calls' >= calls + Cardinality(S) /\ tokens' = tokens /\ pass' = pass
  <2>1. calls \in Nat
    BY Finite
  <2>2. ASSUME NEW t \in Tasks, S = {t}, RegisterManual(t)
        PROVE  calls' >= calls + Cardinality(S) /\ tokens' = tokens /\ pass' = pass
    <3>1. Cardinality(S) = 1
      BY <2>2, FS_Singleton
    <3> QED
      BY <2>1, <2>2, <3>1 DEF RegisterManual, Announce, Notified
  <2>3. CASE CreateBackfill(S)
    BY <1>1, <2>1, <2>3 DEF CreateBackfill, Announce, Notified
  <2> QED
    BY <2>2, <2>3
<1>3. Offered \subseteq Offered' /\ Offered' \subseteq Offered \cup S
  BY DEF RegisterManual, CreateBackfill, Registered, Offered, Claimable, Absent,
         TypeOK
<1>4. Keen \subseteq Keen' /\ Waiting' = Waiting
  BY <1>3, KeenStay DEF RegisterManual, CreateBackfill
<1> QED
  BY <1>1, <1>2, <1>3, <1>4, OwedStays, Balanced

\* A pause withdraws offers; a claim that locked one of them is not keen any more,
\* and no two claims locked the same.
LEMMA PausingBalanced ==
    ASSUME TypeOK, TypeOK', EachHasItsWake, PauseBackfill
    PROVE  EachHasItsWake'
<1> DEFINE Lost == Keen \ Keen'
           Withdrawn == Offered \ Offered'
           Row == [w \in Lost |-> CHOOSE t \in locked[w] : t \in Withdrawn]
<1>1. /\ Offered' \subseteq Offered /\ Keen' \subseteq Keen
      /\ Waiting' = Waiting /\ tokens' = tokens /\ calls' = calls
      /\ Owed' = Owed /\ UNCHANGED <<poll, locked>>
  BY DEF PauseBackfill, signalVars, Owed, Unannounced, Offered, Claimable, Keen, Waiting, InPoll
<1>2. ASSUME NEW w \in Lost
      PROVE  \E t \in locked[w] : t \in Withdrawn
  BY <1>1 DEF Keen
<1>3. Row \in [Lost -> Withdrawn] /\ \A w \in Lost : Row[w] \in locked[w]
  BY <1>2
<1>4. \A v, w \in Lost : v # w => locked[v] \cap locked[w] = {}
  BY DEF TypeOK, LockedByOthers, Keen
<1>5. Row \in Injection(Lost, Withdrawn)
  BY <1>3, <1>4 DEF Injection, IsInjective
<1>6. /\ IsFiniteSet(Lost) /\ IsFiniteSet(Withdrawn)
      /\ Cardinality(Lost) \in Nat /\ Cardinality(Withdrawn) \in Nat
  BY Finite, Parts
<1>7. Cardinality(Lost) <= Cardinality(Withdrawn)
  BY <1>5, <1>6, FS_Injection
<1>8. /\ Cardinality(Keen) \in Nat /\ Cardinality(Keen') \in Nat
      /\ Cardinality(Keen) <= Cardinality(Keen') + Cardinality(Lost)
  <2>1. IsFiniteSet(Keen') /\ Cardinality(Keen') \in Nat /\ Cardinality(Keen) \in Nat
    BY <1>1, Finite, Parts
  <2>2. Keen = Keen' \cup Lost
    BY <1>1
  <2>3. Cardinality(Keen' \cup Lost) <= Cardinality(Keen') + Cardinality(Lost)
    BY <1>6, <2>1, Joined
  <2> QED
    BY <2>1, <2>2, <2>3
<1>9. /\ Cardinality(Offered) \in Nat /\ Cardinality(Offered') \in Nat
      /\ Cardinality(Offered) = Cardinality(Offered') + Cardinality(Withdrawn)
  <2>1. /\ IsFiniteSet(Offered') /\ Cardinality(Offered') \in Nat
        /\ Cardinality(Offered) \in Nat
    BY <1>1, Finite, Parts
  <2>2. Offered = Offered' \cup Withdrawn /\ Offered' \cap Withdrawn = {}
    BY <1>1
  <2>3. Cardinality(Offered' \cup Withdrawn)
            = Cardinality(Offered') + Cardinality(Withdrawn)
                - Cardinality(Offered' \cap Withdrawn)
    BY <1>6, <2>1, FS_Union
  <2>4. Cardinality(Offered' \cap Withdrawn) = 0
    BY <2>2, FS_EmptySet
  <2> HIDE DEF Withdrawn
  <2> QED
    BY <1>6, <2>1, <2>2, <2>3, <2>4
<1>10. tokens \in Nat /\ calls \in Nat /\ Owed \in Nat
  BY Finite
<1> HIDE DEF Lost, Withdrawn
<1> QED
  BY <1>1, <1>6, <1>7, <1>8, <1>9, <1>10 DEF EachHasItsWake, Wakes

\* A resume offers again what its batch has waiting, and announces one task.
LEMMA ResumingBalanced ==
    ASSUME TypeOK, TypeOK', EachHasItsWake, ResumeBackfill, ~missed'
    PROVE  EachHasItsWake'
<1> DEFINE New == {t \in batch : status[t] = "due"}
<1>1. IsFiniteSet(New) /\ Cardinality(New) \in Nat
  <2>1. New \subseteq Tasks /\ IsFiniteSet(Tasks)
    BY SignalAssumption DEF SignalAssumption, TypeOK
  <2> QED
    BY <2>1, Parts
<1>2. ~(Cardinality(New) > 1)
  BY Zenon DEF ResumeBackfill
<1>3. calls' >= calls + Cardinality(New) /\ tokens' = tokens /\ pass' = pass
  BY <1>1, <1>2, Finite DEF ResumeBackfill, Announce, Notified
<1>4. Offered' \subseteq Offered \cup New /\ Offered \subseteq Offered'
  BY DEF ResumeBackfill, Offered, Claimable
<1>5. Keen \subseteq Keen' /\ Waiting' = Waiting
  BY <1>4, KeenStay DEF ResumeBackfill
<1> HIDE DEF New
<1> QED
  BY <1>1, <1>3, <1>4, <1>5, OwedStays, Balanced

\* Wakes become tokens; those for which there is no place are not needed.
LEMMA TokensBalanced ==
    ASSUME TypeOK, TypeOK', EachHasItsWake, Cardinality(Waiters) <= MaxTokens,
           NEW n \in 1..calls, AddTokens(n)
    PROVE  EachHasItsWake'
<1>1. /\ Offered' = Offered /\ Keen' = Keen /\ Waiting' = Waiting
      /\ Owed' = Owed
  BY DEF AddTokens, Owed, Unannounced, Offered, Claimable, Keen, Waiting, InPoll
<1>2. /\ tokens \in Nat /\ calls \in Nat /\ MaxTokens \in Nat /\ n \in Nat
      /\ Cardinality(Offered) \in Nat /\ Cardinality(Keen) \in Nat
      /\ Cardinality(Waiting) \in Nat /\ Cardinality(Waiters) \in Nat
      /\ Cardinality(Waiting) <= Cardinality(Waiters) /\ Owed \in Nat
  BY Finite, SignalAssumption DEF SignalAssumption
<1>3. CASE tokens' = MaxTokens
  BY <1>1, <1>2, <1>3 DEF EachHasItsWake
<1>4. CASE tokens' = tokens + n
  <2>1. tokens' + calls' = tokens + calls /\ tokens' >= tokens
    BY <1>2, <1>4 DEF AddTokens
  <2>2. tokens' \in Nat /\ calls' \in Nat
    BY <1>2, <1>4 DEF AddTokens
  <2>3. Wakes' = Wakes
    BY <1>1, <1>2, <2>1, <2>2 DEF Wakes
  <2> QED
    BY <1>1, <1>2, <2>1, <2>2, <2>3 DEF EachHasItsWake
<1> QED
  BY <1>3, <1>4 DEF AddTokens, Filled, Smaller

\* A token that is taken wakes its waiter, who asks again.
LEMMA WakingBalanced ==
    ASSUME TypeOK, TypeOK', EachHasItsWake, NEW w \in Waiters, Wake(w)
    PROVE  EachHasItsWake'
<1>1. /\ Offered' = Offered /\ Waiting' = Waiting \ {w} /\ w \in Waiting
      /\ Keen \subseteq Keen' /\ w \in Keen' /\ w \notin Keen
      /\ tokens' = tokens - 1 /\ calls' = calls /\ Owed' = Owed
  BY DEF Wake, Owed, Unannounced, Offered, Claimable, Keen, Waiting, InPoll, At, TypeOK
<1>2. /\ tokens \in Nat /\ calls \in Nat /\ Cardinality(Offered) \in Nat
      /\ IsFiniteSet(Keen) /\ Cardinality(Keen) \in Nat
      /\ IsFiniteSet(Waiting) /\ Cardinality(Waiting) \in Nat /\ Owed \in Nat
  BY Finite
<1>3. Cardinality(Waiting') = Cardinality(Waiting) - 1
  BY <1>1, <1>2, FS_RemoveElement
<1>4. Cardinality(Keen') \in Nat /\ Cardinality(Keen') >= Cardinality(Keen) + 1
  <2>1. Keen' \subseteq Waiters /\ IsFiniteSet(Waiters)
    BY SignalAssumption DEF Keen, SignalAssumption
  <2>2. IsFiniteSet(Keen') /\ Cardinality(Keen') \in Nat
    BY <2>1, Parts
  <2>3. Cardinality(Keen \cup {w}) = Cardinality(Keen) + 1
    BY <1>1, <1>2, FS_AddElement
  <2>4. Cardinality(Keen \cup {w}) <= Cardinality(Keen')
    BY <1>1, <2>2, Parts
  <2> QED
    BY <1>2, <2>2, <2>3, <2>4
<1> QED
  BY <1>1, <1>2, <1>3, <1>4 DEF EachHasItsWake, Wakes

\* A claim that ends with tasks: one that is keen takes an offer, at least.
LEMMA TakingBalanced ==
    ASSUME TypeOK, TypeOK', AskersHaveRoom, EachHasItsWake,
           NEW w \in Waiters, NEW S \in SUBSET locked[w], TakeTasks(w, S)
    PROVE  EachHasItsWake'
<1>1. /\ Waiting' = Waiting /\ tokens' = tokens /\ calls' = calls
      /\ Offered' = Offered \ S /\ Owed' = Owed
  BY DEF TakeTasks, signalVars, Owed, Unannounced, Waiting, InPoll, At, Away, TypeOK, Offered, Claimable
<1>2. Keen \ {w} \subseteq Keen'
  <2> SUFFICES ASSUME NEW v \in Keen, v # w PROVE v \in Keen'
    OBVIOUS
  <2>1. poll'[v] = poll[v] /\ locked'[v] = locked[v]
    BY DEF Keen, TakeTasks, TypeOK
  <2>2. locked[v] \cap S = {}
    BY DEF Keen, TypeOK, LockedByOthers
  <2> QED
    BY <1>1, <2>1, <2>2 DEF Keen
<1>3. CASE w \notin Keen
  BY <1>1, <1>2, <1>3, Finite, Unspent
<1>4. CASE w \in Keen
  <2>1. S \subseteq Offered /\ S # {}
    <3>1. poll[w].pc = "choosing" /\ locked[w] \subseteq Offered
      BY <1>4 DEF Keen, TakeTasks
    <3>2. /\ IsFiniteSet(locked[w]) /\ Cardinality(locked[w]) \in Nat
          /\ Free(w) \in Nat /\ Free(w) > 0
      BY <3>1, HeldIsFinite DEF AskersHaveRoom
    <3>3. Cardinality(locked[w]) # 0
      BY <3>1, <3>2, FS_EmptySet DEF TypeOK
    <3>4. Cardinality(S) # 0
      BY <3>2, <3>3 DEF TakeTasks, Smaller
    <3> QED
      BY <3>1, <3>4, FS_EmptySet
  <2>2. PICK t \in S : t \in Offered
    BY <2>1
  <2>3. Cardinality(Offered') \in Nat /\ Cardinality(Offered') <= Cardinality(Offered) - 1
    <3>1. /\ IsFiniteSet(Offered \ {t})
          /\ Cardinality(Offered \ {t}) = Cardinality(Offered) - 1
      BY <2>2, Finite, FS_RemoveElement
    <3>2. Offered' \subseteq Offered \ {t}
      BY <1>1
    <3> QED
      BY <3>1, <3>2, Parts
  <2>4. Cardinality(Keen') \in Nat /\ Cardinality(Keen') >= Cardinality(Keen) - 1
    <3>1. Keen' \subseteq Waiters /\ IsFiniteSet(Waiters)
      BY SignalAssumption DEF Keen, SignalAssumption
    <3>2. IsFiniteSet(Keen') /\ Cardinality(Keen') \in Nat
      BY <3>1, Parts
    <3>3. Cardinality(Keen \ {w}) = Cardinality(Keen) - 1
      BY <1>4, Finite, FS_RemoveElement
    <3>4. Cardinality(Keen \ {w}) <= Cardinality(Keen')
      BY <1>2, <3>2, Parts
    <3> QED
      BY <3>2, <3>3, <3>4
  <2>5. /\ tokens \in Nat /\ calls \in Nat /\ Cardinality(Offered) \in Nat
        /\ Cardinality(Keen) \in Nat /\ Owed \in Nat
    BY Finite
  <2> QED
    BY <1>1, <2>3, <2>4, <2>5 DEF EachHasItsWake, Wakes
<1> QED
  BY <1>3, <1>4

\* Where every worker can run every task, a claim that finds nothing and passes
\* nothing by has seen that nothing is on offer.
LEMMA FindingNothingBalanced ==
    ASSUME TypeOK, TypeOK', Interchangeable, NEW w \in Waiters, ClaimNothing(w),
           ~missed'
    PROVE  EachHasItsWake'
<1>1. ~PassesBy(w) /\ Visible(w) = {}
  BY Zenon DEF ClaimNothing
<1>2. Candidates(w) = Offered
  BY DEF Interchangeable, Candidates, Offered
<1>3. Offered = {}
  BY <1>1, <1>2 DEF PassesBy, Visible
<1>4. Offered' = {}
  BY <1>3 DEF ClaimNothing, Offered, Claimable
<1>5. /\ IsFiniteSet(Keen') /\ Cardinality(Keen') \in Nat
  <2>1. Keen' \subseteq Waiters /\ IsFiniteSet(Waiters)
    BY SignalAssumption DEF Keen, SignalAssumption
  <2> QED
    BY <2>1, Parts
<1>6. tokens' \in Nat /\ calls' \in Nat /\ Owed' \in Nat
  BY SignalAssumption DEF TypeOK, SignalAssumption, Owed
<1>7. Cardinality(Offered') = 0
  BY <1>4, FS_EmptySet
<1> QED
  BY <1>5, <1>6, <1>7 DEF EachHasItsWake, Wakes

LEMMA AskersKeepRoom ==
    ASSUME TypeOK, TypeOK', AskersHaveRoom, [Next]_vars
    PROVE  AskersHaveRoom'
<1> SUFFICES ASSUME NEW v \in Waiters, poll'[v].pc # "away"
             PROVE  Free(v)' > 0
  BY DEF AskersHaveRoom
<1>1. CASE UNCHANGED <<poll, held>>
  BY <1>1 DEF AskersHaveRoom, Free
<1>2. CASE Tick
  <2>1. poll[v].pc # "away" /\ held' = held
    BY <1>2 DEF Tick, At
  <2> QED
    BY <2>1 DEF AskersHaveRoom, Free
<1>3. CASE Restart
  BY <1>3 DEF Restart, Away, At
<1>4. ASSUME NEW w \in Waiters, Poll(w) \/ LockCandidates(w) \/ ClaimNothing(w)
                                 \/ WaitExpires(w) \/ Wake(w)
      PROVE  Free(v)' > 0
  <2>1. held' = held
    BY <1>4 DEF Poll, LockCandidates, ClaimNothing, WaitExpires, Wake
  <2>2. Free(v) > 0
    BY <1>4 DEF Poll, LockCandidates, ClaimNothing, WaitExpires, WaitOver, Wake,
                AskersHaveRoom, TypeOK
  <2> QED
    BY <2>1, <2>2 DEF Free
<1>5. ASSUME NEW w \in Waiters, NEW S \in SUBSET locked[w], TakeTasks(w, S)
      PROVE  Free(v)' > 0
  <2>1. v # w
    BY <1>5 DEF TakeTasks, Away, At, TypeOK
  <2>2. poll'[v] = poll[v] /\ held'[v] = held[v]
    BY <1>5, <2>1 DEF TakeTasks, TypeOK
  <2> QED
    BY <2>2 DEF AskersHaveRoom, Free
<1>6. ASSUME NEW t \in Tasks, End(t) PROVE Free(v)' > 0
  <2>1. poll' = poll /\ held'[v] = held[v] \ {t}
    BY <1>6 DEF End, Complete, Fail, Requeue, Dropped
  <2>2. IsFiniteSet(held[v]) /\ Cardinality(held[v]) \in Nat
    BY HeldIsFinite
  <2>3. /\ Cardinality(held'[v]) \in Nat
        /\ Cardinality(held'[v]) <= Cardinality(held[v])
    BY <2>1, <2>2, Parts
  <2>4. Free(v) > 0
    BY <2>1 DEF AskersHaveRoom
  <2> QED
    BY <2>2, <2>3, <2>4, SignalAssumption DEF Free, SignalAssumption
<1>7. CASE \/ NotifyLocal \/ PassFails \/ RegisterKnown \/ PauseBackfill
           \/ ResumeBackfill \/ Disconnect \/ Reconnect \/ UNCHANGED vars
  BY <1>1, <1>7 DEF NotifyLocal, PassFails, RegisterKnown, PauseBackfill,
                    ResumeBackfill, Disconnect, Reconnect, vars
<1>8. ASSUME NEW S \in SUBSET Tasks, RegisterDue(S) \/ CreateBackfill(S)
      PROVE  Free(v)' > 0
  BY <1>1, <1>8 DEF RegisterDue, CreateBackfill
<1>9. ASSUME NEW n \in 1..calls, AddTokens(n) PROVE Free(v)' > 0
  BY <1>1, <1>9 DEF AddTokens
<1>10. ASSUME NEW t \in Tasks, RegisterManual(t) \/ BecomeDue(t)
       PROVE  Free(v)' > 0
  BY <1>1, <1>10 DEF RegisterManual, BecomeDue
<1> QED
  BY <1>2, <1>3, <1>4, <1>5, <1>6, <1>7, <1>8, <1>9, <1>10 DEF Next, Proceed

\* What was missed stays missed, and what a worker can run does not change.
LEMMA PremiseWasTrue ==
    ASSUME [Next]_vars, Premise'
    PROVE  Premise
<1>1. routing' = routing
  BY DEF Next, vars, RegisterDue, NotifyLocal, PassFails, RegisterManual,
         CreateBackfill, RegisterKnown, PauseBackfill,
         ResumeBackfill, AddTokens, Disconnect, Reconnect, Restart, Tick, Proceed,
         Poll, LockCandidates, ClaimNothing, TakeTasks, WaitExpires, Wake, End,
         Complete, Fail, Requeue, BecomeDue
<1>2. missed => missed'
  BY Zenon
     DEF Next, vars, RegisterDue, NotifyLocal, PassFails, RegisterManual,
         CreateBackfill, RegisterKnown, PauseBackfill,
         ResumeBackfill, AddTokens, Disconnect, Reconnect, Restart, Tick, Proceed,
         Poll, LockCandidates, ClaimNothing, TakeTasks, WaitExpires, Wake, End,
         Complete, Fail, Requeue, BecomeDue
<1> QED
  BY <1>1, <1>2, Zenon DEF Premise, Interchangeable

LEMMA WakesStayBalanced ==
    ASSUME TypeOK, TypeOK', AskersHaveRoom, WakesInv, [Next]_vars
    PROVE  WakesInv'
<1> SUFFICES ASSUME Premise' PROVE EachHasItsWake'
  BY DEF WakesInv
<1>1. Premise /\ EachHasItsWake
  BY PremiseWasTrue DEF WakesInv
<1>2. /\ Interchangeable /\ Cardinality(Waiters) <= MaxTokens /\ ~missed'
      /\ calls \in Nat
  BY <1>1, Finite, Zenon DEF Premise
<1>3. ASSUME NEW S \in SUBSET Tasks, RegisterDue(S) \/ CreateBackfill(S)
      PROVE  EachHasItsWake'
  BY <1>1, <1>3, PassBalanced, RegisteringBalanced
<1>4. CASE RegisterKnown \/ Disconnect \/ Reconnect \/ UNCHANGED vars
  <2>1. /\ UNCHANGED <<status, batch, paused, tokens, poll, locked>>
        /\ calls' + Owed' >= calls + Owed
    <3>1. /\ UNCHANGED <<status, batch, paused, tokens, poll, locked, pass>>
          /\ calls' >= calls + 0
      BY <1>2, <1>4 DEF RegisterKnown, Disconnect, Reconnect, vars
    <3> QED
      BY <1>2, <3>1, OwedStays, Finite
  <2>2. Offered' = Offered /\ Keen' = Keen /\ Waiting' = Waiting
    BY <2>1 DEF Offered, Claimable, Keen, Waiting, InPoll
  <2> QED
    BY <1>1, <2>1, <2>2, Unspent
<1>5. CASE PauseBackfill
  BY <1>1, <1>5, PausingBalanced
<1>6. CASE ResumeBackfill
  BY <1>1, <1>2, <1>6, ResumingBalanced
<1>7. ASSUME NEW n \in 1..calls, AddTokens(n) PROVE EachHasItsWake'
  BY <1>1, <1>2, <1>7, TokensBalanced
<1>8. CASE Restart
  BY <1>8 DEF Restart, Away, At, EachHasItsWake, Waiting, InPoll
<1>9. CASE Tick
  <2>1. /\ UNCHANGED <<status, batch, paused, tokens, calls, pass, locked>>
        /\ \A w \in Waiters : poll'[w].pc = poll[w].pc
    BY <1>9 DEF Tick, signalVars, At
  <2>2. Offered' = Offered /\ Keen' = Keen /\ Waiting' = Waiting
    BY <2>1 DEF Offered, Claimable, Keen, Waiting, InPoll
  <2>3. calls' + Owed' >= calls + Owed
    BY <1>2, <2>1, OwedStays, Finite
  <2> QED
    BY <1>1, <2>1, <2>2, <2>3, Unspent
<1>10. ASSUME NEW w \in Waiters, Poll(w) \/ LockCandidates(w) \/ WaitExpires(w)
       PROVE  EachHasItsWake'
  <2>1. /\ UNCHANGED <<status, batch, paused, tokens, calls, pass>>
        /\ Offered' = Offered
    BY <1>10 DEF Poll, LockCandidates, WaitExpires, signalVars, Offered, Claimable
  <2>2. Waiting' \subseteq Waiting
    BY <1>10 DEF Poll, LockCandidates, WaitExpires, Waiting, InPoll, At, TypeOK
  <2>3. Visible(w) \subseteq Offered
    BY SignalAssumption
       DEF Visible, Candidates, Offered, TypeOK, SignalAssumption
  <2>4. Keen \subseteq Keen'
    BY <1>10, <2>1, <2>3
       DEF Poll, LockCandidates, WaitExpires, WaitOver, Keen, At, TypeOK
  <2>5. calls' + Owed' >= calls + Owed
    BY <1>2, <2>1, OwedStays, Finite
  <2> QED
    BY <1>1, <2>1, <2>2, <2>4, <2>5, Unspent
<1>11. ASSUME NEW w \in Waiters, ClaimNothing(w) PROVE EachHasItsWake'
  BY <1>2, <1>11, FindingNothingBalanced
<1>12. ASSUME NEW w \in Waiters, NEW S \in SUBSET locked[w], TakeTasks(w, S)
       PROVE  EachHasItsWake'
  BY <1>1, <1>12, TakingBalanced
<1>13. ASSUME NEW w \in Waiters, Wake(w) PROVE EachHasItsWake'
  BY <1>1, <1>13, WakingBalanced
<1>14. ASSUME NEW t \in Tasks, End(t) PROVE EachHasItsWake'
  <2>1. UNCHANGED <<batch, paused, tokens, poll, locked, pass>> /\ calls' >= calls
    BY <1>2, <1>14 DEF End, Complete, Fail, Requeue, signalVars, Notified
  <2>2. Offered' = Offered
    BY <1>14, <2>1 DEF End, Complete, Fail, Requeue, Offered, Claimable, TypeOK
  <2>3. Keen' = Keen /\ Waiting' = Waiting
    BY <2>1, <2>2 DEF Keen, Waiting, InPoll
  <2>4. calls' + Owed' >= calls + Owed
    BY <1>2, <2>1, OwedStays, Finite
  <2> QED
    BY <1>1, <2>1, <2>2, <2>3, <2>4, Unspent
<1>15. ASSUME NEW t \in Tasks, BecomeDue(t) PROVE EachHasItsWake'
  BY <1>2, <1>15, Zenon DEF BecomeDue
<1>16. CASE NotifyLocal
  BY <1>1, <1>16, PayingBalanced
<1>17. CASE PassFails
  BY <1>1, <1>2, <1>17, FailingBalanced
<1>18. ASSUME NEW t \in Tasks, RegisterManual(t) PROVE EachHasItsWake'
  BY <1>1, <1>18, RegisteringBalanced
<1> QED
  BY <1>3, <1>4, <1>5, <1>6, <1>7, <1>8, <1>9, <1>10, <1>11, <1>12, <1>13, <1>14,
     <1>15, <1>16, <1>17, <1>18 DEF Next, Proceed

LEMMA Inductive == Spec => []IInv
<1>1. Init => IInv
  <2> SUFFICES ASSUME Init PROVE AskersHaveRoom /\ WakesInv
    BY TypesHoldAtFirst DEF IInv
  <2>1. \A w \in Waiters : poll[w].pc = "away"
    BY DEF Init, Away, At
  <2> QED
    BY <2>1 DEF AskersHaveRoom, WakesInv, EachHasItsWake, Waiting, InPoll
<1>2. IInv /\ [Next]_vars => IInv'
  <2> SUFFICES ASSUME IInv, [Next]_vars PROVE IInv'
    OBVIOUS
  <2>1. TypeOK'
    BY TypesStay DEF IInv
  <2> QED
    BY <2>1, AskersKeepRoom, WakesStayBalanced DEF IInv
<1> QED
  BY <1>1, <1>2, PTL DEF Spec

\* No worker sleeps beside an announced task, for any number of tasks and workers
\* and any folding or delay of PostgreSQL's notifications, connected or not: each
\* step of the signal, of the claims and of the batches keeps a wake for each task
\* on offer or for each worker that waits.  This holds until something is missed:
\* two claims meet, a task becomes due after a delay, several are resumed at once,
\* or a pass of the registrar breaks off whose notification is not enough.
THEOREM NoWakeIsLost == Spec => []NoLostWakeup
<1>1. IInv => NoLostWakeup
  <2> SUFFICES ASSUME IInv, Premise
               PROVE  Smaller(Cardinality(Offered), Cardinality(Waiting))
                          <= WakesUnderWay
    BY Zenon DEF NoLostWakeup, Premise, Offered, Waiting
  <2> DEFINE Asking == InPoll({"claiming", "choosing"})
  <2>1. /\ IsFiniteSet(Asking) /\ Cardinality(Asking) \in Nat
        /\ Cardinality(Keen) <= Cardinality(Asking)
    <3>1. Asking \subseteq Waiters /\ Keen \subseteq Asking /\ IsFiniteSet(Waiters)
      BY SignalAssumption DEF InPoll, Keen, SignalAssumption
    <3>2. IsFiniteSet(Asking) /\ Cardinality(Asking) \in Nat
      BY <3>1, Parts
    <3> QED
      BY <3>1, <3>2, Parts
  <2>2. EachHasItsWake /\ TypeOK
    BY DEF IInv, WakesInv
  <2>3. Waiting = {} => Cardinality(Waiting) = 0
    BY FS_EmptySet
  <2>4. /\ Cardinality(Offered) \in Nat /\ Cardinality(Waiting) \in Nat
        /\ Cardinality(Keen) \in Nat /\ tokens \in Nat /\ calls \in Nat
    BY <2>2, Finite
  <2>5. WakesUnderWay = tokens + calls + pass.registered + Cardinality(Asking)
    BY DEF WakesUnderWay
  <2>6. /\ pass.registered \in Nat /\ Owed \in Nat
        /\ Owed <= pass.registered
    BY <2>2, Finite DEF TypeOK, Owed
  <2> HIDE DEF Asking
  <2> QED
    BY <2>1, <2>2, <2>3, <2>4, <2>5, <2>6 DEF EachHasItsWake, Wakes, Smaller
<1> QED
  BY <1>1, Inductive, PTL
=============================================================================
