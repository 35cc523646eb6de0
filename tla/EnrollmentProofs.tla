-------------------------- MODULE EnrollmentProofs --------------------------
(***************************************************************************)
(* Proofs about Enrollment: types, and the promise that no enrollment      *)
(* spends a use its token does not have, for any number of tokens,         *)
(* processes and requests.                                                 *)
(***************************************************************************)
EXTENDS Enrollment, TLAPS

Held(r, t) == requests[r] # NULL /\ requests[r].token = t

ProcessesTyped ==
    /\ pc \in [Processes -> {"down", "enrolling", "saving", "writing", "starting",
                             "admitted", "online", "heard"}]
    /\ identity \in [Processes -> Optional(Nat)]
    /\ state_file \in [Processes -> Optional(Nat \cup {Torn})]

\* A process that passed its enrollment has an identity, and whoever has one
\* has a node that was enrolled.
IdentitiesAreKnown ==
    \A p \in Processes :
        /\ pc[p] \in {"saving", "writing", "starting", "admitted", "online", "heard"}
           => identity[p] \in Nat
        /\ identity[p] \in Nat \/ state_file[p] \in Nat => workers[NodeOf[p]] # NULL

\* A row held for update still has a use to spend, and one holder only.
LocksHold ==
    \A r \in Requests, t \in Tokens : Held(r, t) =>
        /\ worker_enrollments[t] # NULL
        /\ worker_enrollments[t].uses < worker_enrollments[t].max_uses
        /\ \A s \in Requests : Held(s, t) => s = r

IInv == TypeOK /\ IdentitiesAreKnown /\ LocksHold

-----------------------------------------------------------------------------
(* What the actions do to one group of variables *)

LEMMA NullIsNoRow ==
    \A x : x \in EnrollmentRow \cup WorkerRow \cup CredentialRow \cup Request \cup Nat
           => x # NULL
  BY EnrollmentAssumption

\* A process that exits or proceeds keeps its type.
LEMMA ExitTyped ==
    ASSUME ProcessesTyped, NEW p \in Processes, Exit(p)
    PROVE  ProcessesTyped'
  BY DEF ProcessesTyped, Exit, Optional

LEMMA ProceedTyped ==
    ASSUME ProcessesTyped, NEW p \in Processes,
           NEW where \in {"admitted", "online", "heard"}, Proceed(p, where)
    PROVE  ProcessesTyped'
  BY DEF ProcessesTyped, Proceed

LEMMA AnswerTyped ==
    ASSUME ProcessesTyped, NEW r \in Requests, NEW id \in Optional(Nat),
           Answer(r, id)
    PROVE  ProcessesTyped'
<1>1. r[1] \in Processes
  BY DEF Requests
<1> QED
  BY <1>1 DEF ProcessesTyped, Answer, process

\* A process that exits forgets its identity; nobody else changes.
LEMMA ExitKnown ==
    ASSUME ProcessesTyped, IdentitiesAreKnown, NEW p \in Processes, Exit(p),
           \A n \in Nodes : workers[n] # NULL => workers'[n] # NULL
    PROVE  IdentitiesAreKnown'
<1>1. \A q \in Processes : q # p => pc'[q] = pc[q] /\ identity'[q] = identity[q]
  BY DEF Exit, ProcessesTyped
<1>2. pc'[p] = "down" /\ identity'[p] = NULL /\ NULL \notin Nat
  BY EnrollmentAssumption DEF Exit, ProcessesTyped
<1>3. \A q \in Processes : state_file'[q] = state_file[q] /\ NodeOf[q] \in Nodes
  BY EnrollmentAssumption DEF Exit
<1> QED
  BY <1>1, <1>2, <1>3 DEF IdentitiesAreKnown

LEMMA ProceedKnown ==
    ASSUME ProcessesTyped, IdentitiesAreKnown, NEW p \in Processes,
           NEW where, Proceed(p, where), identity[p] \in Nat,
           \A n \in Nodes : workers[n] # NULL => workers'[n] # NULL
    PROVE  IdentitiesAreKnown'
<1>1. \A q \in Processes : q # p => pc'[q] = pc[q]
  BY DEF Proceed, ProcessesTyped
<1>2. \A q \in Processes : /\ identity'[q] = identity[q]
                           /\ state_file'[q] = state_file[q] /\ NodeOf[q] \in Nodes
  BY EnrollmentAssumption DEF Proceed
<1> QED
  BY <1>1, <1>2 DEF IdentitiesAreKnown

\* An answer with an identity is for a node that is enrolled by then.
LEMMA AnswerKnown ==
    ASSUME ProcessesTyped, IdentitiesAreKnown, NEW r \in Requests,
           NEW id \in Optional(Nat), Answer(r, id),
           id # NULL => workers'[NodeOf[r[1]]] # NULL,
           \A n \in Nodes : workers[n] # NULL => workers'[n] # NULL
    PROVE  IdentitiesAreKnown'
<1>1. r[1] \in Processes /\ \A q \in Processes : NodeOf[q] \in Nodes
  BY EnrollmentAssumption DEF Requests
<1>2. NULL \notin Nat
  BY EnrollmentAssumption
<1>3. CASE requests[r].awaited
  <2>1. /\ \A q \in Processes : q # r[1] => pc'[q] = pc[q] /\ identity'[q] = identity[q]
        /\ pc'[r[1]] = IF id # NULL THEN "saving" ELSE "down"
        /\ identity'[r[1]] = id
        /\ state_file' = state_file
    BY <1>1, <1>3 DEF Answer, ProcessesTyped
  <2>2. ASSUME NEW q \in Processes, q # r[1]
        PROVE  /\ pc'[q] \in {"saving", "writing", "starting", "admitted", "online",
                              "heard"} => identity'[q] \in Nat
               /\ identity'[q] \in Nat \/ state_file'[q] \in Nat
                  => workers'[NodeOf[q]] # NULL
    BY <1>1, <2>1, <2>2 DEF IdentitiesAreKnown
  <2>3. CASE id = NULL
    BY <1>1, <1>2, <2>1, <2>2, <2>3 DEF IdentitiesAreKnown
  <2>4. CASE id # NULL
    BY <1>1, <1>2, <2>1, <2>2, <2>4 DEF IdentitiesAreKnown, Optional
  <2> QED
    BY <2>3, <2>4
<1>4. CASE ~requests[r].awaited
  BY <1>1, <1>4 DEF Answer, process, IdentitiesAreKnown
<1> QED
  BY <1>3, <1>4

\* Locks that are only released, over rows that stay, go on holding.
LEMMA LocksStay ==
    ASSUME LocksHold,
           \A r \in Requests, t \in Tokens : Held(r, t)' => Held(r, t),
           \A t \in Tokens : Locked(t)' =>
               /\ worker_enrollments[t] # NULL =>
                      /\ worker_enrollments'[t] # NULL
                      /\ worker_enrollments'[t].uses = worker_enrollments[t].uses
                      /\ worker_enrollments'[t].max_uses = worker_enrollments[t].max_uses
    PROVE  LocksHold'
<1> SUFFICES ASSUME NEW r \in Requests, NEW t \in Tokens, Held(r, t)'
             PROVE  /\ worker_enrollments'[t] # NULL
                    /\ worker_enrollments'[t].uses < worker_enrollments'[t].max_uses
                    /\ \A s \in Requests : Held(s, t)' => s = r
  BY DEF LocksHold
<1>1. Locked(t)' /\ Held(r, t)
  BY DEF Locked, Held
<1> QED
  BY <1>1 DEF LocksHold

-----------------------------------------------------------------------------
(* The steps *)

LEMMA InitIsTyped == Init => IInv
<1> SUFFICES ASSUME Init
             PROVE  IInv
  OBVIOUS
<1>1. TypeOK
  BY EnrollmentAssumption DEF Init, TypeOK, Optional
<1>2. IdentitiesAreKnown
  BY EnrollmentAssumption DEF Init, IdentitiesAreKnown
<1>3. LocksHold
  BY DEF Init, LocksHold, Held
<1> QED
  BY <1>1, <1>2, <1>3 DEF IInv

\* A step of an operator on the tokens.
LEMMA TokenStep ==
    ASSUME IInv, NEW t \in Tokens, NEW row \in EnrollmentRow,
           worker_enrollments' = [worker_enrollments EXCEPT ![t] = row],
           UNCHANGED <<workers, worker_credentials, issued, requests, process, crashes>>,
           \/ ~Locked(t)
           \/ /\ worker_enrollments[t] # NULL
              /\ row.uses = worker_enrollments[t].uses
              /\ row.max_uses = worker_enrollments[t].max_uses
    PROVE  IInv'
<1>1. TypeOK'
  BY DEF IInv, TypeOK, Optional, process
<1>2. IdentitiesAreKnown'
  BY DEF IInv, IdentitiesAreKnown, process
<1>3. \A r \in Requests, u \in Tokens : Held(r, u)' => Held(r, u)
  BY DEF Held
<1>4. \A u \in Tokens : Locked(u)' => Locked(u)
  BY DEF Locked
<1>5. row # NULL
  BY NullIsNoRow
<1>6. \A u \in Tokens : u # t => worker_enrollments'[u] = worker_enrollments[u]
  BY DEF IInv, TypeOK
<1>7. worker_enrollments'[t] = row
  BY DEF IInv, TypeOK
<1>8. LocksHold'
  BY <1>3, <1>4, <1>5, <1>6, <1>7, LocksStay DEF IInv
<1> QED
  BY <1>1, <1>2, <1>8 DEF IInv

\* A step of a process that leaves the tokens, the credentials and the
\* requests alone.
LEMMA ProcessStep ==
    ASSUME IInv, ProcessesTyped', IdentitiesAreKnown',
           workers' \in [Nodes -> Optional(WorkerRow)],
           \A n \in Nodes : workers'[n] = NULL <=> workers[n] = NULL,
           crashes' \in 0..MaxCrashes,
           UNCHANGED <<worker_enrollments, worker_credentials, issued, requests>>
    PROVE  IInv'
<1>1. TypeOK'
  BY DEF IInv, TypeOK, ProcessesTyped
<1>2. LocksHold'
  BY DEF IInv, LocksHold, Held
<1> QED
  BY <1>1, <1>2 DEF IInv

\* A step that leaves the tables alone and releases locks at most.
LEMMA RequestStep ==
    ASSUME IInv, ProcessesTyped', IdentitiesAreKnown',
           requests' \in [Requests -> Optional(Request)],
           \A r \in Requests, t \in Tokens : Held(r, t)' => Held(r, t),
           crashes' \in 0..MaxCrashes, UNCHANGED database
    PROVE  IInv'
<1>1. TypeOK'
  BY DEF IInv, TypeOK, ProcessesTyped, database
<1>2. LocksHold'
  BY LocksStay DEF IInv, database
<1> QED
  BY <1>1, <1>2 DEF IInv

LEMMA OperatorSteps ==
    ASSUME IInv
    PROVE  /\ \A t \in Tokens, limit \in UseLimits : CreateEnrollment(t, limit) => IInv'
           /\ \A limit \in UseLimits : BootstrapEnrollment(limit) => IInv'
           /\ \A t \in Tokens : Expire(t) => IInv'
           /\ \A n \in Nodes, state \in OperatorStates :
                  SetWorkerState(n, state) => IInv'
           /\ \A n \in Nodes : RevokeWorker(n) => IInv'
           /\ \A p \in Processes : RemoveStateFile(p) => IInv'
<1>a. TypeOK
  BY DEF IInv
<1>1. ASSUME NEW t \in Tokens, NEW limit \in UseLimits, CreateEnrollment(t, limit)
      PROVE  IInv'
  <2>1. [max_uses |-> limit, uses |-> 0, expired |-> FALSE] \in EnrollmentRow
    BY DEF EnrollmentRow
  <2>2. ~Locked(t)
    BY <1>1 DEF CreateEnrollment, IInv, LocksHold, Locked, Held
  <2> QED
    BY <1>1, <2>1, <2>2, TokenStep DEF CreateEnrollment
<1>2. ASSUME NEW limit \in UseLimits, BootstrapEnrollment(limit)
      PROVE  IInv'
  <2> DEFINE row == [max_uses |-> limit, expired |-> FALSE,
                     uses |-> IF worker_enrollments[BootstrapToken] = NULL THEN 0
                              ELSE worker_enrollments[BootstrapToken].uses]
  <2>1. row \in EnrollmentRow
    BY <1>a, EnrollmentAssumption DEF TypeOK, EnrollmentRow, Optional
  <2>2. worker_enrollments' = [worker_enrollments EXCEPT ![BootstrapToken] = row]
    BY <1>2, <1>a, EnrollmentAssumption DEF BootstrapEnrollment, TypeOK
  <2>3. ~Locked(BootstrapToken)
    BY <1>2 DEF BootstrapEnrollment
  <2> HIDE DEF row
  <2> QED
    BY <1>2, <2>1, <2>2, <2>3, TokenStep, EnrollmentAssumption DEF BootstrapEnrollment
<1>3. ASSUME NEW t \in Tokens, Expire(t)
      PROVE  IInv'
  <2>1. worker_enrollments[t] \in EnrollmentRow
    BY <1>3, <1>a DEF Expire, TypeOK, Optional
  <2> DEFINE row == [max_uses |-> worker_enrollments[t].max_uses,
                     uses |-> worker_enrollments[t].uses, expired |-> TRUE]
  <2>2. row \in EnrollmentRow
    BY <2>1 DEF EnrollmentRow
  <2>3. worker_enrollments' = [worker_enrollments EXCEPT ![t] = row]
    BY <1>3, <1>a DEF Expire, TypeOK
  <2>4. /\ row.uses = worker_enrollments[t].uses
        /\ row.max_uses = worker_enrollments[t].max_uses
    OBVIOUS
  <2> HIDE DEF row
  <2> QED
    BY <1>3, <2>2, <2>3, <2>4, TokenStep DEF Expire
<1>4. ASSUME NEW n \in Nodes, NEW state \in OperatorStates, SetWorkerState(n, state)
      PROVE  IInv'
  <2>1. workers[n] \in WorkerRow
    BY <1>4, <1>a DEF SetWorkerState, TypeOK, Optional
  <2>2. workers' = [workers EXCEPT ![n] =
            [instance |-> workers[n].instance, desired_state |-> state]]
    BY <1>4, <1>a DEF SetWorkerState, TypeOK
  <2>3. [instance |-> workers[n].instance, desired_state |-> state] \in WorkerRow
    BY <2>1, EnrollmentAssumption DEF WorkerRow
  <2>4. workers' \in [Nodes -> Optional(WorkerRow)]
        /\ \A m \in Nodes : workers'[m] = NULL <=> workers[m] = NULL
    BY <1>a, <2>1, <2>2, <2>3, NullIsNoRow DEF TypeOK, Optional
  <2>5. ProcessesTyped' /\ IdentitiesAreKnown'
    BY <1>4, <2>4, EnrollmentAssumption
       DEF SetWorkerState, process, IInv, TypeOK, ProcessesTyped, IdentitiesAreKnown
  <2> QED
    BY <1>4, <1>a, <2>4, <2>5, ProcessStep DEF SetWorkerState, TypeOK
<1>5. ASSUME NEW n \in Nodes, RevokeWorker(n)
      PROVE  IInv'
  <2>1. worker_credentials[n] \in CredentialRow /\ workers[n] \in WorkerRow
    BY <1>5, <1>a DEF RevokeWorker, TypeOK, Optional
  <2>2. /\ workers' = [workers EXCEPT ![n] =
               [instance |-> workers[n].instance, desired_state |-> "disabled"]]
        /\ worker_credentials' = [worker_credentials EXCEPT ![n] = RevokedCredential(n)]
    BY <1>5, <1>a DEF RevokeWorker, TypeOK
  <2>3. [instance |-> workers[n].instance, desired_state |-> "disabled"] \in WorkerRow
    BY <2>1 DEF WorkerRow, WorkerStates
  <2>4. RevokedCredential(n) \in CredentialRow
    BY <2>1 DEF CredentialRow, RevokedCredential
  <2>5. /\ workers' \in [Nodes -> Optional(WorkerRow)]
        /\ \A m \in Nodes : workers'[m] = NULL <=> workers[m] = NULL
    BY <1>a, <2>1, <2>2, <2>3, NullIsNoRow DEF TypeOK, Optional
  <2>6. /\ worker_credentials' \in [Nodes -> Optional(CredentialRow)]
        /\ \A m \in Nodes : worker_credentials'[m] = NULL <=> worker_credentials[m] = NULL
    BY <1>a, <2>1, <2>2, <2>4, NullIsNoRow DEF TypeOK, Optional
  <2>7. TypeOK'
    BY <1>5, <1>a, <2>5, <2>6 DEF RevokeWorker, TypeOK, process
  <2>8. IdentitiesAreKnown'
    BY <1>5, <2>5, EnrollmentAssumption
       DEF RevokeWorker, process, IInv, IdentitiesAreKnown
  <2>9. LocksHold'
    BY <1>5 DEF RevokeWorker, IInv, LocksHold, Held
  <2> QED
    BY <2>7, <2>8, <2>9 DEF IInv
<1>6. ASSUME NEW p \in Processes, RemoveStateFile(p)
      PROVE  IInv'
  <2>1. ProcessesTyped'
    BY <1>6, <1>a DEF RemoveStateFile, TypeOK, ProcessesTyped, Optional
  <2>2. IdentitiesAreKnown'
    BY <1>6, <1>a, EnrollmentAssumption
       DEF RemoveStateFile, database, IInv, TypeOK, IdentitiesAreKnown
  <2> QED
    BY <1>6, <1>a, <2>1, <2>2, ProcessStep DEF RemoveStateFile, database, TypeOK
<1> QED
  BY <1>1, <1>2, <1>3, <1>4, <1>5, <1>6

LEMMA RequestSteps ==
    ASSUME IInv
    PROVE  /\ \A p \in Processes, k \in Slots : SendEnrollment(p, k) => IInv'
           /\ \A r \in Requests, t \in Tokens : LockEnrollment(r, t) => IInv'
           /\ \A r \in Requests : FailEnrollment(r) => IInv'
           /\ \A r \in Requests : EnrollWorker(r) => IInv'
<1>a. TypeOK /\ ProcessesTyped /\ IdentitiesAreKnown /\ LocksHold
  BY DEF IInv, TypeOK, ProcessesTyped
<1>1. ASSUME NEW p \in Processes, NEW k \in Slots, SendEnrollment(p, k)
      PROVE  IInv'
  <2>1. <<p, k>> \in Requests
    BY DEF Requests
  <2> DEFINE sent == [token |-> NULL, awaited |-> TRUE]
  <2>2. sent \in Request
    BY DEF Request
  <2>3. requests' \in [Requests -> Optional(Request)]
    BY <1>1, <1>a, <2>1, <2>2 DEF SendEnrollment, TypeOK, Optional
  <2>4. \A r \in Requests, t \in Tokens : Held(r, t)' => Held(r, t)
    BY <1>1, <1>a, <2>1, EnrollmentAssumption DEF SendEnrollment, TypeOK, Held
  <2>5. ProcessesTyped'
    BY <1>1, <1>a DEF SendEnrollment, ProcessesTyped
  <2>6. IdentitiesAreKnown'
    BY <1>1, <1>a DEF SendEnrollment, database, ProcessesTyped, IdentitiesAreKnown
  <2> QED
    BY <1>1, <1>a, <2>3, <2>4, <2>5, <2>6, RequestStep DEF SendEnrollment, TypeOK
<1>2. ASSUME NEW r \in Requests, NEW t \in Tokens, LockEnrollment(r, t)
      PROVE  IInv'
  <2> DEFINE held == [token |-> t, awaited |-> requests[r].awaited]
  <2>1. requests[r] \in Request
    BY <1>2, <1>a DEF LockEnrollment, TypeOK, Optional
  <2>2. held \in Request
    BY <2>1 DEF Request
  <2>3. requests' = [requests EXCEPT ![r] = held]
    BY <1>2 DEF LockEnrollment
  <2>4. held.token = t
    OBVIOUS
  <2> HIDE DEF held
  <2>5. TypeOK'
    BY <1>2, <1>a, <2>2, <2>3 DEF LockEnrollment, TypeOK, Optional, database, process
  <2>6. IdentitiesAreKnown'
    BY <1>2, <1>a DEF LockEnrollment, database, process, IdentitiesAreKnown
  <2>7. \A s \in Requests, u \in Tokens : 
        Held(s, u)' <=> (Held(s, u) \/ (s = r /\ u = t))
    <3>1. \A s \in Requests : s # r => requests'[s] = requests[s]
      BY <1>a, <2>3 DEF TypeOK
    <3>2. requests'[r] = held /\ held # NULL
      BY <1>a, <2>2, <2>3, NullIsNoRow DEF TypeOK
    <3>3. \A u \in Tokens : ~Held(r, u)
      BY <1>2, EnrollmentAssumption DEF LockEnrollment, Held
    <3> QED
      BY <2>4, <3>1, <3>2, <3>3 DEF Held
  <2>8. Usable(t) /\ \A s \in Requests : ~Held(s, t)
    BY <1>2 DEF LockEnrollment, Obtainable, Locked, Held
  <2>9. worker_enrollments' = worker_enrollments
    BY <1>2 DEF LockEnrollment, database
  <2>10. LocksHold'
    <3> SUFFICES ASSUME NEW s \in Requests, NEW u \in Tokens, Held(s, u)'
                 PROVE  /\ worker_enrollments[u] # NULL
                        /\ worker_enrollments[u].uses < worker_enrollments[u].max_uses
                        /\ \A q \in Requests : Held(q, u)' => q = s
      BY <2>9 DEF LocksHold
    <3>1. CASE u = t
      BY <2>7, <2>8, <3>1 DEF Usable
    <3>2. CASE u # t
      BY <1>a, <2>7, <3>2 DEF LocksHold
    <3> QED
      BY <3>1, <3>2
  <2> QED
    BY <2>5, <2>6, <2>10 DEF IInv
<1>3. ASSUME NEW r \in Requests, FailEnrollment(r)
      PROVE  IInv'
  <2>1. NULL \in Optional(Nat) /\ Answer(r, NULL)
    BY <1>3 DEF FailEnrollment, Optional
  <2>2. ProcessesTyped'
    BY <1>a, <2>1, AnswerTyped
  <2>3. IdentitiesAreKnown'
    BY <1>3, <1>a, <2>1, AnswerKnown DEF FailEnrollment, database
  <2>4. requests' \in [Requests -> Optional(Request)]
        /\ \A s \in Requests, t \in Tokens : Held(s, t)' => Held(s, t)
    BY <1>3, <1>a DEF FailEnrollment, TypeOK, Optional, Held
  <2> QED
    BY <1>3, <1>a, <2>2, <2>3, <2>4, RequestStep DEF FailEnrollment, TypeOK
<1>4. ASSUME NEW r \in Requests, EnrollWorker(r)
      PROVE  IInv'
  <2>1. PICK n \in Nodes : n = NodeOf[r[1]]
    BY EnrollmentAssumption DEF Requests
  <2>2. requests[r] \in Request
    BY <1>4, <1>a DEF EnrollWorker, TypeOK, Optional
  <2>3. PICK t \in Tokens : t = requests[r].token
    BY <1>4, <2>2 DEF EnrollWorker, Request
  <2>4. Held(r, t)
    BY <1>4, <2>3 DEF EnrollWorker, Held
  <2>5. worker_enrollments[t] \in EnrollmentRow
    BY <1>a, <2>4 DEF LocksHold, TypeOK, Optional
  <2> DEFINE id == issued + 1
             row == [max_uses |-> worker_enrollments[t].max_uses,
                     uses |-> worker_enrollments[t].uses + 1,
                     expired |-> worker_enrollments[t].expired]
             worker == [instance |-> id, desired_state |-> "online"]
  <2>6. id \in Nat /\ issued \in Nat
    BY <1>a DEF TypeOK
  <2>7. row \in EnrollmentRow /\ worker \in WorkerRow
        /\ NewCredential(n, id) \in CredentialRow
    BY <2>5, <2>6 DEF EnrollmentRow, WorkerRow, WorkerStates, CredentialRow, NewCredential
  <2>8. /\ worker_enrollments' = [worker_enrollments EXCEPT ![t] = row]
        /\ workers' = [workers EXCEPT ![n] = worker]
        /\ worker_credentials' = [worker_credentials EXCEPT ![n] = NewCredential(n, id)]
        /\ issued' = id
        /\ requests' = [requests EXCEPT ![r] = NULL]
        /\ crashes' = crashes
        /\ Answer(r, id) \/ Answer(r, NULL)
    BY <1>4, <1>a, <2>1, <2>3 DEF EnrollWorker, TypeOK
  <2> HIDE DEF id, row, worker
  <2>9. PICK answer \in Optional(Nat) : Answer(r, answer)
    BY <2>6, <2>8 DEF Optional
  <2>10. /\ workers'[n] # NULL
         /\ \A m \in Nodes : workers[m] # NULL => workers'[m] # NULL
         /\ \A m \in Nodes : workers'[m] = NULL <=> worker_credentials'[m] = NULL
    BY <1>a, <2>7, <2>8, NullIsNoRow DEF TypeOK
  <2>11. ProcessesTyped'
    BY <1>a, <2>9, AnswerTyped
  <2>12. IdentitiesAreKnown'
    BY <1>a, <2>1, <2>9, <2>10, AnswerKnown
  <2>13. TypeOK'
    BY <1>a, <2>6, <2>7, <2>8, <2>10, <2>11 DEF TypeOK, ProcessesTyped, Optional
  <2>14. \A s \in Requests, u \in Tokens : Held(s, u)' => Held(s, u) /\ u # t
    <3> SUFFICES ASSUME NEW s \in Requests, NEW u \in Tokens, Held(s, u)'
                 PROVE  Held(s, u) /\ u # t
      OBVIOUS
    <3>1. s # r
      BY <1>a, <2>8 DEF Held, TypeOK
    <3>2. Held(s, u)
      BY <1>a, <2>8, <3>1 DEF Held, TypeOK
    <3> QED
      BY <1>a, <2>4, <3>1, <3>2 DEF LocksHold
  <2>15. \A u \in Tokens : u # t => worker_enrollments'[u] = worker_enrollments[u]
    BY <1>a, <2>8 DEF TypeOK
  <2>16. \A u \in Tokens : Locked(u)' => u # t
    BY <2>14 DEF Locked, Held
  <2>17. LocksHold'
    BY <1>a, <2>14, <2>15, <2>16, LocksStay
  <2> QED
    BY <2>12, <2>13, <2>17 DEF IInv
<1> QED
  BY <1>1, <1>2, <1>3, <1>4

LEMMA ProcessSteps ==
    ASSUME IInv, NEW p \in Processes
    PROVE  (Run(p) \/ Crash(p)) => IInv'
<1>a. TypeOK /\ ProcessesTyped /\ IdentitiesAreKnown /\ LocksHold
  BY DEF IInv, TypeOK, ProcessesTyped
<1>b. NodeOf[p] \in Nodes /\ \A q \in Processes : NodeOf[q] \in Nodes
  BY EnrollmentAssumption
<1>1. CASE ReadIdentity(p)
  <2>1. state_file[p] \in Nat
    BY <1>1, <1>a DEF ReadIdentity, ProcessesTyped, Optional
  <2>2. ProcessesTyped'
    BY <1>1, <1>a, <2>1 DEF ReadIdentity, ProcessesTyped, Optional
  <2>3. IdentitiesAreKnown'
    BY <1>1, <1>a, <2>1 DEF ReadIdentity, database, ProcessesTyped, IdentitiesAreKnown
  <2> QED
    BY <1>1, <1>a, <2>2, <2>3, ProcessStep DEF ReadIdentity, database, TypeOK
<1>2. CASE OpenStateFile(p)
  <2>1. ProcessesTyped'
    BY <1>2, <1>a DEF OpenStateFile, ProcessesTyped, Optional
  <2>2. IdentitiesAreKnown'
    BY <1>2, <1>a, EnrollmentAssumption
       DEF OpenStateFile, database, ProcessesTyped, IdentitiesAreKnown, Optional
  <2> QED
    BY <1>2, <1>a, <2>1, <2>2, ProcessStep DEF OpenStateFile, database, TypeOK
<1>3. CASE WriteStateFile(p)
  <2>1. identity[p] \in Nat
    BY <1>3, <1>a DEF WriteStateFile, IdentitiesAreKnown
  <2>2. ProcessesTyped'
    BY <1>3, <1>a, <2>1 DEF WriteStateFile, ProcessesTyped, Optional
  <2>3. IdentitiesAreKnown'
    BY <1>3, <1>a, <2>1
       DEF WriteStateFile, database, ProcessesTyped, IdentitiesAreKnown
  <2> QED
    BY <1>3, <1>a, <2>2, <2>3, ProcessStep DEF WriteStateFile, database, TypeOK
<1>4. CASE AuthenticateStart(p)
  <2>1. identity[p] \in Nat
    BY <1>4, <1>a DEF AuthenticateStart, IdentitiesAreKnown
  <2>2. Proceed(p, "admitted") \/ Exit(p)
    BY <1>4 DEF AuthenticateStart
  <2>3. ProcessesTyped'
    BY <1>a, <2>2, ExitTyped, ProceedTyped
  <2>4. IdentitiesAreKnown'
    BY <1>4, <1>a, <2>1, <2>2, ExitKnown, ProceedKnown DEF AuthenticateStart, database
  <2> QED
    BY <1>4, <1>a, <2>3, <2>4, ProcessStep DEF AuthenticateStart, database, TypeOK
<1>5. CASE StartWorker(p)
  <2>1. identity[p] \in Nat /\ workers[NodeOf[p]] # NULL
    BY <1>5, <1>a DEF StartWorker, IdentitiesAreKnown
  <2>2. workers[NodeOf[p]] \in WorkerRow
    BY <1>a, <1>b, <2>1 DEF TypeOK, Optional
  <2>3. PICK row \in WorkerRow :
            row = [instance |-> identity[p],
                   desired_state |-> workers[NodeOf[p]].desired_state]
    BY <2>1, <2>2 DEF WorkerRow
  <2>4. \/ workers' = [workers EXCEPT ![NodeOf[p]] = row]
        \/ workers' = workers
    BY <1>5, <1>a, <1>b, <2>3 DEF StartWorker, TypeOK
  <2>5. /\ workers' \in [Nodes -> Optional(WorkerRow)]
        /\ \A n \in Nodes : workers'[n] = NULL <=> workers[n] = NULL
    BY <1>a, <1>b, <2>1, <2>4, NullIsNoRow DEF TypeOK, Optional
  <2>6. Proceed(p, "online") \/ Exit(p)
    BY <1>5 DEF StartWorker
  <2>7. ProcessesTyped'
    BY <1>a, <2>6, ExitTyped, ProceedTyped
  <2>8. IdentitiesAreKnown'
    BY <1>a, <2>1, <2>5, <2>6, ExitKnown, ProceedKnown
  <2> QED
    BY <1>5, <1>a, <2>5, <2>7, <2>8, ProcessStep DEF StartWorker, TypeOK
<1>6. CASE AuthenticateHeartbeat(p)
  <2>1. identity[p] \in Nat
    BY <1>6, <1>a DEF AuthenticateHeartbeat, IdentitiesAreKnown
  <2>2. ProcessesTyped'
    BY <1>6, <1>a, ProceedTyped DEF AuthenticateHeartbeat
  <2>3. IdentitiesAreKnown'
    BY <1>6, <1>a, <2>1, ProceedKnown DEF AuthenticateHeartbeat, database
  <2> QED
    BY <1>6, <1>a, <2>2, <2>3, ProcessStep DEF AuthenticateHeartbeat, database, TypeOK
<1>7. CASE Heartbeat(p)
  <2>1. identity[p] \in Nat
    BY <1>7, <1>a DEF Heartbeat, IdentitiesAreKnown
  <2>2. Proceed(p, "online") \/ Exit(p)
    BY <1>7 DEF Heartbeat
  <2>3. ProcessesTyped'
    BY <1>a, <2>2, ExitTyped, ProceedTyped
  <2>4. IdentitiesAreKnown'
    BY <1>7, <1>a, <2>1, <2>2, ExitKnown, ProceedKnown DEF Heartbeat, database
  <2> QED
    BY <1>7, <1>a, <2>3, <2>4, ProcessStep DEF Heartbeat, database, TypeOK
<1>8. CASE Crash(p)
  <2>1. ProcessesTyped'
    BY <1>8, <1>a, ExitTyped DEF Crash
  <2>2. IdentitiesAreKnown'
    BY <1>8, <1>a, ExitKnown DEF Crash, database
  <2>3. \A r \in Requests :
            \/ requests'[r] = requests[r]
            \/ /\ requests[r] # NULL
               /\ requests'[r] = [token |-> requests[r].token, awaited |-> FALSE]
    BY <1>8 DEF Crash
  <2>4. ASSUME NEW r \in Requests
        PROVE  /\ requests'[r] \in Optional(Request)
               /\ \A t \in Tokens : Held(r, t)' => Held(r, t)
    <3>1. CASE requests'[r] = requests[r]
      BY <1>a, <3>1 DEF TypeOK, Held
    <3>2. CASE requests[r] # NULL
               /\ requests'[r] = [token |-> requests[r].token, awaited |-> FALSE]
      <4>1. requests[r] \in Request
        BY <1>a, <3>2 DEF TypeOK, Optional
      <4>2. requests[r].token \in Tokens \cup {NULL}
        BY <4>1 DEF Request
      <4>3. requests'[r] \in Request /\ requests'[r].token = requests[r].token
        BY <3>2, <4>2 DEF Request
      <4> QED
        BY <3>2, <4>3 DEF Optional, Held
    <3> QED
      BY <2>3, <3>1, <3>2
  <2>5. requests' \in [Requests -> Optional(Request)]
    BY <1>8, <2>4 DEF Crash
  <2>6. \A r \in Requests, t \in Tokens : Held(r, t)' => Held(r, t)
    BY <2>4
  <2>7. crashes' \in 0..MaxCrashes
    BY <1>8, <1>a, EnrollmentAssumption DEF Crash, TypeOK
  <2> QED
    BY <1>8, <2>1, <2>2, <2>5, <2>6, <2>7, RequestStep DEF Crash
<1> QED
  BY <1>1, <1>2, <1>3, <1>4, <1>5, <1>6, <1>7, <1>8 DEF Run

LEMMA Step == IInv /\ [Next]_vars => IInv'
<1> SUFFICES ASSUME IInv, [Next]_vars
             PROVE  IInv'
  OBVIOUS
<1>1. CASE UNCHANGED vars
  BY <1>1 DEF vars, database, process, IInv, TypeOK, IdentitiesAreKnown, LocksHold, Held
<1>2. CASE Next
  BY <1>2, OperatorSteps, RequestSteps, ProcessSteps DEF Next
<1> QED
  BY <1>1, <1>2

LEMMA Invariance == Spec => []IInv
  BY InitIsTyped, Step, PTL DEF Spec

-----------------------------------------------------------------------------
(* The theorems *)

\* Every variable of Enrollment keeps its type.
THEOREM TypeCorrect == Spec => []TypeOK
<1>1. IInv => TypeOK
  BY DEF IInv
<1> QED
  BY <1>1, Invariance, PTL

\* Only the commit of an enrollment spends a use, and it has the row locked
\* since it saw that one is left.
LEMMA OnlyEnrollmentSpends ==
    ASSUME IInv, [Next]_vars, NEW t \in Tokens, Uses(t)' > Uses(t)
    PROVE  Uses(t)' <= worker_enrollments'[t].max_uses
<1>a. TypeOK /\ LocksHold
  BY DEF IInv
<1>b. Uses(t) \in Nat
  BY <1>a DEF TypeOK, Uses, Optional, EnrollmentRow
<1>1. CASE worker_enrollments' = worker_enrollments
  BY <1>1, <1>b DEF Uses
<1>2. ASSUME NEW u \in Tokens, NEW limit \in UseLimits, CreateEnrollment(u, limit)
      PROVE  FALSE
  BY <1>2, <1>a, <1>b DEF CreateEnrollment, Uses, TypeOK
<1>3. ASSUME NEW limit \in UseLimits, BootstrapEnrollment(limit)
      PROVE  FALSE
  BY <1>3, <1>a, <1>b, EnrollmentAssumption DEF BootstrapEnrollment, Uses, TypeOK
<1>4. ASSUME NEW u \in Tokens, Expire(u)
      PROVE  FALSE
  BY <1>4, <1>a, <1>b DEF Expire, Uses, TypeOK
<1>5. ASSUME NEW r \in Requests, EnrollWorker(r)
      PROVE  Uses(t)' <= worker_enrollments'[t].max_uses
  <2>1. requests[r] \in Request
    BY <1>5, <1>a DEF EnrollWorker, TypeOK, Optional
  <2>2. PICK u \in Tokens : u = requests[r].token
    BY <1>5, <2>1 DEF EnrollWorker, Request
  <2>3. worker_enrollments[u] # NULL
        /\ worker_enrollments[u].uses < worker_enrollments[u].max_uses
    BY <1>5, <1>a, <2>2 DEF EnrollWorker, LocksHold, Held
  <2>4. worker_enrollments[u] \in EnrollmentRow
    BY <1>a, <2>3 DEF TypeOK, Optional
  <2>5. u = t
    BY <1>5, <1>a, <1>b, <2>2 DEF EnrollWorker, Uses, TypeOK
  <2>6. worker_enrollments'[t].uses = worker_enrollments[t].uses + 1
        /\ worker_enrollments'[t].max_uses = worker_enrollments[t].max_uses
    BY <1>5, <1>a, <2>2, <2>5 DEF EnrollWorker, TypeOK
  <2>7. worker_enrollments[t].uses \in Nat /\ worker_enrollments[t].max_uses \in Nat
    BY <2>4, <2>5, EnrollmentAssumption DEF EnrollmentRow
  <2>8. Uses(t)' = worker_enrollments[t].uses + 1
    BY <1>b, <2>6, <2>7 DEF Uses
  <2> QED
    BY <2>3, <2>5, <2>6, <2>7, <2>8
<1> QED
  BY <1>1, <1>2, <1>3, <1>4, <1>5
     DEF Next, vars, database, Run, ReadIdentity, OpenStateFile, WriteStateFile,
         AuthenticateStart, StartWorker, AuthenticateHeartbeat, Heartbeat, Crash,
         RemoveStateFile, SendEnrollment, LockEnrollment, FailEnrollment,
         SetWorkerState, RevokeWorker

\* No enrollment spends more uses than its token has at that moment: the row
\* that a transaction holds has a use left until it commits.
THEOREM UsesAreBounded == Spec => UsesBounded
<1>1. IInv /\ [Next]_vars =>
          [\A t \in Tokens : Uses(t)' > Uses(t) =>
               Uses(t)' <= worker_enrollments'[t].max_uses]_vars
  BY OnlyEnrollmentSpends
<1> QED
  BY <1>1, Invariance, PTL DEF Spec, UsesBounded

-----------------------------------------------------------------------------
(* Credentials *)

\* What a step may do to the credentials.
LEMMA CredentialStep ==
    ASSUME IInv, [Next]_vars
    PROVE  \/ UNCHANGED <<worker_credentials, issued>>
           \/ \E n \in Nodes :
                  /\ issued' = issued + 1
                  /\ worker_credentials' =
                         [worker_credentials EXCEPT ![n] = NewCredential(n, issued + 1)]
           \/ \E n \in Nodes :
                  /\ worker_credentials[n] # NULL
                  /\ issued' = issued
                  /\ worker_credentials' =
                         [worker_credentials EXCEPT ![n] = RevokedCredential(n)]
<1>1. ASSUME NEW r \in Requests, EnrollWorker(r)
      PROVE  \E n \in Nodes :
                  /\ issued' = issued + 1
                  /\ worker_credentials' =
                         [worker_credentials EXCEPT ![n] = NewCredential(n, issued + 1)]
  <2>1. NodeOf[r[1]] \in Nodes
    BY EnrollmentAssumption DEF Requests
  <2> QED
    BY <1>1, <2>1 DEF EnrollWorker
<1>2. ASSUME NEW n \in Nodes, RevokeWorker(n)
      PROVE  /\ worker_credentials[n] # NULL
             /\ issued' = issued
             /\ worker_credentials' =
                    [worker_credentials EXCEPT ![n] = RevokedCredential(n)]
  BY <1>2 DEF RevokeWorker
<1>3. CASE UNCHANGED vars
  BY <1>3 DEF vars, database
<1>4. CASE Next
  BY <1>1, <1>2, <1>4
     DEF Next, database, CreateEnrollment, BootstrapEnrollment, Expire, Run,
         ReadIdentity, OpenStateFile, WriteStateFile, AuthenticateStart, StartWorker,
         AuthenticateHeartbeat, Heartbeat, Crash, RemoveStateFile, SendEnrollment,
         LockEnrollment, FailEnrollment, SetWorkerState
<1> QED
  BY <1>3, <1>4

\* A credential that does not authenticate, although it was issued, does not
\* come back: the next one is another, and a revocation only takes away.
LEMMA NoCredentialReturns ==
    ASSUME IInv, [Next]_vars, NEW n \in Nodes, NEW id \in 1..issued,
           ~Authenticates(n, id)
    PROVE  ~Authenticates(n, id)'
<1>a. issued \in Nat /\ worker_credentials \in [Nodes -> Optional(CredentialRow)]
  BY DEF IInv, TypeOK
<1>1. CASE UNCHANGED <<worker_credentials, issued>>
  BY <1>1 DEF Authenticates
<1>2. ASSUME NEW m \in Nodes,
             worker_credentials' =
                 [worker_credentials EXCEPT ![m] = NewCredential(m, issued + 1)]
      PROVE  ~Authenticates(n, id)'
  <2>1. CASE n = m
    <3>1. worker_credentials'[n].credential = issued + 1
      BY <1>a, <1>2, <2>1 DEF NewCredential
    <3> QED
      BY <1>a, <3>1 DEF Authenticates
  <2>2. CASE n # m
    BY <1>a, <1>2, <2>2 DEF Authenticates
  <2> QED
    BY <2>1, <2>2
<1>3. ASSUME NEW m \in Nodes,
             worker_credentials' = [worker_credentials EXCEPT ![m] = RevokedCredential(m)]
      PROVE  ~Authenticates(n, id)'
  BY <1>a, <1>3 DEF Authenticates, RevokedCredential
<1> QED
  BY <1>1, <1>2, <1>3, CredentialStep

\* A credential that was replaced or revoked never authenticates again.
THEOREM RevocationsAreFinal == Spec => RevocationIsFinal
<1>1. IInv /\ [Next]_vars =>
          [\A n \in Nodes, id \in 1..issued :
               ~Authenticates(n, id) => ~Authenticates(n, id)']_vars
  BY NoCredentialReturns
<1> QED
  BY <1>1, Invariance, PTL DEF Spec, RevocationIsFinal
=============================================================================
