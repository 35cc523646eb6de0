----------------------------- MODULE Enrollment -----------------------------
(***************************************************************************)
(* How a worker comes by its identity: the enrollment tokens, credentials  *)
(* and instances of the controller (services/controller, store.py), and    *)
(* the start of a worker process with its state file (services/worker,     *)
(* main.py).  Requests outlive the process that sent them, their answers   *)
(* may be lost, and a process may die at any step.                         *)
(*                                                                         *)
(* An enrollment creates one instance id and one credential; both are      *)
(* named by its ordinal, the identity.                                     *)
(***************************************************************************)
EXTENDS Integers, FiniteSets

CONSTANTS
    Nodes,
    Processes,      \* worker containers, each with a state file of its own
    NodeOf,         \* ALLFEEDS_NODE_ID of each process
    Tokens,         \* enrollment tokens
    BootstrapToken, \* ENROLLMENT_TOKEN of the deployment
    UseLimits,      \* values an operator gives max_uses
    OperatorStates, \* states an operator sets
    Slots,          \* bound: enrollment requests of a process in flight
    MaxCrashes,     \* bound
    Torn,           \* content of a state file that was not written to its end
    NULL

VARIABLES
    worker_enrollments, workers, worker_credentials,    \* tables
    requests,   \* enrollment requests in flight, by <<process, slot>>
    pc,         \* where each process is
    identity,   \* what each process knows in memory
    state_file,
    issued, crashes     \* counters

database == <<worker_enrollments, workers, worker_credentials, issued>>
process == <<pc, identity, state_file>>
vars == <<database, requests, process, crashes>>

Requests == Processes \X Slots

WorkerStates == {"online", "draining", "disabled"}
EnrollmentRow == [max_uses: UseLimits, uses: Nat, expired: BOOLEAN]
WorkerRow == [instance: Nat, desired_state: WorkerStates]
CredentialRow == [credential: Nat, revoked: BOOLEAN]
Request == [token: Tokens \cup {NULL}, awaited: BOOLEAN]

Optional(S) == S \cup {NULL}

ASSUME EnrollmentAssumption ==
    /\ NodeOf \in [Processes -> Nodes]
    /\ BootstrapToken \in Tokens
    /\ UseLimits \subseteq Nat \ {0}
    /\ OperatorStates \subseteq WorkerStates
    /\ MaxCrashes \in Nat
    /\ NULL \notin Nat /\ Torn \notin Optional(Nat)
    /\ NULL \notin Tokens
    /\ NULL \notin EnrollmentRow \cup WorkerRow \cup CredentialRow \cup Request

-----------------------------------------------------------------------------
(* Enrollment tokens *)

CreateEnrollment(t, limit) ==
    /\ worker_enrollments[t] = NULL
    /\ worker_enrollments' = [worker_enrollments EXCEPT ![t] =
           [max_uses |-> limit, uses |-> 0, expired |-> FALSE]]
    /\ UNCHANGED <<workers, worker_credentials, issued, requests, process, crashes>>

\* A transaction has the row of the token for update.
Locked(t) ==
    \E r \in Requests : requests[r] # NULL /\ requests[r].token = t

\* At each start of the controller; the uses of the token stay.
BootstrapEnrollment(limit) ==
    LET t == BootstrapToken IN
    /\ ~Locked(t)
    /\ worker_enrollments' = [worker_enrollments EXCEPT ![t] =
           [max_uses |-> limit, expired |-> FALSE,
            uses |-> IF @ = NULL THEN 0 ELSE @.uses]]
    /\ UNCHANGED <<workers, worker_credentials, issued, requests, process, crashes>>

\* expires_at passes.
Expire(t) ==
    /\ worker_enrollments[t] # NULL
    /\ worker_enrollments' = [worker_enrollments EXCEPT ![t] =
           [max_uses |-> @.max_uses, uses |-> @.uses, expired |-> TRUE]]
    /\ UNCHANGED <<workers, worker_credentials, issued, requests, process, crashes>>

Usable(t) ==
    /\ worker_enrollments[t] # NULL
    /\ ~worker_enrollments[t].expired
    /\ worker_enrollments[t].uses < worker_enrollments[t].max_uses

\* Mutant: SELECT without FOR UPDATE.
Valid(t) == Usable(t)

\* SELECT ... FOR UPDATE finds the row.
Obtainable(t) == Usable(t) /\ ~Locked(t)

-----------------------------------------------------------------------------
(* The enrollment of a worker *)

\* A process without a state file asks to be enrolled.
SendEnrollment(p, k) ==
    /\ pc[p] = "down" /\ state_file[p] = NULL
    /\ requests[<<p, k>>] = NULL
    /\ requests' = [requests EXCEPT ![<<p, k>>] = [token |-> NULL, awaited |-> TRUE]]
    /\ pc' = [pc EXCEPT ![p] = "enrolling"]
    /\ UNCHANGED <<database, identity, state_file, crashes>>

LockEnrollment(r, t) ==
    /\ requests[r] # NULL /\ requests[r].token = NULL
    /\ Obtainable(t)
    /\ requests' = [requests EXCEPT ![r] =
           [token |-> t, awaited |-> requests[r].awaited]]
    /\ UNCHANGED <<database, process, crashes>>

\* The process that waits for r goes on with the identity, or gives up.
Answer(r, id) ==
    IF requests[r].awaited
    THEN /\ pc' = [pc EXCEPT ![r[1]] = IF id # NULL THEN "saving" ELSE "down"]
         /\ identity' = [identity EXCEPT ![r[1]] = id]
         /\ UNCHANGED state_file
    ELSE UNCHANGED process

\* Mutant: the credential of a node that was enrolled before stays.
KeptCredential(n, id) ==
    IF worker_credentials[n] = NULL THEN [credential |-> id, revoked |-> FALSE]
    ELSE [credential |-> worker_credentials[n].credential, revoked |-> FALSE]

\* INSERT INTO worker_credentials ... ON CONFLICT DO UPDATE
NewCredential(n, id) == [credential |-> id, revoked |-> FALSE]

\* The transaction commits; its answer may be lost.
EnrollWorker(r) ==
    LET n == NodeOf[r[1]]
        id == issued + 1
    IN
    /\ requests[r] # NULL /\ requests[r].token # NULL
    /\ worker_enrollments' = [worker_enrollments EXCEPT ![requests[r].token] =
           [max_uses |-> @.max_uses, uses |-> @.uses + 1, expired |-> @.expired]]
    /\ workers' = [workers EXCEPT ![n] =
           [instance |-> id, desired_state |-> "online"]]
    /\ worker_credentials' = [worker_credentials EXCEPT ![n] = NewCredential(n, id)]
    /\ issued' = id
    /\ requests' = [requests EXCEPT ![r] = NULL]
    /\ Answer(r, id) \/ Answer(r, NULL)
    /\ UNCHANGED crashes

\* 401, an error of the network or a transaction that is rolled back.
FailEnrollment(r) ==
    /\ requests[r] # NULL
    /\ requests' = [requests EXCEPT ![r] = NULL]
    /\ Answer(r, NULL)
    /\ UNCHANGED <<database, crashes>>

-----------------------------------------------------------------------------
(* The worker process *)

\* _identity, once it is enrolled: write_text truncates the file, then writes.
OpenStateFile(p) ==
    /\ pc[p] = "saving"
    /\ state_file' = [state_file EXCEPT ![p] = Torn]
    /\ pc' = [pc EXCEPT ![p] = "writing"]
    /\ UNCHANGED <<database, requests, identity, crashes>>

WriteStateFile(p) ==
    /\ pc[p] = "writing"
    /\ state_file' = [state_file EXCEPT ![p] = identity[p]]
    /\ pc' = [pc EXCEPT ![p] = "starting"]
    /\ UNCHANGED <<database, requests, identity, crashes>>

\* _identity, at a later start; a torn file is never read to an identity.
ReadIdentity(p) ==
    /\ pc[p] = "down" /\ state_file[p] \notin {NULL, Torn}
    /\ identity' = [identity EXCEPT ![p] = state_file[p]]
    /\ pc' = [pc EXCEPT ![p] = "starting"]
    /\ UNCHANGED <<database, requests, state_file, crashes>>

\* authenticate_worker finds the credential.
Authenticates(n, id) ==
    /\ worker_credentials[n] # NULL
    /\ worker_credentials[n].credential = id
    /\ ~worker_credentials[n].revoked

\* The process exits, and forgets what it has not saved.
Exit(p) ==
    /\ pc' = [pc EXCEPT ![p] = "down"]
    /\ identity' = [identity EXCEPT ![p] = NULL]
    /\ UNCHANGED state_file

Proceed(p, where) ==
    /\ pc' = [pc EXCEPT ![p] = where]
    /\ UNCHANGED <<identity, state_file>>

\* require_worker of the start request
AuthenticateStart(p) ==
    /\ pc[p] = "starting"
    /\ IF Authenticates(NodeOf[p], identity[p])
       THEN Proceed(p, "admitted") ELSE Exit(p)
    /\ UNCHANGED <<database, requests, crashes>>

\* start_worker; the process exits when it is refused or the answer is lost.
StartWorker(p) ==
    LET n == NodeOf[p] IN
    /\ pc[p] = "admitted"
    /\ IF workers[n].desired_state # "disabled"
       THEN /\ workers' = [workers EXCEPT ![n] =
                   [instance |-> identity[p], desired_state |-> @.desired_state]]
            /\ Proceed(p, "online") \/ Exit(p)
       ELSE UNCHANGED workers /\ Exit(p)
    /\ UNCHANGED <<worker_enrollments, worker_credentials, issued, requests, crashes>>

\* require_worker of a heartbeat; a worker that is refused goes on.
AuthenticateHeartbeat(p) ==
    /\ pc[p] = "online"
    /\ Authenticates(NodeOf[p], identity[p])
    /\ Proceed(p, "heard")
    /\ UNCHANGED <<database, requests, crashes>>

\* Mutant: a heartbeat does not compare the instance.
StaysWhenReplaced(p) == workers[NodeOf[p]].desired_state = "online"

\* The state that a heartbeat returns is "online".
Stays(p) ==
    /\ workers[NodeOf[p]].instance = identity[p]
    /\ workers[NodeOf[p]].desired_state = "online"

\* A worker that is replaced, disabled or drained leaves its loop.
Heartbeat(p) ==
    /\ pc[p] = "heard"
    /\ IF Stays(p) THEN Proceed(p, "online") ELSE Exit(p)
    /\ UNCHANGED <<database, requests, crashes>>

\* The process dies; its requests go on without it.
Crash(p) ==
    /\ pc[p] # "down" /\ crashes < MaxCrashes
    /\ crashes' = crashes + 1
    /\ Exit(p)
    /\ requests' = [r \in Requests |->
           IF r[1] = p /\ requests[r] # NULL
           THEN [token |-> requests[r].token, awaited |-> FALSE] ELSE requests[r]]
    /\ UNCHANGED database

-----------------------------------------------------------------------------
(* Operators *)

SetWorkerState(n, state) ==
    /\ workers[n] # NULL
    /\ workers' = [workers EXCEPT ![n] =
           [instance |-> @.instance, desired_state |-> state]]
    /\ UNCHANGED <<worker_enrollments, worker_credentials, issued,
                   requests, process, crashes>>

RevokedCredential(n) ==
    [credential |-> worker_credentials[n].credential, revoked |-> TRUE]

RevokeWorker(n) ==
    /\ worker_credentials[n] # NULL /\ ~worker_credentials[n].revoked
    /\ worker_credentials' = [worker_credentials EXCEPT ![n] = RevokedCredential(n)]
    /\ workers' = [workers EXCEPT ![n] =
           [instance |-> @.instance, desired_state |-> "disabled"]]
    /\ UNCHANGED <<worker_enrollments, issued, requests, process, crashes>>

\* The volume with the state file is removed between two starts.
RemoveStateFile(p) ==
    /\ pc[p] = "down" /\ state_file[p] # NULL
    /\ state_file' = [state_file EXCEPT ![p] = NULL]
    /\ UNCHANGED <<database, requests, pc, identity, crashes>>

-----------------------------------------------------------------------------
Init ==
    /\ worker_enrollments = [t \in Tokens |-> NULL]
    /\ workers = [n \in Nodes |-> NULL]
    /\ worker_credentials = [n \in Nodes |-> NULL]
    /\ requests = [r \in Requests |-> NULL]
    /\ pc = [p \in Processes |-> "down"]
    /\ identity = [p \in Processes |-> NULL]
    /\ state_file = [p \in Processes |-> NULL]
    /\ issued = 0 /\ crashes = 0

\* What a process does by itself.
Run(p) ==
    \/ ReadIdentity(p) \/ OpenStateFile(p) \/ WriteStateFile(p)
    \/ AuthenticateStart(p) \/ StartWorker(p)
    \/ AuthenticateHeartbeat(p) \/ Heartbeat(p)

Next ==
    \/ \E limit \in UseLimits :
           \/ BootstrapEnrollment(limit)
           \/ \E t \in Tokens : CreateEnrollment(t, limit)
    \/ \E t \in Tokens : Expire(t)
    \/ \E p \in Processes :
           \/ Run(p) \/ Crash(p) \/ RemoveStateFile(p)
           \/ \E k \in Slots : SendEnrollment(p, k)
    \/ \E r \in Requests :
           \/ EnrollWorker(r) \/ FailEnrollment(r)
           \/ \E t \in Tokens : LockEnrollment(r, t)
    \/ \E n \in Nodes :
           \/ RevokeWorker(n)
           \/ \E state \in OperatorStates : SetWorkerState(n, state)

\* A container that exits is started again, and its requests have timeouts.
Fairness == \A p \in Processes : WF_vars(Run(p))

Spec == Init /\ [][Next]_vars /\ Fairness

-----------------------------------------------------------------------------
(* What enrollment promises *)

\* Every variable keeps its type; a node has a credential from its first
\* enrollment on, revoked or not.
TypeOK ==
    /\ worker_enrollments \in [Tokens -> Optional(EnrollmentRow)]
    /\ workers \in [Nodes -> Optional(WorkerRow)]
    /\ worker_credentials \in [Nodes -> Optional(CredentialRow)]
    /\ \A n \in Nodes : workers[n] = NULL <=> worker_credentials[n] = NULL
    /\ requests \in [Requests -> Optional(Request)]
    /\ pc \in [Processes -> {"down", "enrolling", "saving", "writing", "starting",
                             "admitted", "online", "heard"}]
    /\ identity \in [Processes -> Optional(Nat)]
    /\ state_file \in [Processes -> Optional(Nat \cup {Torn})]
    /\ issued \in Nat /\ crashes \in 0..MaxCrashes

Uses(t) == IF worker_enrollments[t] = NULL THEN 0 ELSE worker_enrollments[t].uses

\* No enrollment spends more uses than its token has at that moment, however
\* many requests present it at once and whenever the operator sets its limit.
UsesBounded ==
    [][\A t \in Tokens : Uses(t)' > Uses(t) =>
           Uses(t)' <= worker_enrollments'[t].max_uses]_vars

\* A credential that was replaced or revoked never authenticates again, also
\* when its node is enrolled anew.
RevocationIsFinal ==
    [][\A n \in Nodes, id \in 1..issued :
           ~Authenticates(n, id) => ~Authenticates(n, id)']_vars

\* The process has the node's live credential in its file, and may run.
Holds(p) ==
    /\ state_file[p] \notin {NULL, Torn}
    /\ Authenticates(NodeOf[p], state_file[p])
    /\ workers[NodeOf[p]].desired_state # "disabled"

IsInstance(p) ==
    workers[NodeOf[p]] # NULL /\ workers[NodeOf[p]].instance = state_file[p]

\* A process that keeps the live credential becomes the node's instance and
\* stays it, although one that it replaced may still start with an older
\* authentication and take the node from it.
NodeSettles ==
    \A p \in Processes :
        <>[]Holds(p) => <>[]IsInstance(p)
=============================================================================
