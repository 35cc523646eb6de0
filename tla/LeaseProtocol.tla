--------------------------- MODULE LeaseProtocol ---------------------------
(***************************************************************************)
(* What the controller promises about the life of its tasks, whatever      *)
(* happens to workers and messages: a task is handed out any number of     *)
(* times, to one execution at a time, and it is ended once, by the report  *)
(* of the execution it was handed to last.  ControlStore implements this   *)
(* protocol; Worker relies on it.  A transaction may move several tasks.   *)
(***************************************************************************)
EXTENDS Integers

CONSTANT TaskIds

VARIABLES
    phase,      \* where each task is
    claims,     \* how often it was handed out; its lease token
    ended_by    \* the token whose report ended it, 0 before that

protocolVars == <<phase, claims, ended_by>>

Phases == {"unknown", "waiting", "leased", "ended", "withdrawn"}

Move(ts, from, to) ==
    /\ \A t \in ts : phase[t] = from
    /\ phase' = [t \in TaskIds |-> IF t \in ts THEN to ELSE phase[t]]

\* New tasks appear.
Register(ts) == Move(ts, "unknown", "waiting") /\ UNCHANGED <<claims, ended_by>>

\* Tasks are handed out, each under a token it never had.
Lease(ts) ==
    /\ Move(ts, "waiting", "leased")
    /\ claims' = [t \in TaskIds |-> IF t \in ts THEN claims[t] + 1 ELSE claims[t]]
    /\ UNCHANGED ended_by

\* Tasks are put back: a report of failure, or a heartbeat that went missing.
Release(ts) == Move(ts, "leased", "waiting") /\ UNCHANGED <<claims, ended_by>>

\* The holder of the lease reports the end of its task.
End(t) ==
    /\ Move({t}, "leased", "ended")
    /\ ended_by' = [ended_by EXCEPT ![t] = claims[t]]
    /\ UNCHANGED claims

\* An operator takes back tasks that nobody is executing.
Withdraw(ts) ==
    Move(ts, "waiting", "withdrawn") /\ UNCHANGED <<claims, ended_by>>

ProtocolInit ==
    /\ phase = [t \in TaskIds |-> "unknown"]
    /\ claims = [t \in TaskIds |-> 0]
    /\ ended_by = [t \in TaskIds |-> 0]

ProtocolNext ==
    \/ \E ts \in SUBSET TaskIds :
           Register(ts) \/ Lease(ts) \/ Release(ts) \/ Withdraw(ts)
    \/ \E t \in TaskIds : End(t)

Protocol == ProtocolInit /\ [][ProtocolNext]_protocolVars
=============================================================================
