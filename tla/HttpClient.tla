----------------------------- MODULE HttpClient -----------------------------
(***************************************************************************)
(* SafeHttpClient (plugins/builtin, http.py): one `get` at a time, with    *)
(* its checks before the first request, its attempts, its waits and the    *)
(* errors it raises, against servers that answer what they like and        *)
(* redirect to where they like.                                            *)
(*                                                                         *)
(* Time is relative: what is left of a sleep, and how long ago the last    *)
(* request to a host was, as far as the code can tell the difference.  So  *)
(* no clock bounds the behaviours.                                         *)
(***************************************************************************)
EXTENDS Integers, FiniteSets

CONSTANTS
    Urls, Hosts, HostOf,
    Disallowed,      \* URLs that robots.txt of their host disallows
    Retries,
    Rate,            \* rate_limit_seconds
    BackoffCap,      \* 30 seconds
    RetryAfterCap,   \* 3600 seconds
    RetryAfters,     \* the values of Retry-After that servers send
    NoHeader,        \* a 429 without Retry-After
    MaxTroubles      \* bound: everything that goes wrong, and redirects

ASSUME HttpAssumption ==
    /\ Urls # {} /\ HostOf \in [Urls -> Hosts] /\ Disallowed \subseteq Urls
    /\ Retries \in Nat /\ Rate \in Nat /\ MaxTroubles \in Nat
    /\ BackoffCap \in Nat /\ RetryAfterCap \in Nat
    /\ RetryAfters \subseteq Nat /\ NoHeader \notin Nat

VARIABLES
    call,       \* the `get` under way
    since,      \* client: time since _last_request, at most Rate
    robots,     \* client: what is known of each host's robots.txt
    heard,      \* server: time since `get` last asked for a page under one of
                \* the host's own URLs, at most Rate
    asked,      \* server: what is left of a Retry-After that the collector was
                \* sent and has not lost with a killed child
    unheeded,   \* hosts whose Retry-After came with robots.txt
    spent,      \* history: attempts at a request that the troubles of the task
                \* have used up
    troubles

httpVars == <<call, since, robots, heard, asked, unheeded, spent, troubles>>

\* What no answer of a server changes but a Retry-After.
serverVars == <<heard, asked, unheeded>>

Least(m, n) == IF m < n THEN m ELSE n

\* `at` is the host that is being asked: the URL's, or one redirected to.
At(pc, url, attempt, sleep) ==
    [pc |-> pc, url |-> url, at |-> HostOf[url], attempt |-> attempt,
     sleep |-> sleep, error |-> "none", retry_after |-> 0]

NoCall == At("idle", CHOOSE url \in Urls : TRUE, 0, 0)

Host == HostOf[call.url]

\* A client is made for each execution: it remembers nothing.
FreshSince == [h \in Hosts |-> Rate]
FreshRobots == [h \in Hosts |-> "unknown"]

Trouble == troubles < MaxTroubles /\ troubles' = troubles + 1

Raised(error, retryAfter) ==
    [call EXCEPT !.pc = "raised", !.error = error, !.retry_after = retryAfter,
                 !.sleep = 0]

\* `get` raises an exception with this error_class.
Raise(error, retryAfter) == call' = Raised(error, retryAfter)

\* All attempts of a `get`, and what an error costs that it does not repeat.
Attempts == Retries + 1

Costs(attempts) == spent' = spent + attempts

-----------------------------------------------------------------------------
(* Before the first request.  An address that validate_url blocks raises   *)
(* as Refuse does.                                                         *)

Get(url) == call' = At("checking", url, 0, 0)

\* validate_url cannot resolve the host.
Unresolved ==
    /\ call.pc = "checking" /\ Trouble
    /\ Raise("transient", 0) /\ Costs(Attempts)
    /\ UNCHANGED <<since, robots, serverVars>>

\* The host's robots.txt is fetched once; if that fails all is allowed.  This
\* request is neither paced nor remembered by _respect_rate, and a Retry-After
\* in the answer is not read.
LoadRobots ==
    /\ call.pc = "checking" /\ robots[Host] = "unknown"
    /\ \/ /\ robots' = [robots EXCEPT ![Host] = "rules"]
          /\ UNCHANGED <<asked, unheeded, troubles>>
       \/ /\ robots' = [robots EXCEPT ![Host] = "nothing"] /\ Trouble
          /\ UNCHANGED <<asked, unheeded>>
       \/ /\ robots' = [robots EXCEPT ![Host] = "nothing"] /\ Trouble
          /\ \E header \in RetryAfters :
                 asked' = [asked EXCEPT ![Host] = Least(RetryAfterCap, header)]
          /\ unheeded' = unheeded \cup {Host}
    /\ UNCHANGED <<call, since, heard, spent>>

Denied == robots[Host] = "rules" /\ call.url \in Disallowed

Refuse ==
    /\ call.pc = "checking" /\ Denied
    /\ Raise("permanent", 0)
    /\ UNCHANGED <<since, robots, serverVars, spent, troubles>>

\* How long _respect_rate sleeps.
Pause == Rate - since[Host]

\* The first attempt.
Admit ==
    /\ call.pc = "checking" /\ robots[Host] # "unknown" /\ ~Denied
    /\ call' = At("pacing", call.url, 0, Pause)
    /\ UNCHANGED <<since, robots, serverVars, spent, troubles>>

-----------------------------------------------------------------------------
(* Attempts *)

\* Mutant: only the first attempt of a `get` is remembered.
RememberFirst == IF call.attempt = 0 THEN [since EXCEPT ![Host] = 0] ELSE since

Remember == [since EXCEPT ![Host] = 0]

\* _respect_rate has slept; the request is sent.
Send ==
    /\ call.pc = "pacing" /\ call.sleep = 0
    /\ since' = Remember
    /\ heard' = [heard EXCEPT ![Host] = 0]
    /\ call' = [call EXCEPT !.pc = "sent"]
    /\ UNCHANGED <<robots, asked, unheeded, spent, troubles>>

\* The session follows a redirect at once: the next hop is neither paced nor
\* remembered, and robots.txt is not asked about it.
Redirect(h) ==
    /\ call.pc = "sent" /\ Trouble
    /\ call' = [call EXCEPT !.at = h]
    /\ UNCHANGED <<since, robots, serverVars, spent>>

\* Mutant: the last attempt is left out.
OneTooEarly == call.attempt + 1 >= Retries

LastAttempt == call.attempt >= Retries

\* Sleeps before the next attempt.
Backoff(delay) ==
    call' = At("backoff", call.url, call.attempt + 1, delay)

\* 200, or 304 to a conditional request, with a body that could be read; the
\* attempts that failed before have cost nothing.
Answer ==
    /\ call.pc = "sent"
    /\ call' = [call EXCEPT !.pc = "returned"]
    /\ spent' = spent - call.attempt
    /\ UNCHANGED <<since, robots, serverVars, troubles>>

\* _retry_after: the header within its bounds, or the fallback.
Delay(header) ==
    IF header = NoHeader THEN 2^call.attempt ELSE Least(RetryAfterCap, header)

\* The host of the last hop asks for patience.
AsksToWait(header) ==
    IF header = NoHeader THEN UNCHANGED <<asked, unheeded>>
    ELSE /\ asked' = [asked EXCEPT ![call.at] = Least(RetryAfterCap, header)]
         /\ unheeded' = unheeded \ {call.at}

\* 429
RateLimited(header) ==
    /\ call.pc = "sent" /\ Trouble
    /\ AsksToWait(header)
    /\ IF LastAttempt THEN Raise("rate_limited", Delay(header))
       ELSE Backoff(Delay(header))
    /\ Costs(1)
    /\ UNCHANGED <<since, robots, heard>>

\* 5xx, a timeout or a broken connection
Unavailable ==
    /\ call.pc = "sent" /\ Trouble
    /\ IF LastAttempt THEN Raise("transient", 0)
       ELSE Backoff(Least(BackoffCap, 2^call.attempt))
    /\ Costs(1)
    /\ UNCHANGED <<since, robots, serverVars>>

\* 4xx, a content type or size that is not allowed, a redirect to an address
\* that is not
Rejected ==
    /\ call.pc = "sent" /\ Trouble
    /\ Raise("permanent", 0)
    /\ UNCHANGED <<since, robots, serverVars, spent>>

\* validate_url(response.url) cannot resolve the host: out of the loop.
RedirectUnresolved ==
    /\ call.pc = "sent" /\ Trouble
    /\ Raise("transient", 0) /\ Costs(Attempts)
    /\ UNCHANGED <<since, robots, serverVars>>

\* A body that breaks off or cannot be decoded, and too many redirects, are
\* exceptions of requests that the loop does not catch; they have no
\* error_class.
BrokenBody ==
    /\ call.pc = "sent" /\ Trouble
    /\ Raise("unknown", 0) /\ Costs(Attempts)
    /\ UNCHANGED <<since, robots, serverVars>>

\* The next attempt begins with _respect_rate.
NextAttempt ==
    /\ call.pc = "backoff" /\ call.sleep = 0
    /\ call' = At("pacing", call.url, call.attempt, Pause)
    /\ UNCHANGED <<since, robots, serverVars, spent, troubles>>

-----------------------------------------------------------------------------
Respond ==
    \/ Answer
    \/ \E header \in RetryAfters \cup {NoHeader} : RateLimited(header)
    \/ Unavailable \/ Rejected \/ RedirectUnresolved \/ BrokenBody

HttpStep ==
    \/ Unresolved \/ LoadRobots \/ Refuse \/ Admit
    \/ Send \/ (\E h \in Hosts : Redirect(h)) \/ Respond \/ NextAttempt

Younger(age) == [h \in Hosts |-> Least(Rate, age[h] + 1)]
Shorter(left) == IF left = 0 THEN 0 ELSE left - 1

TimePasses ==
    /\ call' = [call EXCEPT !.sleep = Shorter(@)]
    /\ since' = Younger(since)
    /\ heard' = Younger(heard)
    /\ asked' = [h \in Hosts |-> Shorter(asked[h])]
    /\ unheeded' = {h \in unheeded : asked[h] > 1}
    /\ UNCHANGED <<robots, spent, troubles>>

HttpInit ==
    /\ call = NoCall
    /\ since = FreshSince /\ robots = FreshRobots
    /\ heard = [h \in Hosts |-> Rate]
    /\ asked = [h \in Hosts |-> 0]
    /\ unheeded = {} /\ spent = 0 /\ troubles = 0

-----------------------------------------------------------------------------
(* What the client promises *)

Calls == [pc: {"idle", "checking", "pacing", "sent", "backoff", "returned",
               "raised"},
          url: Urls, at: Hosts, attempt: 0..Retries,
          sleep: Nat, retry_after: Nat,
          error: {"none", "transient", "rate_limited", "permanent", "unknown"}]

HttpTypeOK ==
    /\ call \in Calls
    /\ since \in [Hosts -> 0..Rate] /\ heard \in [Hosts -> 0..Rate]
    /\ robots \in [Hosts -> {"unknown", "rules", "nothing"}]
    /\ asked \in [Hosts -> 0..RetryAfterCap]
    /\ unheeded \subseteq Hosts /\ spent \in Int
    /\ troubles \in 0..MaxTroubles
    /\ call.pc = "raised" <=> call.error # "none"
=============================================================================
