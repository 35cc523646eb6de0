------------------------------ MODULE Fetchers ------------------------------
(***************************************************************************)
(* The built-in fetchers (plugins/builtin, fetchers.py) over HttpClient:   *)
(* how each kind walks through the pages of a site and what it emits, and  *)
(* what becomes of an execution that fails: the class of its error, the    *)
(* controller's decision to retry and the delay it sets (fail_task).       *)
(*                                                                         *)
(* A page is what the fetcher extracts from it: the URLs or items it links *)
(* to and the pages that are to be listed next.                            *)
(***************************************************************************)
EXTENDS HttpClient, Sequences, SequencesExt

CONSTANTS
    Webs,           \* what there is to fetch, [kind, start, links, next]
    MaxPages,       \* max_pages of a list or an API
    MaxItems,       \* max_items of a feed or a list, max_urls of a sitemap
    MaxAttempts, RetryBackoff, BaseSeconds, MaxSeconds    \* the RetrySpec

Kinds == {"rss", "web_page", "web_list", "api_next", "api_numbered",
          "api_single", "sitemap"}

\* A configuration names one URL, or the start_urls of a list; a page names
\* one next page, unless it is an index of sitemaps.
ASSUME WebsAssumption ==
    \A w \in Webs :
        /\ w.kind \in Kinds
        /\ w.start \in Seq(Urls)
        /\ w.links \in [Urls -> Seq(Urls)] /\ w.next \in [Urls -> Seq(Urls)]
        /\ w.kind # "web_list" => Len(w.start) = 1
        /\ w.kind # "sitemap" => \A url \in Urls : Len(w.next[url]) <= 1

ASSUME FetchersAssumption ==
    /\ MaxPages \in Nat \ {0} /\ MaxItems \in Nat \ {0}
    /\ MaxAttempts \in Nat \ {0} /\ RetryBackoff \in {"fixed", "exponential"}
    /\ BaseSeconds \in Nat /\ MaxSeconds \in Nat \ {0}

VARIABLES
    web,        \* the site and the fetcher's configuration; chosen once
    task,       \* the task's row, with the time until not_before
    fetch,      \* the variables of the fetcher's loop
    emitted     \* the items emitted by this execution, in order

fetchVars == <<web, task, fetch, emitted>>
vars == <<httpVars, fetchVars>>

\* Pages still to be listed, URLs still to be fetched for an item, what
\* seen_urls or visited holds, the items found, and the pages listed so far
\* where the fetcher counts them.
Loop(pages, items, seen, found, count) ==
    [pages |-> pages, items |-> items, seen |-> seen, found |-> found,
     count |-> count]

\* web_page has an item and no page to list.
FirstLoop == IF web.kind = "web_page" THEN Loop(<<>>, web.start, {}, 0, 0)
             ELSE Loop(web.start, <<>>, {}, 0, 0)

-----------------------------------------------------------------------------
(* The loops *)

IsApi == web.kind \in {"api_next", "api_numbered", "api_single"}

CountsPages == IsApi \/ web.kind = "web_list"

\* The loop's condition, and its turn: a sitemap is walked through before its
\* items are fetched, a list's items are fetched page by page.
ListsMore ==
    /\ fetch.pages # <<>>
    /\ CountsPages => fetch.count < MaxPages
    /\ web.kind \in {"web_list", "sitemap"} => fetch.found < MaxItems
    /\ web.kind # "sitemap" => fetch.items = <<>>

\* Mutant: a sitemap that was visited is read again.
NeverVisited == FALSE

\* `if sitemap_url in visited: continue`
AlreadyVisited == web.kind = "sitemap" /\ Head(fetch.pages) \in fetch.seen

First(n, s) == SubSeq(s, 1, Least(n, Len(s)))

\* What stands in s at the positions I, in its order.
Subsequence(s, I) ==
    LET rank(i) == Cardinality({j \in I : j <= i})
    IN  [k \in 1..Cardinality(I) |-> s[CHOOSE i \in I : rank(i) = k]]

\* The links of a list page that seen_urls does not hold, each once.
Unseen(links) ==
    Subsequence(links, {i \in DOMAIN links :
                           /\ links[i] \notin fetch.seen
                           /\ \A j \in 1..(i - 1) : links[j] # links[i]})

\* Mutant: each sitemap has the whole limit.
UpToLimit(links) == First(MaxItems, links)

\* What is taken of a page that leaves room for the limit's rest.
WithinRest(links) == First(MaxItems - fetch.found, links)

Listed(pages, items, seen, count) ==
    Loop(pages, items, seen, fetch.found + Len(items) - Len(fetch.items), count)

\* The loop after a list page.  Its `next` is compared with what remains and
\* not with what was listed; max_items breaks off in the middle of a page.
AfterListPage(url) ==
    LET new == WithinRest(Unseen(web.links[url]))
        remaining == Tail(fetch.pages) IN
    Listed(IF ToSet(web.next[url]) \subseteq ToSet(remaining) THEN remaining
           ELSE remaining \o web.next[url],
           new, fetch.seen \cup ToSet(new), fetch.count + 1)

\* Mutant: an index takes the place of the sitemaps beside it.
NextOnly(url) ==
    IF web.next[url] = <<>> THEN Tail(fetch.pages) ELSE web.next[url]

\* What is pending after a sitemap: an index adds those it names.
Pending(url) == Tail(fetch.pages) \o web.next[url]

\* The loop after a sitemap.
AfterSitemap(url) ==
    Listed(Pending(url), fetch.items \o WithinRest(web.links[url]),
           fetch.seen \cup {url}, 0)

\* A feed is one page; its items are fetched for their full text.
AfterFeed(url) == Listed(<<>>, First(MaxItems, web.links[url]), {}, 0)

\* The loop after an API's page: it names its next one, or the next number
\* follows until a page is empty, or there is but one.
AfterApiPage(url) ==
    Listed(CASE web.kind = "api_next" -> web.next[url]
             [] web.kind = "api_numbered" /\ web.links[url] # <<>> ->
                    web.next[url]
             [] OTHER -> <<>>,
           <<>>, {}, fetch.count + 1)

AfterPage(url) ==
    CASE web.kind = "web_list" -> AfterListPage(url)
      [] web.kind = "sitemap" -> AfterSitemap(url)
      [] web.kind = "rss" -> AfterFeed(url)
      [] IsApi -> AfterApiPage(url)

\* An API's page holds the items themselves.
ItemsOnPage(url) == IF IsApi THEN web.links[url] ELSE <<>>

-----------------------------------------------------------------------------
(* One execution *)

Running == task.status = "running"

\* A worker claims the task when it is due and executes it.
Execute ==
    /\ task.status = "waiting" /\ task.delay = 0
    /\ task' = [task EXCEPT !.status = "running", !.attempts = @ + 1]
    /\ fetch' = FirstLoop /\ emitted' = <<>>
    /\ call' = NoCall /\ since' = FreshSince /\ robots' = FreshRobots
    /\ heard' = FreshSince
    /\ UNCHANGED <<web, asked, unheeded, spent, troubles>>

Skip ==
    /\ Running /\ call.pc = "idle" /\ ListsMore /\ AlreadyVisited
    /\ fetch' = [fetch EXCEPT !.pages = Tail(@)]
    /\ UNCHANGED <<httpVars, web, task, emitted>>

GetPage ==
    /\ Running /\ call.pc = "idle" /\ ListsMore /\ ~AlreadyVisited
    /\ Get(Head(fetch.pages))
    /\ UNCHANGED <<since, robots, serverVars, spent, troubles, fetchVars>>

GetItem ==
    /\ Running /\ call.pc = "idle" /\ ~ListsMore /\ fetch.items # <<>>
    /\ Get(Head(fetch.items))
    /\ UNCHANGED <<since, robots, serverVars, spent, troubles, fetchVars>>

\* The `get` that returned was for a page of the loop.
Listing == ListsMore /\ ~AlreadyVisited

ReadPage ==
    /\ Running /\ call.pc = "returned" /\ Listing
    /\ call' = NoCall
    /\ fetch' = AfterPage(call.url)
    /\ emitted' = emitted \o ItemsOnPage(call.url)
    /\ UNCHANGED <<since, robots, serverVars, spent, troubles, web, task>>

EmitItem ==
    /\ Running /\ call.pc = "returned" /\ ~Listing
    /\ call' = NoCall
    /\ emitted' = Append(emitted, Head(fetch.items))
    /\ fetch' = [fetch EXCEPT !.items = Tail(@)]
    /\ UNCHANGED <<since, robots, serverVars, spent, troubles, web, task>>

\* Nothing is left: the records are written and the task is reported.
Finish ==
    /\ Running /\ call.pc = "idle" /\ ~ListsMore /\ fetch.items = <<>>
    /\ task' = [task EXCEPT !.status = "done"]
    /\ UNCHANGED <<httpVars, web, fetch, emitted>>

-----------------------------------------------------------------------------
(* Its failure *)

RETRYABLE_ERRORS ==
    {"transient", "rate_limited", "timeout", "network", "unknown"}

\* Mutant: the exponential delay also for an error that brings its own.
IgnoreHeader(error, retryAfter) ==
    IF RetryBackoff = "exponential"
    THEN Least(MaxSeconds, BaseSeconds * 2^(task.attempts - 1)) ELSE BaseSeconds

\* Mutant: the server decides alone.
UnboundedDelay(error, retryAfter) ==
    IF error = "rate_limited" THEN retryAfter
    ELSE Least(MaxSeconds, BaseSeconds * 2^(task.attempts - 1))

\* The delay fail_task sets.  Only a RateLimitError carries a retry_after.
RetryDelay(error, retryAfter) ==
    IF error = "rate_limited" THEN Least(MaxSeconds, retryAfter)
    ELSE IF RetryBackoff = "exponential"
    THEN Least(MaxSeconds, BaseSeconds * 2^(task.attempts - 1)) ELSE BaseSeconds

\* fail_task
FailTask(error, retryAfter) ==
    IF error \in RETRYABLE_ERRORS /\ task.attempts < MaxAttempts
    THEN task' = [task EXCEPT !.status = "waiting", !.error = error,
                              !.delay = RetryDelay(error, retryAfter)]
    ELSE task' = [task EXCEPT !.status = "dead", !.error = error]

\* The exception of a `get` ends the execution.  What the server asked for
\* beyond max_seconds is forgotten.
ReportFailure ==
    /\ Running /\ call.pc = "raised"
    /\ FailTask(call.error, call.retry_after)
    /\ call' = NoCall
    /\ asked' = [h \in Hosts |-> Least(MaxSeconds, asked[h])]
    /\ UNCHANGED <<since, robots, heard, unheeded, spent, troubles, web, fetch,
                   emitted>>

\* A page that cannot be used.  What the parsers of JSON and XML raise has no
\* class and is tried again, though the page may stay as it is; a feed that has
\* no entries and an API whose items are no list are errors of the
\* configuration.  HTML is never refused.
PageError ==
    CASE IsApi -> {"unknown", "configuration"}
      [] web.kind = "sitemap" -> {"unknown"}
      [] web.kind = "rss" -> {"configuration"}
      [] OTHER -> {}

Unreadable ==
    /\ Running /\ call.pc = "returned" /\ Listing /\ Trouble
    /\ \E error \in PageError : FailTask(error, 0)
    /\ Costs(Attempts)
    /\ call' = NoCall
    /\ UNCHANGED <<since, robots, serverVars, web, fetch, emitted>>

\* The hard timeout kills the child, or it dies; what it was told dies too.
Kill ==
    /\ Running /\ Trouble
    /\ \E error \in {"timeout", "unknown"} : FailTask(error, 0)
    /\ Costs(Attempts)
    /\ call' = NoCall
    /\ asked' = [h \in Hosts |-> 0] /\ unheeded' = {}
    /\ UNCHANGED <<since, robots, heard, web, fetch, emitted>>

-----------------------------------------------------------------------------
Init ==
    /\ HttpInit
    /\ web \in Webs
    /\ task = [status |-> "waiting", attempts |-> 0, delay |-> 0,
               error |-> "none"]
    /\ fetch = FirstLoop /\ emitted = <<>>

Step ==
    \/ Execute \/ Skip \/ GetPage \/ GetItem \/ ReadPage \/ EmitItem \/ Finish
    \/ ReportFailure
    \/ HttpStep /\ UNCHANGED fetchVars

Tick ==
    /\ TimePasses
    /\ task' = [task EXCEPT !.delay = Shorter(@)]
    /\ UNCHANGED <<web, fetch, emitted>>

Next == Step \/ Unreadable \/ Kill \/ Tick

\* The worker and the client go on, every request has a timeout, time passes.
Spec == Init /\ [][Next]_vars /\ WF_vars(Step) /\ WF_vars(Tick)

-----------------------------------------------------------------------------
(* What a fetch promises *)

Tasks == [status: {"waiting", "running", "done", "dead"},
          attempts: 0..MaxAttempts, delay: Nat,
          error: RETRYABLE_ERRORS \cup {"none", "permanent", "configuration"}]

\* Every variable keeps its type; the delay of a retry is within the bounds
\* of the RetrySpec (only a fixed delay may exceed max_seconds).
TypeOK ==
    /\ HttpTypeOK
    /\ web \in Webs
    /\ task \in Tasks
    /\ \/ task.delay <= MaxSeconds
       \/ RetryBackoff = "fixed" /\ task.delay <= BaseSeconds
    /\ fetch.pages \in Seq(Urls) /\ fetch.items \in Seq(Urls)
    /\ fetch.seen \subseteq Urls
    /\ fetch.found \in Nat /\ fetch.count \in Nat
    /\ emitted \in Seq(Urls)

\* Within one execution, two requests that `get` sends for URLs of one host are
\* at least rate_limit_seconds apart, whatever the attempts, waits, hops and
\* pages between.  The hops of a redirect, and robots.txt, are not among them.
RequestsAreSpaced == [][Send => heard[Host] >= Rate]_vars

\* After a 429 with a Retry-After no page of that host is asked for before it
\* is over (cut to an hour, and to max_seconds once the execution has failed):
\* by no further attempt, no hop and not by the next execution of the task.
\* Only a child that is killed in its sleep takes the Retry-After with it, and
\* one that came in answer to robots.txt is not heeded.
RetryAfterIsHonoured ==
    [][/\ Send => asked[Host] = 0 \/ Host \in unheeded
       /\ \A h \in Hosts : Redirect(h) => asked[h] = 0 \/ h \in unheeded]_vars

\* The pages a fetch has to list: the smallest set with the first ones and all
\* that follows a page of it.
Follows(url) ==
    CASE web.kind \in {"rss", "api_single"} -> {}
      [] web.kind = "api_numbered" /\ web.links[url] = <<>> -> {}
      [] OTHER -> ToSet(web.next[url])

Reachable ==
    {url \in Urls : \A S \in SUBSET Urls :
        ToSet(web.start) \subseteq S /\ (\A u \in S : Follows(u) \subseteq S)
            => url \in S}

Expected ==
    IF web.kind = "web_page" THEN ToSet(web.start)
    ELSE UNION {ToSet(web.links[url]) : url \in Reachable}

\* The fetch was stopped by a limit.
CutOff == \/ CountsPages /\ fetch.count >= MaxPages
          \/ ~IsApi /\ fetch.found >= MaxItems

\* An execution that succeeds without having met a limit has emitted all that
\* can be reached from where it started and nothing else, a list's items once,
\* though pages repeat, link back or end the walk.
FetchIsComplete ==
    task.status = "done" =>
        /\ ToSet(emitted) \subseteq Expected
        /\ ~CutOff => ToSet(emitted) = Expected
        /\ web.kind = "web_list" => Len(emitted) = Cardinality(ToSet(emitted))

\* No site makes a fetch exceed its limits, over all its pages together.
LimitsHold ==
    /\ CountsPages => fetch.count <= MaxPages
    /\ ~IsApi => Len(emitted) + Len(fetch.items) <= MaxItems

\* Two loops stand between a trouble and the loss of a task: the attempts of
\* `get` and the executions of the task.  A task dies of a final error, or of as
\* many failed attempts as both allow together; those after which `get` got its
\* answer do not count, and an error that ends the execution at once counts for
\* all attempts of a `get`.
TroublesAreSurvived ==
    task.status = "dead" => \/ task.error \in {"permanent", "configuration"}
                            \/ spent >= MaxAttempts * Attempts

\* A task comes to its end, on sites whose pages link back in circles too.
TaskSettles == <>(task.status \in {"done", "dead"})
=============================================================================
